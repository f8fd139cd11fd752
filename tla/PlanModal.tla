------------------------------- MODULE PlanModal --------------------------------
(***************************************************************************)
(* src/client/app.js: the list of plans the web client has discovered and  *)
(* the window in which it shows one, on top of the relay (PlanReading).    *)
(* Answers come when they come; the state of another session may have come *)
(* first.                                                                  *)
(*                                                                         *)
(* A plan window waits for one answer at most: its instanceId and          *)
(* requestSeq are the command it awaits.                                   *)
(***************************************************************************)
EXTENDS PlanReading

VARIABLES
    view,      \* state, and stateSnapshotFresh
    disc,      \* discoveredPlanNonce, -NonceSession, -ScanInFlight and -Refs
    modal,     \* activePlanModal
    waiting,   \* pendingCommandResults
    issued     \* newCommandId's counter

clientVars == <<view, disc, modal, waiting, issued>>
vars       == <<readingVars, clientVars>>

NoData  == [plan |-> NoCommand]
NoModal == [plan |-> NoCommand, session |-> NoCommand, summary |-> 0,
            awaits |-> NoCommand, data |-> NoData]
NoDisc  == [nonce |-> NoCommand, session |-> NoCommand, refs |-> NoCommand]

Init ==
    /\ ReadingInit
    /\ view = [session |-> relay.session, health |-> "live", summary |-> 0, fresh |-> TRUE]
    /\ disc = NoDisc /\ modal = NoModal /\ waiting = {} /\ issued = 0

--------------------------------------------------------------------------------
(* The list and the window.                                                *)

\* planSessionTarget
HasTarget(v) == link /\ v.fresh /\ v.health # "down"

\* activePlanReferences
ActiveRefs(v, d) == IF HasTarget(v) /\ d.session = v.session THEN {d.refs} \ {NoCommand} ELSE {}

\* prunePlanDiscovery
Pruned(v) ==
    IF disc.session # NoCommand /\ (~HasTarget(v) \/ disc.session # v.session) THEN NoDisc ELSE disc

\* closePlanModal in clearPlanDiscovery and clearPlanDiscoveryRefs
WithoutReference(m) == IF m.plan \in Commands THEN NoModal ELSE m

\* Mutant of Synced: the summary changes and the request under way is left alone.
SyncedKeepsRequest(m, v, d) ==
    IF m = NoModal THEN m
    ELSE IF m.session # v.session \/ m.plan \notin {Card} \cup ActiveRefs(v, d) THEN NoModal
    ELSE IF m.plan = Card /\ m.summary # v.summary THEN [m EXCEPT !.summary = v.summary]
    ELSE m

\* syncPlanModalFromState
Synced(m, v, d) ==
    IF m = NoModal THEN m
    ELSE IF m.session # v.session \/ m.plan \notin {Card} \cup ActiveRefs(v, d) THEN NoModal
    ELSE IF m.plan = Card /\ m.summary # v.summary
    THEN [m EXCEPT !.summary = v.summary, !.awaits = NoCommand, !.data = NoData]
    ELSE m

\* sendCommandAwaitResult
Sends(c, kind, plan) ==
    /\ c = issued + 1
    /\ issued' = c /\ waiting' = waiting \cup {c}
    /\ toServer' = Append(toServer, [of |-> c, kind |-> kind, session |-> view.session, plan |-> plan])

--------------------------------------------------------------------------------
(* What the user asks for.                                                 *)

\* startPlanDiscovery
Discover(c) ==
    /\ HasTarget(view)
    /\ disc.nonce \notin waiting
    /\ disc' = [nonce |-> c, session |-> view.session, refs |-> NoCommand]
    /\ modal' = Synced(WithoutReference(modal), view, disc')
    /\ Sends(c, "discover", NoCommand)
    /\ UNCHANGED view

\* openPlanModal and loadFullPlanIntoModal
OpenPlan(c, plan) ==
    /\ link
    /\ modal = NoModal
    /\ plan \in {Card} \cup ActiveRefs(view, disc)
    /\ modal' = [NoModal EXCEPT !.plan = plan, !.session = view.session, !.summary = view.summary,
                                !.awaits = c]
    /\ Sends(c, "read", plan)
    /\ UNCHANGED <<view, disc>>

\* reReadFullPlan
ReadAgain(c) ==
    /\ link
    /\ modal # NoModal
    /\ IF modal.plan \in {Card} \cup ActiveRefs(view, disc)
       THEN /\ modal' = [modal EXCEPT !.awaits = c, !.data = NoData]
            /\ Sends(c, "read", modal.plan)
       ELSE modal' = NoModal /\ UNCHANGED <<issued, waiting, toServer>>
    /\ UNCHANGED <<view, disc>>

ClosePlan ==
    /\ modal # NoModal
    /\ modal' = NoModal
    /\ UNCHANGED <<view, disc, waiting, issued>>

--------------------------------------------------------------------------------
(* What arrives.                                                           *)

\* state:patch and state:full, and the renders they cause
GetState ==
    /\ toClient # <<>> /\ Head(toClient).kind \in {"patch", "full"}
    /\ LET s == Head(toClient).state
           v == [session |-> s.session, health |-> s.health, summary |-> s.summary,
                 fresh |-> view.fresh \/ Head(toClient).kind = "full"]
       IN
       /\ view' = v
       /\ disc' = Pruned(v)
       /\ modal' = Synced(IF Pruned(v) = disc THEN modal ELSE WithoutReference(modal), v, disc')
    /\ UNCHANGED <<waiting, issued>>

\* The rest of startPlanDiscovery and of loadFullPlanIntoModal, once the wait is over.
Settle(c, r) ==
    /\ waiting' = waiting \ {c}
    /\ disc' = IF disc.nonce # c THEN disc
               ELSE IF disc.session # view.session \/ ~HasTarget(view) THEN NoDisc
               ELSE IF r.ok THEN [disc EXCEPT !.refs = c] ELSE disc
    /\ modal' = IF modal.awaits # c THEN modal
                ELSE [modal EXCEPT !.awaits = NoCommand,
                          !.data = IF r.ok THEN [plan |-> r.plan, session |-> r.session, summary |-> r.summary]
                                   ELSE NoData]
    /\ UNCHANGED <<view, issued>>

\* command:result; one that comes after its timer is not waited for any more.
GetAnswer ==
    /\ toClient # <<>> /\ Head(toClient).kind = "answer"
    /\ IF Head(toClient).of \in waiting THEN Settle(Head(toClient).of, Head(toClient))
       ELSE UNCHANGED clientVars

\* The timer of 12 s.
GivesUp(c) == c \in waiting /\ Settle(c, [ok |-> FALSE])

\* disconnect: failPendingCommands, clearPlanDiscovery, closePlanModal
LosesSocket ==
    /\ view' = [view EXCEPT !.fresh = FALSE]
    /\ disc' = NoDisc /\ modal' = NoModal /\ waiting' = {}
    /\ UNCHANGED issued

\* armPlanDiscoveryExpiry, when the references are too old
RefsExpire ==
    /\ disc.refs # NoCommand
    /\ disc' = NoDisc
    /\ modal' = Synced(WithoutReference(modal), view, NoDisc)
    /\ UNCHANGED <<view, waiting, issued>>

--------------------------------------------------------------------------------
(* The whole.                                                              *)

Asks ==
    /\ \E c \in Commands :
          Discover(c) \/ ReadAgain(c) \/ \E plan \in {Card} \cup Commands : OpenPlan(c, plan)
    /\ UNCHANGED <<documentVars, serverVars, toClient, link, moves>>

Gets ==
    /\ GetState \/ GetAnswer
    /\ toClient' = Tail(toClient)
    /\ UNCHANGED <<documentVars, serverVars, toServer, link, moves>>

Fails ==
    /\ moves < MaxMoves /\ moves' = moves + 1
    /\ ClosePlan \/ RefsExpire \/ \E c \in Commands : GivesUp(c)
    /\ UNCHANGED <<documentVars, serverVars, networkVars>>

\* What is sent arrives at once: the relay knows more than the client as long as its
\* patch is not sent, and that is where commands and patches cross.
Quiet == toServer = <<>> /\ toClient = <<>>

Next ==
    \/ Gets
    \/ ReceiveCommand /\ UNCHANGED clientVars
    \/ /\ Quiet
       /\ \/ Asks \/ Fails
          \/ RelayActs /\ UNCHANGED clientVars
          \/ OthersAct /\ UNCHANGED clientVars
          \/ Drop /\ LosesSocket
          \/ Reconnect /\ UNCHANGED clientVars

Spec == Init /\ [][Next]_vars

--------------------------------------------------------------------------------

\* A read or a discovery that says it succeeded has put Cursor back the way it found
\* it: the tab it found is the one it last saw, the row that was on screen before it
\* scrolled is on screen again, and no key or wheel was touched since it came
\* (resolvePlanFileOnClient and discoverPlansOnClient: "an unverifiable restore is never
\* reported as success").
FoundAsLeft ==
    flow.outcome = "ok" =>
        /\ trace.lastTab = trace.tab
        /\ ~trace.lastInput
        /\ Scrolled => trace.lastRow = trace.row

\* Once the user has touched the window, the flow neither scrolls nor clicks in it
\* again, whatever it was about to do (the watch, read in the same evaluate as every write).
HandsOffAfterInput ==
    [][InPage /\ trace.input => page' = page]_vars

\* The plan the client shows is that of the session it shows, its text is never older
\* than the summary beside it, and they agree once no patch is on its way (isCurrent,
\* planResultGuards, requestSeq and syncPlanModalFromState together).
ShownPlanIsCurrent ==
    modal.data # NoData =>
        /\ modal.data.session = view.session
        /\ modal.data.plan = modal.plan
        /\ modal.plan = Card =>
              /\ modal.data.summary >= view.summary
              /\ toClient = <<>> /\ sent = Public => modal.data.summary = view.summary

================================================================================
