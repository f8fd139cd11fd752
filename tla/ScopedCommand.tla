----------------------------- MODULE ScopedCommand -----------------------------
(***************************************************************************)
(* src/server/scoped-command-service.ts with what it is wired to in        *)
(* relay.ts and command-executor.ts: a supervisor's write request is       *)
(* journalled, queued on the UI, checked once more just before it touches  *)
(* the UI, charged to its grant, and confirmed; the owner may take over,   *)
(* resume or revoke at any moment, and the process may die.                *)
(*                                                                         *)
(* The server is one thread.  A stretch of code without an await is a      *)
(* turn: each of its commits is a step, so the process can die between     *)
(* two, but no one else runs before the turn ends.                         *)
(*                                                                         *)
(* A request travels through an execution (executeOnce) and the callback   *)
(* it has dispatched (the run).  The execution may be told that the        *)
(* dispatch failed while the run still goes on: TargetUiCoordinator        *)
(* rejects its caller on a timeout and keeps the lane until the callback   *)
(* ends.  One run at a time holds the lane; which of the waiting ones is   *)
(* next is left open (TargetUiLane has the queue).                         *)
(*                                                                         *)
(* What the page shows is the workspace it belongs to (none once the last  *)
(* extraction is too old) and the mode of the composer; window, composer,  *)
(* target and model are checked where these two are, so a workspace has    *)
(* one lane, that of the target that shows it.                             *)
(***************************************************************************)
EXTENDS Supervision

CONSTANTS
    Ops,           \* operation ids supervisors choose
    MaxRecords,    \* OPERATION_JOURNAL_MAX_RECORDS
    NoPayload,
    Modes,         \* composer modes
    Calls,         \* bound: executions at a time
    NoIssue,       \* the issue of a request that names none
    MaxFaults      \* bound: writes that fail

\* What a payload digest stands for: a request names a grant, the control version
\* it was made under, and possibly an issue.
Payloads == [grant : Grants, version : 1 .. (MaxVersion + 1), issue : Issues \cup {NoIssue}]

ASSUME ScopedAssumption ==
    /\ NoPayload \notin Payloads
    /\ NoIssue \notin Issues
    /\ MaxFaults \in Nat

VARIABLES
    journal, journalDisk, journalUp, begun,   \* OperationJournal
    shown,      \* the workspace of the latest fresh extraction
    mode,       \* the mode in the latest extraction
    call,       \* executions and their runs
    owner,      \* ownerTakeover, while its turn lasts
    faults,     \* writes that failed so far
    acts,       \* history: the UI mutations made for supervisors
    made,       \* history: operations whose mutation their present record is about
    left,       \* history: operations whose record failBeforeDispatch could not settle
    strays      \* history: operations whose record was dropped while a run for them went on

J == INSTANCE OperationJournal WITH Digests <- Payloads, NoDigest <- NoPayload

journalVars == <<journal, journalDisk, journalUp, begun>>
pageVars    == <<shown, mode>>
history     == <<acts, made, left, strays>>
scopedVars  == <<supVars, journalVars, pageVars, call, owner, faults, history>>

--------------------------------------------------------------------------------
(* Executions, runs and turns.                                             *)

ExecSteps == {"idle", "created", "pending", "waiting", "confirming", "unknown"}
RunSteps  == {"none", "queued", "probing", "probed", "marked", "acting", "acted"}

Idle == [pc |-> "idle", run |-> "none", op |-> "none", payload |-> NoPayload,
         mode |-> "none", seen |-> "none", authorized |-> FALSE,
         outcome |-> "none", cut |-> FALSE]

NoTakeover == [step |-> "none", workspace |-> NoWorkspace, paused |-> {}]

\* A slot is free once the execution has answered and its run has ended.
Slot(r) == IF r.pc = "idle" /\ r.run = "none" THEN Idle ELSE r

SetCall(c, r) == call' = [call EXCEPT ![c] = Slot(r)]

InTurn(c) == call[c].pc \in {"created", "pending", "unknown"} \/ call[c].run = "marked"

Serving == supUp /\ journalUp

\* No turn is under way: any promise, timer or request may start one.
Ready == Serving /\ owner.step = "none" /\ \A c \in Calls : ~InTurn(c)

\* A write that returns, or one of the failures the bound allows.
Try(ok) ==
    /\ ~ok => faults < MaxFaults
    /\ faults' = IF ok THEN faults ELSE faults + 1

GrantOf(o)  == journal.digest[o].grant
Recorded(o) == journal.status[o] # "absent"

UnknownFor(g, o) ==
    Recorded(o) /\ GrantOf(o) = g /\ journal.status[o] \in {"dispatching", "dispatched", "unknown"}

\* hasUnknownForGrant
HasUnknownForGrant(g, o) == \E p \in Ops \ {o} : UnknownFor(g, p)

\* assertBaseScope
BaseScope(p) ==
    /\ shown = sup.grant[p.grant].workspace
    /\ MayWrite(sup, p.grant, p.version, p.issue # NoIssue)
    /\ p.issue # NoIssue =>
          LET permit == sup.permit[p.issue] IN
          /\ permit.status = "pending" /\ permit.decision = "approved"
          /\ now < permit.expiresAt
          /\ permit.grant = p.grant /\ permit.version = p.version

\* The credential a request was made with still stands (authenticate).
Authenticated(g) ==
    sup.grant[g].cred = "token" /\ now < sup.grant[g].credUntil /\ Valid(sup, g)

--------------------------------------------------------------------------------
(* executeOnce, up to the dispatch.                                        *)

\* An id being executed joins that execution; one recorded with another payload,
\* or past the dispatch, is answered from the journal: neither is a step.
Admitted(o, p) ==
    /\ Ready
    /\ Authenticated(p.grant)
    /\ \A d \in Calls : call[d].pc # "idle" => call[d].op # o

NewCall(o, p, pc) == [Idle EXCEPT !.pc = pc, !.op = o, !.payload = p, !.mode = mode]

Submit(c, o, p, ok) ==
    /\ call[c] = Idle
    /\ Admitted(o, p)
    /\ ~Recorded(o)
    /\ Try(ok)
    /\ \/ J!CreateWithRoom(o, p, ok)
       \/ J!CreateDroppingOldest(o, p, ok)
    /\ SetCall(c, IF ok THEN NewCall(o, p, "created") ELSE Idle)
    /\ made' = {q \in made : journal'.status[q] # "absent"}
    /\ strays' = strays \cup {q \in Ops :
            /\ Recorded(q) /\ journal'.status[q] = "absent"
            /\ \E d \in Calls : call[d].op = q /\ call[d].run # "none"}
    /\ UNCHANGED <<supVars, pageVars, owner, acts, left>>

Resubmit(c, o) ==
    /\ call[c] = Idle
    /\ Recorded(o) /\ Admitted(o, journal.digest[o])
    /\ \/ journal.status[o] = "recorded" /\ SetCall(c, NewCall(o, journal.digest[o], "created"))
       \/ journal.status[o] = "pending" /\ SetCall(c, NewCall(o, journal.digest[o], "pending"))
    /\ UNCHANGED <<supVars, journalVars, pageVars, owner, faults, history>>

MarkPending(c, ok) ==
    /\ call[c].pc = "created"
    /\ Try(ok)
    /\ J!MarkPending(call[c].op, ok)
    /\ SetCall(c, [call[c] EXCEPT !.pc = IF ok THEN "pending" ELSE "idle"])
    /\ UNCHANGED <<supVars, pageVars, owner, history>>

Passes(c) ==
    /\ ~HasUnknownForGrant(call[c].payload.grant, call[c].op)
    /\ BaseScope(call[c].payload)

Dispatch(c) ==
    /\ call[c].pc = "pending"
    /\ Passes(c)
    /\ SetCall(c, [call[c] EXCEPT !.pc = "waiting", !.run = "queued"])
    /\ UNCHANGED <<supVars, journalVars, pageVars, owner, faults, history>>

\* failBeforeDispatch: the record is settled unless it already has an outcome.
FailBeforeDispatch(c, ok) ==
    \/ /\ journal.status[call[c].op] \in {"recorded", "pending", "dispatching"}
       /\ Try(ok)
       /\ J!Settle(call[c].op, "failed", ok)
       /\ left' = IF ok THEN left ELSE left \cup {call[c].op}
    \/ /\ journal.status[call[c].op] \notin {"recorded", "pending", "dispatching"}
       /\ ok
       /\ UNCHANGED <<journalVars, faults, left>>

Refuse(c, ok) ==
    /\ call[c].pc = "pending"
    /\ ~Passes(c)
    /\ FailBeforeDispatch(c, ok)
    /\ SetCall(c, [call[c] EXCEPT !.pc = "idle"])
    /\ UNCHANGED <<supVars, pageVars, owner, acts, made, strays>>

--------------------------------------------------------------------------------
(* The run: beforeDispatch, then the UI mutation.                          *)

\* The run stops here: its error or result is the outcome of the dispatch, unless
\* the execution was given one before.
RunEnds(c, outcome) ==
    SetCall(c, [call[c] EXCEPT
        !.run = "none",
        !.outcome = IF call[c].pc = "waiting" /\ @ = "none" THEN outcome ELSE @])

\* The lane of the request is free.
LaneFree(c) ==
    \A d \in Calls \ {c} :
        call[d].run \notin {"none", "queued"} =>
            sup.grant[call[d].payload.grant].workspace # sup.grant[call[c].payload.grant].workspace

\* assertFinalScope up to its await: the page is looked at here,
StartRun(c) ==
    /\ Ready
    /\ call[c].run = "queued" /\ LaneFree(c)
    /\ IF BaseScope(call[c].payload)
       THEN SetCall(c, [call[c] EXCEPT !.run = "probing", !.seen = mode])
       ELSE RunEnds(c, "error")
    /\ UNCHANGED <<supVars, journalVars, pageVars, owner, faults, history>>

FinishProbeWithoutSearch(c, draft) ==
    /\ Ready
    /\ call[c].run = "probing"
    /\ IF ~draft /\ call[c].seen = call[c].mode
       THEN SetCall(c, [call[c] EXCEPT !.run = "probed"])
       ELSE RunEnds(c, "error")
    /\ UNCHANGED <<supVars, journalVars, pageVars, owner, faults, history>>

\* and here, once the draft has been read, its mode is compared and the journal is
\* searched; the error may also be a draft that is present or cannot be read.
FinishProbe(c, draft) ==
    /\ Ready
    /\ call[c].run = "probing"
    /\ IF ~draft /\ call[c].seen = call[c].mode
          /\ ~HasUnknownForGrant(call[c].payload.grant, call[c].op)
       THEN SetCall(c, [call[c] EXCEPT !.run = "probed"])
       ELSE RunEnds(c, "error")
    /\ UNCHANGED <<supVars, journalVars, pageVars, owner, faults, history>>

\* The promise of assertFinalScope resolves a microtask later.
MarkDispatching(c, ok) ==
    /\ Ready
    /\ call[c].run = "probed"
    /\ IF journal.status[call[c].op] \in {"recorded", "pending", "dispatching"}
       THEN /\ Try(ok)
            /\ J!MarkDispatching(call[c].op, ok)
            /\ IF ok THEN SetCall(c, [call[c] EXCEPT !.run = "marked"])
                     ELSE RunEnds(c, "error")
       ELSE /\ ok
            /\ RunEnds(c, "error")
            /\ UNCHANGED <<journalVars, faults>>
    /\ UNCHANGED <<supVars, pageVars, owner, history>>

ChargeableAtAnyVersion(p) ==
    /\ Valid(sup, p.grant)
    /\ sup.grant[p.grant].used < sup.grant[p.grant].limit
    /\ p.issue # NoIssue => Consumable(p.issue)

\* The grant's own methods refuse a charge under these conditions.
Chargeable(p) ==
    /\ Valid(sup, p.grant)
    /\ sup.grant[p.grant].version = p.version
    /\ sup.grant[p.grant].used < sup.grant[p.grant].limit
    /\ p.issue # NoIssue => Consumable(p.issue) /\ sup.permit[p.issue].grant = p.grant

ChargeTo(p, ok) ==
    \/ p.issue = NoIssue /\ RecordOperation(p.grant, sup.grant[p.grant].version, ok)
    \/ \E i \in Issues : p.issue = i /\ ConsumeIssuePermit(i, TRUE, ok)

ChargeUnchecked(c, ok) ==
    /\ call[c].run = "marked"
    /\ IF Chargeable(call[c].payload)
       THEN Try(ok) /\ ChargeTo(call[c].payload, ok)
       ELSE ok /\ UNCHANGED <<supVars, faults>>
    /\ SetCall(c, [call[c] EXCEPT !.run = "acting", !.authorized = TRUE])
    /\ UNCHANGED <<journalVars, pageVars, owner, history>>

Charge(c, ok) ==
    /\ call[c].run = "marked"
    /\ IF Chargeable(call[c].payload)
       THEN /\ Try(ok)
            /\ ChargeTo(call[c].payload, ok)
            /\ IF ok THEN SetCall(c, [call[c] EXCEPT !.run = "acting", !.authorized = TRUE])
                     ELSE RunEnds(c, "error")
       ELSE /\ ok
            /\ RunEnds(c, "error")
            /\ UNCHANGED <<supVars, faults>>
    /\ UNCHANGED <<journalVars, pageVars, owner, history>>

Act(c) ==
    /\ Ready
    /\ call[c].run = "acting"
    /\ SetCall(c, [call[c] EXCEPT !.run = "acted"])
    /\ acts' = acts \cup {[op |-> call[c].op, payload |-> call[c].payload]}
    /\ made' = IF journal.digest[call[c].op] = call[c].payload THEN made \cup {call[c].op} ELSE made
    /\ UNCHANGED <<supVars, journalVars, pageVars, owner, faults, left, strays>>

\* The dispatch returns: ok only if the mutation was made.
FinishRun(c, outcome) ==
    /\ Ready
    /\ \/ call[c].run = "acting" /\ outcome = "error"
       \/ call[c].run = "acted"
    /\ RunEnds(c, outcome)
    /\ UNCHANGED <<supVars, journalVars, pageVars, owner, faults, history>>

\* The dispatch is rejected while its run goes on (a timeout, a cancelled lane),
RejectDispatch(c) ==
    /\ Ready
    /\ call[c].pc = "waiting" /\ call[c].outcome = "none"
    /\ SetCall(c, [call[c] EXCEPT !.outcome = "error"])
    /\ UNCHANGED <<supVars, journalVars, pageVars, owner, faults, history>>

\* or before its run starts: a cancelled ticket, a stale generation, or a commandId
\* whose result getOrRunCommand still has.
DropDispatch(c, outcome) ==
    /\ Ready
    /\ call[c].run = "queued"
    /\ RunEnds(c, outcome)
    /\ UNCHANGED <<supVars, journalVars, pageVars, owner, faults, history>>

--------------------------------------------------------------------------------
(* executeOnce, once the dispatch has an outcome.                          *)

Answered(c) == Ready /\ call[c].pc = "waiting" /\ call[c].outcome # "none"

FailAnyError(c, ok) ==
    /\ Answered(c)
    /\ call[c].outcome = "error"
    /\ FailBeforeDispatch(c, ok)
    /\ SetCall(c, [call[c] EXCEPT !.pc = "idle"])
    /\ UNCHANGED <<supVars, pageVars, owner, acts, made, strays>>

FailUnauthorised(c, ok) ==
    /\ Answered(c)
    /\ ~call[c].authorized
    /\ FailBeforeDispatch(c, ok)
    /\ SetCall(c, [call[c] EXCEPT !.pc = "idle"])
    /\ UNCHANGED <<supVars, pageVars, owner, acts, made, strays>>

StartUnknown(c) ==
    /\ Answered(c)
    /\ call[c].authorized /\ call[c].outcome = "error"
    /\ SetCall(c, [call[c] EXCEPT !.pc = "unknown"])
    /\ UNCHANGED <<supVars, journalVars, pageVars, owner, faults, history>>

MarkDispatched(c, ok) ==
    /\ Answered(c)
    /\ call[c].authorized /\ call[c].outcome = "ok"
    /\ IF journal.status[call[c].op] \in {"dispatching", "dispatched"}
       THEN Try(ok) /\ J!MarkDispatched(call[c].op, ok)
       ELSE ~ok /\ UNCHANGED <<journalVars, faults>>
    /\ SetCall(c, [call[c] EXCEPT !.pc = IF ok THEN "confirming" ELSE "unknown"])
    /\ UNCHANGED <<supVars, pageVars, owner, history>>

Confirm(c, confirmed, ok) ==
    /\ Ready
    /\ call[c].pc = "confirming"
    /\ IF confirmed
       THEN IF journal.status[call[c].op] \in {"dispatching", "dispatched", "unknown"}
            THEN Try(ok) /\ J!Settle(call[c].op, "confirmed", ok)
            ELSE ~ok /\ UNCHANGED <<journalVars, faults>>
       ELSE ~ok /\ UNCHANGED <<journalVars, faults>>
    /\ SetCall(c, [call[c] EXCEPT !.pc = IF ok THEN "idle" ELSE "unknown"])
    /\ UNCHANGED <<supVars, pageVars, owner, history>>

\* markUnknown: its commits in turn; the first that fails ends it.
MarkUnknown(c, ok) ==
    /\ call[c].pc = "unknown"
    /\ LET o == call[c].op
           g == call[c].payload.grant
           next(pc) == SetCall(c, [call[c] EXCEPT !.pc = pc]) IN
       \/ /\ journal.status[o] = "dispatching"
          /\ Try(ok) /\ J!MarkDispatched(o, ok)
          /\ next(IF ok THEN "unknown" ELSE "idle")
          /\ UNCHANGED supVars
       \/ /\ journal.status[o] = "dispatched"
          /\ Try(ok) /\ J!Settle(o, "unknown", ok)
          /\ next(IF ok THEN "unknown" ELSE "idle")
          /\ UNCHANGED supVars
       \/ /\ journal.status[o] \notin {"dispatching", "dispatched"}
          /\ IF "result_unknown" \notin sup.grant[g].pauses
             THEN Try(ok) /\ PauseGrant(g, "result_unknown", ok)
             ELSE ok /\ UNCHANGED <<supVars, faults>>
          /\ next("idle")
          /\ UNCHANGED journalVars
    /\ UNCHANGED <<pageVars, owner, history>>

--------------------------------------------------------------------------------
(* The owner: takeover, and the routes that let supervision go on.         *)

\* Pausing for a takeover cuts off every request its grants have in progress.
CutOff(paused) ==
    call' = [c \in Calls |->
        IF call[c] # Idle /\ call[c].payload.grant \in paused
        THEN [call[c] EXCEPT !.cut = ~call[c].authorized \/ @] ELSE call[c]]

ActiveIn(w) == {g \in Grants : sup.grant[g].workspace = w /\ sup.grant[g].status = "active"}

\* ownerTakeover of the workspace shown, by a human command, or of the one a switch
\* of windows is about to leave; without one, of everything.
StartTakeover(w) ==
    /\ Ready
    /\ owner' = [step |-> "pausing", workspace |-> w, paused |-> {}]
    /\ UNCHANGED <<supVars, journalVars, pageVars, call, faults, history>>

PauseForTakeover(ok) ==
    /\ owner.step = "pausing" /\ owner.workspace # NoWorkspace
    /\ IF ActiveIn(owner.workspace) # {}
       THEN /\ Try(ok)
            /\ PauseWorkspace(owner.workspace, "human_takeover", ok)
            /\ IF ok THEN CutOff(ActiveIn(owner.workspace)) ELSE UNCHANGED call
       ELSE ok /\ UNCHANGED <<supVars, faults, call>>
    /\ owner' = IF ok THEN [owner EXCEPT !.step = "cancelling"] ELSE NoTakeover
    /\ UNCHANGED <<journalVars, pageVars, history>>

PauseOneForTakeover(g, ok) ==
    /\ owner.step = "pausing" /\ owner.workspace = NoWorkspace
    /\ sup.grant[g].status = "active" /\ g \notin owner.paused
    /\ Try(ok)
    /\ PauseGrant(g, "human_takeover", ok)
    /\ IF ok THEN CutOff({g}) ELSE UNCHANGED call
    /\ owner' = IF ok THEN [owner EXCEPT !.paused = @ \cup {g}] ELSE NoTakeover
    /\ UNCHANGED <<journalVars, pageVars, history>>

AllPaused ==
    /\ owner.step = "pausing" /\ owner.workspace = NoWorkspace
    /\ \A g \in Grants : sup.grant[g].status = "active" => g \in owner.paused
    /\ owner' = [owner EXCEPT !.step = "cancelling"]
    /\ UNCHANGED <<supVars, journalVars, pageVars, call, faults, history>>

\* cancelPendingForWorkspace
Cancellable ==
    {o \in Ops : /\ journal.status[o] \in {"recorded", "pending"}
                 /\ owner.workspace \in {NoWorkspace, sup.grant[GrantOf(o)].workspace}}

CancelForTakeover(o, ok) ==
    /\ owner.step = "cancelling"
    /\ o \in Cancellable
    /\ Try(ok)
    /\ J!CancelPending(o, ok)
    /\ owner' = IF ok THEN owner ELSE NoTakeover
    /\ UNCHANGED <<supVars, pageVars, call, history>>

EndTakeover ==
    /\ owner.step = "cancelling"
    /\ Cancellable = {}
    /\ owner' = NoTakeover
    /\ UNCHANGED <<supVars, journalVars, pageVars, call, faults, history>>

ResumeSupervision(g, ok) ==
    /\ Ready
    /\ Valid(sup, g)
    /\ "human_takeover" \in sup.grant[g].pauses
    /\ shown = sup.grant[g].workspace
    /\ Try(ok)
    /\ ClearPause(g, "human_takeover", ok)
    /\ UNCHANGED <<journalVars, pageVars, call, owner, history>>

ResumeAfterRestart(g, ok) ==
    /\ Ready
    /\ sup.grant[g].status = "pending_recovery" /\ now < sup.grant[g].expiresAt
    /\ shown = sup.grant[g].workspace
    /\ ~ \E o \in Ops : /\ Recorded(o) /\ GrantOf(o) = g
                        /\ journal.status[o] \in {"pending", "dispatching", "dispatched", "unknown"}
    /\ Try(ok)
    /\ ResumeRecovery(g, ok)
    /\ UNCHANGED <<journalVars, pageVars, call, owner, history>>

(* The routes that are one method of the manager, and its timer.           *)

GrantRoute(ok) ==
    \E g \in Grants, w \in Workspaces, limit \in Limits, ttl \in CheckTtls, exp \in 1 .. MaxTime :
        shown = w /\ CreateGrant(g, w, limit, ttl, exp, ok)

RedeemRoute(ok) == \E g \in Grants : Redeem(g, ok)

RevokeRoute(ok) == \E g \in Grants : Revoke(g, ok)

ChecksRoute(ok) ==
    \E g \in Grants : Authenticated(g) /\ shown = sup.grant[g].workspace /\ RecordCheck(g, ok)

IssuesRoute(ok) ==
    \E g \in Grants, i \in Issues, subject \in Subjects, exp \in 1 .. MaxTime :
        Authenticated(g) /\ shown = sup.grant[g].workspace /\ CreateIssuePermit(i, g, subject, exp, ok)

\* An issue is approved only while its action is on the page.
DecisionRoute(ok) ==
    \E i \in Issues :
        \/ /\ sup.permit[i].status # "absent"
           /\ shown = sup.grant[sup.permit[i].grant].workspace
           /\ DecideIssue(i, "approved", ok)
        \/ DecideIssue(i, "rejected", ok)

\* The state of a grant, read for whoever asks, is written when a permit has lapsed.
SnapshotRoute(ok) == \E g \in Grants : ListIssues(g, ok)

CheckTimer(ok) == MarkOverdueChecks(ok)

ManageGrants ==
    /\ Ready
    /\ \E ok \in BOOLEAN :
          /\ Try(ok)
          /\ \/ GrantRoute(ok) \/ RedeemRoute(ok) \/ RevokeRoute(ok)
             \/ ChecksRoute(ok) \/ IssuesRoute(ok) \/ DecisionRoute(ok) \/ SnapshotRoute(ok)
             \/ CheckTimer(ok)
    /\ UNCHANGED <<journalVars, pageVars, call, owner, history>>

--------------------------------------------------------------------------------
(* The page, the clock and the process.                                    *)

Extract ==
    /\ Ready
    /\ shown' \in Workspaces \cup {NoWorkspace}
    /\ mode' \in Modes
    /\ UNCHANGED <<supVars, journalVars, call, owner, faults, history>>

TimePasses ==
    /\ Ready
    /\ Tick
    /\ UNCHANGED <<journalVars, pageVars, call, owner, faults, history>>

Crash ==
    /\ SupCrash
    /\ IF journalUp THEN J!JournalCrash ELSE UNCHANGED journalVars
    /\ call' = [c \in Calls |-> Idle]
    /\ owner' = NoTakeover
    /\ shown' = NoWorkspace
    /\ made' = {o \in made : journalDisk.status[o] # "absent"}
    /\ UNCHANGED <<mode, faults, acts, left, strays>>

\* relay.ts constructs the manager, then the journal; when either throws the
\* process ends.  recoverUnknownPauses finds no active grant to pause then.
Restart(ok) ==
    /\ Try(ok)
    /\ \/ SupRestart /\ supUp' = ok /\ UNCHANGED journalVars
       \/ supUp /\ J!JournalRestart /\ journalUp' = ok /\ UNCHANGED supVars
    /\ UNCHANGED <<pageVars, call, owner, history>>

--------------------------------------------------------------------------------

ScopedInit ==
    /\ SupInit
    /\ J!JournalInit
    /\ shown = NoWorkspace
    /\ mode \in Modes
    /\ call = [c \in Calls |-> Idle]
    /\ owner = NoTakeover
    /\ faults = 0
    /\ acts = {}
    /\ made = {}
    /\ left = {}
    /\ strays = {}

CallStep(c) ==
    \/ \E ok \in BOOLEAN :
          \/ \E o \in Ops, p \in Payloads :
                p.version <= sup.grant[p.grant].version /\ Submit(c, o, p, ok)
          \/ MarkPending(c, ok)
          \/ Refuse(c, ok)
          \/ MarkDispatching(c, ok)
          \/ Charge(c, ok)
          \/ FailUnauthorised(c, ok)
          \/ MarkDispatched(c, ok)
          \/ \E confirmed \in BOOLEAN : Confirm(c, confirmed, ok)
          \/ MarkUnknown(c, ok)
    \/ \E o \in Ops : Resubmit(c, o)
    \/ Dispatch(c)
    \/ StartRun(c)
    \/ \E draft \in BOOLEAN : FinishProbe(c, draft)
    \/ Act(c)
    \/ \E outcome \in {"ok", "error"} : FinishRun(c, outcome) \/ DropDispatch(c, outcome)
    \/ RejectDispatch(c)
    \/ StartUnknown(c)

OwnerStep ==
    \/ \E w \in Workspaces \cup {NoWorkspace} : StartTakeover(w)
    \/ AllPaused
    \/ EndTakeover
    \/ \E ok \in BOOLEAN :
          \/ PauseForTakeover(ok)
          \/ \E g \in Grants :
                PauseOneForTakeover(g, ok) \/ ResumeSupervision(g, ok) \/ ResumeAfterRestart(g, ok)
          \/ \E o \in Ops : CancelForTakeover(o, ok)
    \/ ManageGrants

ScopedNext ==
    \/ \E c \in Calls : CallStep(c)
    \/ OwnerStep
    \/ Extract
    \/ TimePasses
    \/ Crash
    \/ \E ok \in BOOLEAN : Restart(ok)

ScopedSpec == ScopedInit /\ [][ScopedNext]_scopedVars

--------------------------------------------------------------------------------
(* Properties.                                                             *)

Authorises(c) == ~call[c].authorized /\ call'[c].authorized

\* A mutation is authorised only while the grant still permits it, whatever became
\* of the grant while the request waited: beforeDispatch checks, awaits, and then
\* relies on the control version alone.
AuthorisedUnderPolicy ==
    [][\A c \in Calls : Authorises(c) =>
          LET p == call[c].payload IN
          /\ MayWrite(sup, p.grant, p.version, p.issue # NoIssue)
          /\ journalDisk.status[call[c].op] = "dispatching"]_scopedVars

\* A request in progress when the owner took over never reaches the UI, not even
\* when the owner has resumed supervision before its turn comes.
TakeoverIsACut == [][\A c \in Calls : Authorises(c) => ~call[c].cut]_scopedVars

\* No mutation is authorised while another operation of the grant may have happened
\* without its result being known, although beforeDispatch looks for one before
\* the last of its awaits.  The exception is an operation whose record a full journal
\* dropped: the run in progress marks whatever record its id has by then.
UnresolvedBlocksGrant ==
    [][\A c \in Calls : Authorises(c) =>
          \A o \in Ops \ strays :
              o # call[c].op => ~UnknownFor(call[c].payload.grant, o)]_scopedVars

\* No request is acted on twice: not by a retry, a resubmission, or an execution
\* after a crash, and not once the journal has dropped its record.
NeverTwice ==
    [][\A c \in Calls : call[c].run = "acting" /\ call'[c].run = "acted" =>
          [op |-> call[c].op, payload |-> call[c].payload] \notin acts]_scopedVars

\* Every mutation is a charge in the file: a grant never has more of them than its
\* limit, over crashes and failed writes.
ActsAreCharged ==
    \A g \in Grants : Cardinality({a \in acts : a.payload.grant = g}) <= supDisk.grant[g].used

\* What the journal says failed or was cancelled never touched the UI, although its
\* run may go on after the execution gave it up.  The exceptions are an operation
\* whose giving up could not be written: its record stays pending, the run still in
\* progress may act on it, and a resubmission that finds it so may then fail it; and
\* one whose record a full journal dropped while its run went on: the run may act on
\* the record of a later request with the same id, which that request may then fail.
FailedMeansUntouched ==
    Serving => \A o \in made \ (left \cup strays) :
        journal.status[o] \notin {"recorded", "pending", "failed", "cancelled"}

\* The mode that beforeDispatch finds unchanged is the one on the page by then.
ModeIsCurrent ==
    [][\A c \in Calls :
          call[c].run = "probing" /\ call'[c].run = "probed" => mode = call[c].mode]_scopedVars

================================================================================
