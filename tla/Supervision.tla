----------------------------- MODULE Supervision ------------------------------
(***************************************************************************)
(* src/server/supervision-manager.ts and supervision-policy.ts: the        *)
(* durable store of supervision grants, their one-shot credentials and     *)
(* the one-shot permits for single issues.  Every change clones the store, *)
(* writes the clone and only then adopts it.  A method that throws before  *)
(* it writes is no step.                                                   *)
(*                                                                         *)
(* Random ids are elements of Grants and Issues, used once each.  The      *)
(* control version, random in the code, is a counter: only equality is     *)
(* ever asked of it.  A grant has one redeem code and the code at most one *)
(* token, so both are the field `cred` of the grant.  What cannot change   *)
(* after creation (goal, plan version, allowed actions) is left out; an    *)
(* issue's composer, action and content digest are one `subject`.          *)
(***************************************************************************)
EXTENDS Naturals, FiniteSets, Persist

CONSTANTS
    Grants,          \* grant ids
    Issues,          \* issue permit ids
    Subjects,        \* what an issue permit is for
    Workspaces,      \* workspace identities
    NoGrant, NoSubject, NoWorkspace,
    Limits,          \* operation limits a grant may be created with
    CheckTtls,       \* check windows a grant may be created with; 0 is none
    CallerReasons,   \* the pause reasons callers add and clear
    MaxGrants,       \* SUPERVISION_MAX_GRANTS
    MaxIssuePermits, \* SUPERVISION_MAX_ISSUE_PERMITS
    RedeemTtl, TokenTtl,
    MaxVersion,      \* bound: control versions a running process rotates up to
    MaxTime          \* bound: the clock stops here

PauseReasons == {"human_takeover", "pending_issue", "supervisor_lost",
                 "result_unknown", "revoked", "expired", "pending_recovery"}

ASSUME SupervisionAssumption ==
    /\ NoGrant \notin Grants /\ NoSubject \notin Subjects /\ NoWorkspace \notin Workspaces
    /\ Limits \subseteq Nat /\ CheckTtls \subseteq Nat
    /\ CallerReasons \subseteq PauseReasons
    /\ {MaxGrants, MaxIssuePermits, RedeemTtl, TokenTtl} \subseteq Nat \ {0}
    /\ {MaxVersion, MaxTime} \subseteq Nat

VARIABLES
    sup,       \* this.state: the store in memory
    supDisk,   \* supervision.json
    supUp,     \* the process has constructed its manager
    now        \* Date.now()

supVars == <<sup, supDisk, supUp, now>>

--------------------------------------------------------------------------------
(* Stores.                                                                 *)

GrantRecords == [status    : {"absent", "active", "revoked", "pending_recovery"},
                 workspace : Workspaces \cup {NoWorkspace},
                 pauses    : SUBSET PauseReasons,
                 version   : Nat,
                 used      : Nat,
                 limit     : Nat,
                 expiresAt : Nat,
                 checkTtl  : Nat,
                 seenAt    : Nat,      \* createdAt, or the latest check
                 writable  : BOOLEAN,  \* the composer is in writeComposerIds
                 cred      : {"none", "code", "token", "void"},
                 credUntil : Nat]

PermitRecords == [status    : {"absent", "pending", "consumed", "expired", "revoked"},
                  grant     : Grants \cup {NoGrant},
                  subject   : Subjects \cup {NoSubject},
                  version   : Nat,
                  decision  : {"pending", "approved", "rejected"},
                  expiresAt : Nat]

SupStores == [grant : [Grants -> GrantRecords], permit : [Issues -> PermitRecords]]

NoGrantRecord ==
    [status |-> "absent", workspace |-> NoWorkspace, pauses |-> {}, version |-> 0,
     used |-> 0, limit |-> 0, expiresAt |-> 0, checkTtl |-> 0, seenAt |-> 0,
     writable |-> FALSE, cred |-> "none", credUntil |-> 0]

NoPermitRecord ==
    [status |-> "absent", grant |-> NoGrant, subject |-> NoSubject, version |-> 0,
     decision |-> "pending", expiresAt |-> 0]

EmptySup == [grant |-> [g \in Grants |-> NoGrantRecord],
             permit |-> [i \in Issues |-> NoPermitRecord]]

Granted(s, g) == s.grant[g].status # "absent"

\* isGrantCurrentlyValid
Valid(s, g) == s.grant[g].status = "active" /\ now < s.grant[g].expiresAt

Rotate(gr) == [gr EXCEPT !.version = @ + 1]

AddPauseKeepingVersion(gr, reason) == [gr EXCEPT !.pauses = @ \cup {reason}]

\* addPauseReason, and the rotation its callers make when the reason is new.
AddPause(gr, reason) ==
    IF reason \in gr.pauses THEN gr
    ELSE Rotate([gr EXCEPT !.pauses = @ \cup {reason}])

DropPause(gr, reason) == Rotate([gr EXCEPT !.pauses = @ \ {reason}])

PendingPermits(s, g) == {i \in Issues : s.permit[i].grant = g /\ s.permit[i].status = "pending"}

LiftPendingIssueTooEarly(s, g) ==
    IF "pending_issue" \in s.grant[g].pauses
    THEN [s EXCEPT !.grant[g] = DropPause(@, "pending_issue")]
    ELSE s

\* What both listIssues and decideIssue do once permits have left "pending".
LiftPendingIssue(s, g) ==
    IF PendingPermits(s, g) = {} /\ "pending_issue" \in s.grant[g].pauses
    THEN [s EXCEPT !.grant[g] = DropPause(@, "pending_issue")]
    ELSE s

\* listIssues: pending permits that can no longer be decided or consumed.
Lapsed(s, i) == s.permit[i].status = "pending" /\ now >= s.permit[i].expiresAt
Stale(s, i) ==
    /\ s.permit[i].status = "pending" /\ now < s.permit[i].expiresAt
    /\ \/ ~Valid(s, s.permit[i].grant)
       \/ s.grant[s.permit[i].grant].version # s.permit[i].version

\* markOverdueChecks
Overdue(s, g) ==
    /\ s.grant[g].status = "active" /\ s.grant[g].checkTtl > 0
    /\ "supervisor_lost" \notin s.grant[g].pauses
    /\ now > s.grant[g].seenAt + s.grant[g].checkTtl

\* canWriteUnderSupervision, for a write that names `version` and, when
\* withIssue, an issue.
MayWrite(s, g, version, withIssue) ==
    /\ Valid(s, g)
    /\ s.grant[g].pauses \subseteq (IF withIssue THEN {"pending_issue"} ELSE {})
    /\ s.grant[g].writable
    /\ s.grant[g].version = version
    /\ s.grant[g].used < s.grant[g].limit

RecoverAllGrants(s) ==
    [s EXCEPT !.grant = [g \in Grants |->
        IF ~Granted(s, g) THEN s.grant[g]
        ELSE Rotate([s.grant[g] EXCEPT !.status = "pending_recovery",
                                       !.pauses = @ \cup {"pending_recovery"}])]]

\* markLoadedActiveGrantsPendingRecovery
RecoverGrants(s) ==
    [s EXCEPT !.grant = [g \in Grants |->
        IF s.grant[g].status # "active" THEN s.grant[g]
        ELSE Rotate([s.grant[g] EXCEPT !.status = "pending_recovery",
                                       !.pauses = @ \cup {"pending_recovery"}])]]

\* validateStore: what load accepts.
SupLoadable(s) ==
    /\ \A g \in Grants : s.grant[g].used <= s.grant[g].limit
    /\ Cardinality({g \in Grants : Granted(s, g)}) <= MaxGrants
    /\ Cardinality({i \in Issues : s.permit[i].status # "absent"}) <= MaxIssuePermits

--------------------------------------------------------------------------------
(* commit                                                                  *)

SupCommitsMemoryFirst(next) ==
    /\ sup' = next
    /\ supDisk' \in {supDisk, next}

SupCommits(next) ==
    /\ sup' = next
    /\ supDisk' = next

SupCommitFails(next) ==
    /\ UNCHANGED sup
    /\ supDisk' \in FileAfterFailure(supDisk, next, EmptySup)

WithinVersions(s) == \A g \in Grants : s.grant[g].version <= MaxVersion

SupCommit(next, ok) ==
    /\ WithinVersions(next)
    /\ IF ok THEN SupCommits(next) ELSE SupCommitFails(next)
    /\ UNCHANGED <<supUp, now>>

SetGrant(g, gr, ok) == SupCommit([sup EXCEPT !.grant[g] = gr], ok)

--------------------------------------------------------------------------------
(* The manager's methods; `ok` says whether the write returns.             *)

SupInit ==
    /\ sup = EmptySup
    /\ supDisk = EmptySup
    /\ supUp = TRUE
    /\ now = 0

NewGrant(w, limit, checkTtl, expiresAt) ==
    [status |-> "active", workspace |-> w, pauses |-> {}, version |-> 1,
     used |-> 0, limit |-> limit, expiresAt |-> expiresAt,
     checkTtl |-> checkTtl, seenAt |-> now, writable |-> TRUE,
     cred |-> "code", credUntil |-> now + RedeemTtl]

CreateGrant(g, w, limit, checkTtl, expiresAt, ok) ==
    /\ supUp
    /\ ~Granted(sup, g) /\ ~Granted(supDisk, g)   \* a fresh random id
    /\ expiresAt > now
    /\ Cardinality({h \in Grants : Granted(sup, h)}) < MaxGrants
    /\ SetGrant(g, NewGrant(w, limit, checkTtl, expiresAt), ok)

RedeemAgain(g, ok) ==
    /\ supUp
    /\ sup.grant[g].cred \in {"code", "token"} /\ now < sup.grant[g].credUntil
    /\ Valid(sup, g)
    /\ SetGrant(g, [sup.grant[g] EXCEPT !.cred = "token", !.credUntil = now + TokenTtl], ok)

Redeem(g, ok) ==
    /\ supUp
    /\ sup.grant[g].cred = "code" /\ now < sup.grant[g].credUntil
    /\ Valid(sup, g)
    /\ SetGrant(g, [sup.grant[g] EXCEPT !.cred = "token", !.credUntil = now + TokenTtl], ok)

Revoke(g, ok) ==
    /\ supUp
    /\ Granted(sup, g)
    /\ SetGrant(g, Rotate([sup.grant[g] EXCEPT !.status = "revoked",
                                              !.pauses = @ \cup {"revoked"},
                                              !.cred = "void"]), ok)

RecordOperationKeepingVersion(g, version, ok) ==
    /\ supUp
    /\ Valid(sup, g)
    /\ sup.grant[g].version = version
    /\ sup.grant[g].used < sup.grant[g].limit
    /\ SetGrant(g, [sup.grant[g] EXCEPT !.used = @ + 1], ok)

RecordOperation(g, version, ok) ==
    /\ supUp
    /\ Valid(sup, g)
    /\ sup.grant[g].version = version
    /\ sup.grant[g].used < sup.grant[g].limit
    /\ SetGrant(g, Rotate([sup.grant[g] EXCEPT !.used = @ + 1]), ok)

\* pauseWorkspace commits only when the workspace has an active grant.
PauseWorkspace(w, reason, ok) ==
    /\ supUp
    /\ \E g \in Grants : sup.grant[g].workspace = w /\ sup.grant[g].status = "active"
    /\ SupCommit([sup EXCEPT !.grant = [g \in Grants |->
            IF sup.grant[g].workspace = w /\ sup.grant[g].status = "active"
            THEN AddPause(sup.grant[g], reason) ELSE sup.grant[g]]], ok)

PauseGrant(g, reason, ok) ==
    /\ supUp
    /\ Granted(sup, g)
    /\ SetGrant(g, AddPause(sup.grant[g], reason), ok)

ClearPause(g, reason, ok) ==
    /\ supUp
    /\ Granted(sup, g)
    /\ SetGrant(g, DropPause(sup.grant[g], reason), ok)

RenewGrant(g, expiresAt, ok) ==
    /\ supUp
    /\ Granted(sup, g)
    /\ expiresAt > now
    /\ SetGrant(g, Rotate([sup.grant[g] EXCEPT !.expiresAt = expiresAt]), ok)

UpdateScopes(g, writable, ok) ==
    /\ supUp
    /\ Granted(sup, g)
    /\ SetGrant(g, Rotate([sup.grant[g] EXCEPT !.writable = writable]), ok)

\* A request that repeats a pending one is answered with that permit: no step.
CreateIssuePermit(i, g, subject, expiresAt, ok) ==
    /\ supUp
    /\ sup.permit[i].status = "absent" /\ supDisk.permit[i].status = "absent"
    /\ expiresAt > now
    /\ Valid(sup, g)
    /\ sup.grant[g].writable
    /\ ~ \E j \in PendingPermits(sup, g) :
            sup.permit[j].subject = subject /\ now < sup.permit[j].expiresAt
    /\ Cardinality({j \in Issues : sup.permit[j].status # "absent"}) < MaxIssuePermits
    /\ LET gr == AddPause(sup.grant[g], "pending_issue") IN
       SupCommit([sup EXCEPT
            !.grant[g] = gr,
            !.permit[i] = [status |-> "pending", grant |-> g, subject |-> subject,
                           version |-> gr.version, decision |-> "pending",
                           expiresAt |-> expiresAt]], ok)

DecideIssue(i, decision, ok) ==
    /\ supUp
    /\ sup.permit[i].status = "pending" /\ sup.permit[i].decision = "pending"
    /\ now < sup.permit[i].expiresAt
    /\ LET g == sup.permit[i].grant IN
       /\ Valid(sup, g)
       /\ sup.grant[g].version = sup.permit[i].version
       /\ \/ /\ decision = "approved"
             /\ SupCommit([sup EXCEPT !.permit[i].decision = decision], ok)
          \/ /\ decision = "rejected"
             /\ SupCommit(LiftPendingIssue(
                    [sup EXCEPT !.permit[i].decision = decision,
                                !.permit[i].status = "revoked"], g), ok)

\* Reading the issues of a grant retires the permits that lost their use.
ListIssues(g, ok) ==
    /\ supUp
    /\ LET lapsed == {i \in PendingPermits(sup, g) : Lapsed(sup, i)}
           stale  == {i \in PendingPermits(sup, g) : Stale(sup, i)} IN
       /\ lapsed \cup stale # {}
       /\ SupCommit(LiftPendingIssue(
            [sup EXCEPT !.permit = [i \in Issues |->
                IF i \in lapsed THEN [sup.permit[i] EXCEPT !.status = "expired"]
                ELSE IF i \in stale THEN [sup.permit[i] EXCEPT !.status = "revoked"]
                ELSE sup.permit[i]]], g), ok)

\* consumeIssuePermitInternal: its conditions, for a caller that names the
\* version the permit has,
Consumable(i) ==
    LET g == sup.permit[i].grant IN
    /\ sup.permit[i].status = "pending" /\ sup.permit[i].decision = "approved"
    /\ now < sup.permit[i].expiresAt
    /\ Valid(sup, g)
    /\ sup.grant[g].version = sup.permit[i].version

\* and the store it commits, charging the grant when the call says so.
Consume(s, i, charge) ==
    LET g     == s.permit[i].grant
        last  == PendingPermits(s, g) = {i}
        lift  == last /\ "pending_issue" \in s.grant[g].pauses
        grant == [s.grant[g] EXCEPT !.pauses = IF lift THEN @ \ {"pending_issue"} ELSE @,
                                    !.used   = IF charge THEN @ + 1 ELSE @]
    IN  [s EXCEPT !.permit[i].status = "consumed",
                  !.grant[g] = IF lift \/ charge THEN Rotate(grant) ELSE grant]

ConsumeIssuePermitUncapped(i, charge, ok) ==
    /\ supUp
    /\ Consumable(i)
    /\ SupCommit(Consume(sup, i, charge), ok)

ConsumeIssuePermit(i, charge, ok) ==
    /\ supUp
    /\ Consumable(i)
    /\ LET gr == sup.grant[sup.permit[i].grant] IN charge => gr.used < gr.limit
    /\ SupCommit(Consume(sup, i, charge), ok)

RecordCheck(g, ok) ==
    /\ supUp
    /\ Granted(sup, g)
    /\ SetGrant(g, [sup.grant[g] EXCEPT !.seenAt = now], ok)

MarkOverdueChecks(ok) ==
    /\ supUp
    /\ \E g \in Grants : Overdue(sup, g)
    /\ SupCommit([sup EXCEPT !.grant = [g \in Grants |->
            IF Overdue(sup, g) THEN AddPause(sup.grant[g], "supervisor_lost")
            ELSE sup.grant[g]]], ok)

ResumeRecovery(g, ok) ==
    /\ supUp
    /\ sup.grant[g].status = "pending_recovery"
    /\ SetGrant(g, DropPause([sup.grant[g] EXCEPT !.status = "active"], "pending_recovery"), ok)

Tick ==
    /\ now < MaxTime
    /\ now' = now + 1
    /\ UNCHANGED <<sup, supDisk, supUp>>

SupCrash ==
    /\ supUp
    /\ supUp' = FALSE
    /\ sup' = EmptySup
    /\ UNCHANGED <<supDisk, now>>

SupRestart ==
    /\ ~supUp
    /\ SupLoadable(supDisk)
    /\ LET next == RecoverGrants(supDisk) IN
       \/ /\ supUp' = TRUE
          /\ sup' = next
          /\ supDisk' = next
       \/ /\ next # supDisk
          /\ SupCommitFails(next)
          /\ UNCHANGED supUp
    /\ UNCHANGED now

SupNext ==
    \/ \E ok \in BOOLEAN :
          \/ \E g \in Grants :
                \/ \E w \in Workspaces, limit \in Limits, ttl \in CheckTtls, exp \in 1 .. MaxTime :
                      CreateGrant(g, w, limit, ttl, exp, ok)
                \/ Redeem(g, ok)
                \/ Revoke(g, ok)
                \/ RecordOperation(g, sup.grant[g].version, ok)
                \/ \E reason \in CallerReasons : PauseGrant(g, reason, ok) \/ ClearPause(g, reason, ok)
                \/ \E exp \in 1 .. MaxTime : RenewGrant(g, exp, ok)
                \/ \E writable \in BOOLEAN : UpdateScopes(g, writable, ok)
                \/ \E i \in Issues, subject \in Subjects, exp \in 1 .. MaxTime :
                      CreateIssuePermit(i, g, subject, exp, ok)
                \/ ListIssues(g, ok)
                \/ RecordCheck(g, ok)
                \/ ResumeRecovery(g, ok)
          \/ \E w \in Workspaces, reason \in CallerReasons : PauseWorkspace(w, reason, ok)
          \/ \E i \in Issues :
                \/ \E decision \in {"approved", "rejected"} : DecideIssue(i, decision, ok)
                \/ \E charge \in BOOLEAN : ConsumeIssuePermit(i, charge, ok)
          \/ MarkOverdueChecks(ok)
    \/ Tick
    \/ SupCrash
    \/ SupRestart

SupSpec == SupInit /\ [][SupNext]_supVars

================================================================================
