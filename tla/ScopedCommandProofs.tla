-------------------------- MODULE ScopedCommandProofs --------------------------
(***************************************************************************)
(* Proofs about the scoped commands, for every number of grants, issues,   *)
(* operations and executions.  What happens to the store of grants is what *)
(* SupervisionProofs shows of each method of the manager; the executions   *)
(* and the journal are followed here.  The history of SupervisionHistory,  *)
(* which that module also has, plays no part.                              *)
(***************************************************************************)
EXTENDS ScopedCommand, SupervisionProofs, Sequences

--------------------------------------------------------------------------------
(* Types, and what lives when.                                             *)

Live(c) == call[c] # Idle

CallRecords == [pc         : ExecSteps,
                run        : RunSteps,
                op         : Ops \cup {"none"},
                payload    : Payloads \cup {NoPayload},
                mode       : Modes \cup {"none"},
                seen       : Modes \cup {"none"},
                authorized : BOOLEAN,
                outcome    : {"none", "ok", "error"},
                cut        : BOOLEAN]

Takeovers == [step : {"none", "pausing", "cancelling"},
              workspace : Workspaces \cup {NoWorkspace}, paused : SUBSET Grants]

\* A store of the journal in which every record has a payload.
Filed(s) ==
    /\ s \in J!Stores
    /\ \A o \in Ops : s.status[o] # "absent" => s.digest[o] \in Payloads

Typed ==
    /\ call \in [Calls -> CallRecords] /\ mode \in Modes
    /\ owner \in Takeovers
    /\ Filed(journal) /\ Filed(journalDisk)
    /\ journalUp \in BOOLEAN

\* A slot in use names an operation and a payload, and only a server that is up has
\* executions, takeovers and a journal in memory.
Attached ==
    /\ \A c \in Calls : Live(c) =>
          /\ call[c].pc # "idle" \/ call[c].run # "none"
          /\ call[c].op \in Ops /\ call[c].payload \in Payloads
          /\ Serving
    /\ owner.step # "none" => Serving
    /\ journalUp => supUp
    /\ ~journalUp => journal = J!EmptyStore

\* A payload names a grant that is there, and a version it has had.
Within(s, p) == Granted(s, p.grant) /\ p.version <= s.grant[p.grant].version

\* So do the executions, and the records that may yet be executed.
Placed ==
    /\ \A c \in Calls : Live(c) => Within(sup, call[c].payload)
    /\ \A o \in Ops : journal.status[o] \in {"recorded", "pending"} => Within(sup, journal.digest[o])

Facts == SupInv /\ Typed /\ Attached

\* The record of a call after SetCall.
LEMMA SetCallMeans ==
  ASSUME call \in [Calls -> CallRecords], NEW c \in Calls, NEW r \in CallRecords, SetCall(c, r)
  PROVE  /\ call'[c] = Slot(r)
         /\ \A d \in Calls \ {c} : call'[d] = call[d]
         /\ call' \in [Calls -> CallRecords]
         /\ call'[c] \in {r, Idle} /\ call'[c].pc = r.pc /\ call'[c].run = r.run
         /\ call'[c] # Idle => call'[c] = r /\ (r.pc # "idle" \/ r.run # "none")
<1>1. Idle \in CallRecords
  BY DEF Idle, CallRecords, ExecSteps, RunSteps
<1>2. Slot(r) \in {r, Idle} /\ (Slot(r) = Idle \/ Slot(r) = r)
      /\ Slot(r).pc = r.pc /\ Slot(r).run = r.run
      /\ (Slot(r) # Idle => Slot(r) = r /\ (r.pc # "idle" \/ r.run # "none"))
  BY DEF Slot, Idle
<1>3. Slot(r) \in CallRecords
  BY <1>1, <1>2
<1> QED BY <1>2, <1>3 DEF SetCall

\* What is in a call.
LEMMA CallFields ==
  ASSUME call \in [Calls -> CallRecords], NEW c \in Calls
  PROVE  /\ call[c] \in CallRecords
         /\ Idle \in CallRecords
         /\ Idle.pc = "idle" /\ Idle.run = "none" /\ ~Idle.authorized /\ ~Idle.cut
         /\ Idle.outcome = "none"
  BY DEF Idle, CallRecords, ExecSteps, RunSteps

--------------------------------------------------------------------------------
(* What a step does to the store of grants.                                *)

\* Charging a request is charging its grant.
LEMMA ChargeStores ==
  ASSUME SupInv, NEW p \in Payloads, NEW ok \in BOOLEAN, ChargeTo(p, ok)
  PROVE  CommitsGrown
<1>1. Sane(sup) /\ p.grant \in Grants
  BY DEF SupInv, Payloads
<1>2. CASE RecordOperation(p.grant, sup.grant[p.grant].version, ok)
  BY <1>1, <1>2, RecordOperationGrows
<1>3. ASSUME NEW i \in Issues, ConsumeIssuePermit(i, TRUE, ok) PROVE CommitsGrown
  BY <1>1, <1>3, ConsumeGrows
<1> QED BY <1>2, <1>3 DEF ChargeTo

\* Nothing an execution does is anything but a method of the manager, or leaves the
\* store alone.
LEMMA CallStores ==
  ASSUME Facts, NEW c \in Calls, CallStep(c)
  PROVE  CommitsGrown \/ UNCHANGED supVars
<1>1. Sane(sup)
  BY DEF Facts, SupInv
<1>2. CASE \E ok \in BOOLEAN : Charge(c, ok)
  <2>1. PICK ok \in BOOLEAN : Charge(c, ok)
    BY <1>2
  <2>2. ChargeTo(call[c].payload, ok) \/ UNCHANGED supVars
    BY <2>1 DEF Charge
  <2>3. call[c].payload \in Payloads
    BY <2>1 DEF Charge, Facts, Attached, Live, Idle
  <2> QED BY <2>2, <2>3, ChargeStores DEF Facts
<1>3. CASE \E ok \in BOOLEAN : MarkUnknown(c, ok)
  <2>1. PICK ok \in BOOLEAN : MarkUnknown(c, ok)
    BY <1>3
  <2>2. call[c].payload.grant \in Grants
    BY <2>1 DEF MarkUnknown, Facts, Attached, Live, Idle, Payloads
  <2>3. PauseGrant(call[c].payload.grant, "result_unknown", ok) \/ UNCHANGED supVars
    BY <2>1 DEF MarkUnknown
  <2> QED BY <1>1, <2>2, <2>3, PausesGrow DEF PauseReasons
<1>4. CASE UNCHANGED supVars
  BY <1>4
<1>5. \/ \E ok \in BOOLEAN : Charge(c, ok)
      \/ \E ok \in BOOLEAN : MarkUnknown(c, ok)
      \/ UNCHANGED supVars
  <2>1. \A ok \in BOOLEAN :
          /\ \A o \in Ops, p \in Payloads : Submit(c, o, p, ok) => UNCHANGED supVars
          /\ MarkPending(c, ok) => UNCHANGED supVars
          /\ Refuse(c, ok) => UNCHANGED supVars
          /\ MarkDispatching(c, ok) => UNCHANGED supVars
          /\ FailUnauthorised(c, ok) => UNCHANGED supVars
          /\ MarkDispatched(c, ok) => UNCHANGED supVars
          /\ \A confirmed \in BOOLEAN : Confirm(c, confirmed, ok) => UNCHANGED supVars
    BY DEF Submit, MarkPending, Refuse, MarkDispatching, FailUnauthorised, MarkDispatched, Confirm
  <2>2. /\ \A o \in Ops : Resubmit(c, o) => UNCHANGED supVars
        /\ Dispatch(c) => UNCHANGED supVars
        /\ StartRun(c) => UNCHANGED supVars
        /\ \A draft \in BOOLEAN : FinishProbe(c, draft) => UNCHANGED supVars
        /\ Act(c) => UNCHANGED supVars
        /\ \A outcome \in {"ok", "error"} :
              (FinishRun(c, outcome) => UNCHANGED supVars) /\ (DropDispatch(c, outcome) => UNCHANGED supVars)
        /\ RejectDispatch(c) => UNCHANGED supVars
        /\ StartUnknown(c) => UNCHANGED supVars
    BY DEF Resubmit, Dispatch, StartRun, FinishProbe, Act, FinishRun, DropDispatch, RejectDispatch,
           StartUnknown
  <2> QED BY <2>1, <2>2 DEF CallStep
<1> QED BY <1>2, <1>3, <1>4, <1>5

\* The routes of the owner and of the supervisors are methods of the manager too.
LEMMA OwnerStores ==
  ASSUME Facts, OwnerStep
  PROVE  CommitsGrown \/ UNCHANGED supVars
<1>1. Sane(sup) /\ now \in Nat /\ \A exp \in 1 .. MaxTime : exp \in Nat
  BY SupervisionAssumption DEF Facts, SupInv
<1>2. "human_takeover" \in PauseReasons
  BY DEF PauseReasons
<1>3. ASSUME NEW ok \in BOOLEAN, PauseForTakeover(ok) PROVE CommitsGrown \/ UNCHANGED supVars
  <2>1. PauseWorkspace(owner.workspace, "human_takeover", ok) \/ UNCHANGED supVars
    BY <1>3 DEF PauseForTakeover
  <2> QED BY <1>1, <1>2, <2>1, PauseWorkspaceGrows
<1>4. ASSUME NEW ok \in BOOLEAN, NEW g \in Grants,
             PauseOneForTakeover(g, ok) \/ ResumeSupervision(g, ok) \/ ResumeAfterRestart(g, ok)
      PROVE  CommitsGrown \/ UNCHANGED supVars
  <2>1. \/ PauseGrant(g, "human_takeover", ok) \/ ClearPause(g, "human_takeover", ok)
        \/ ResumeRecovery(g, ok)
    BY <1>4 DEF PauseOneForTakeover, ResumeSupervision, ResumeAfterRestart
  <2> QED BY <1>1, <1>2, <2>1, PausesGrow, ResumeGrows
<1>5. CASE ManageGrants
  <2>1. PICK ok \in BOOLEAN :
           \/ GrantRoute(ok) \/ RedeemRoute(ok) \/ RevokeRoute(ok)
           \/ ChecksRoute(ok) \/ IssuesRoute(ok) \/ DecisionRoute(ok) \/ SnapshotRoute(ok)
           \/ CheckTimer(ok)
    BY <1>5 DEF ManageGrants
  <2>2. CASE GrantRoute(ok)
    BY <1>1, <2>2, CreateGrantGrows DEF GrantRoute
  <2>3. CASE RedeemRoute(ok) \/ RevokeRoute(ok) \/ ChecksRoute(ok) \/ SnapshotRoute(ok)
    BY <1>1, <2>3, RedeemGrows, RevokeGrows, RecordCheckGrows, ListGrows
    DEF RedeemRoute, RevokeRoute, ChecksRoute, SnapshotRoute
  <2>4. CASE IssuesRoute(ok)
    BY <1>1, <2>4, CreateIssueGrows DEF IssuesRoute
  <2>5. CASE DecisionRoute(ok)
    BY <1>1, <2>5, DecideGrows DEF DecisionRoute
  <2>6. CASE CheckTimer(ok)
    BY <1>1, <2>6, MarkOverdueGrows DEF CheckTimer
  <2> QED BY <2>1, <2>2, <2>3, <2>4, <2>5, <2>6
<1>6. ASSUME \/ \E w \in Workspaces \cup {NoWorkspace} : StartTakeover(w)
             \/ AllPaused
             \/ EndTakeover
             \/ \E o \in Ops, ok \in BOOLEAN : CancelForTakeover(o, ok)
      PROVE  CommitsGrown \/ UNCHANGED supVars
  BY <1>6 DEF StartTakeover, AllPaused, EndTakeover, CancelForTakeover
<1> QED BY <1>3, <1>4, <1>5, <1>6 DEF OwnerStep

\* So every step is one of the manager, as far as its store goes.
LEMMA ScopedStores ==
  ASSUME Facts, ScopedNext
  PROVE  StoreStep
<1>1. Extract \/ TimePasses \/ Crash \/ (\E ok \in BOOLEAN : Restart(ok)) => StoreStep
  BY DEF Extract, TimePasses, Crash, Restart, StoreStep
<1> QED BY <1>1, CallStores, OwnerStores DEF ScopedNext, StoreStep

--------------------------------------------------------------------------------
(* What the methods of the journal do.                                     *)

\* The fields of a store, and the empty one.
LEMMA FiledMeans ==
  /\ \A s : Filed(s) => /\ s = [order |-> s.order, status |-> s.status, digest |-> s.digest]
                        /\ s.order \in Seq(Ops)
                        /\ s.status \in [Ops -> J!Statuses \cup {"absent"}]
                        /\ s.digest \in [Ops -> Payloads \cup {NoPayload}]
  /\ Filed(J!EmptyStore)
  /\ \A o \in Ops : J!EmptyStore.status[o] = "absent"
  BY DEF Filed, J!Stores, J!EmptyStore

\* Giving a record another status keeps a store well filed.
LEMMA RelabelFiled ==
  ASSUME NEW s, Filed(s), NEW o \in Ops, s.status[o] # "absent", NEW st \in J!Statuses
  PROVE  LET t == J!SetStatus(s, o, st) IN
         /\ Filed(t)
         /\ t.status = [s.status EXCEPT ![o] = st] /\ t.digest = s.digest
<1> DEFINE t == J!SetStatus(s, o, st)
<1>1. /\ t = [order |-> s.order, status |-> [s.status EXCEPT ![o] = st], digest |-> s.digest]
      /\ s.order \in Seq(Ops) /\ s.status \in [Ops -> J!Statuses \cup {"absent"}]
      /\ s.digest \in [Ops -> Payloads \cup {NoPayload}]
  BY FiledMeans DEF J!SetStatus
<1> HIDE DEF t
<1>2. t.status = [s.status EXCEPT ![o] = st] /\ t.digest = s.digest
  BY <1>1
<1>3. t \in J!Stores
  BY <1>1 DEF J!Stores
<1>4. \A q \in Ops : t.status[q] # "absent" => t.digest[q] \in Payloads
  BY <1>1, <1>2 DEF Filed
<1> QED BY <1>2, <1>3, <1>4 DEF Filed, t

\* `t` is `s` with a new record for `o`, and perhaps without a settled one.
Inserted(s, t, o, p) ==
    /\ t.status[o] = "recorded" /\ t.digest[o] = p
    /\ \A q \in Ops \ {o} :
          \/ t.status[q] = s.status[q] /\ t.digest[q] = s.digest[q]
          \/ t.status[q] = "absent" /\ s.status[q] \in {"confirmed", "failed", "cancelled"}

\* An insertion into a store,
LEMMA InsertFiled ==
  ASSUME NEW s, Filed(s), NEW o \in Ops, NEW p \in Payloads
  PROVE  /\ Filed(J!Insert(s, o, p))
         /\ J!Insert(s, o, p).status = [s.status EXCEPT ![o] = "recorded"]
         /\ J!Insert(s, o, p).digest = [s.digest EXCEPT ![o] = p]
<1> DEFINE t == J!Insert(s, o, p)
<1>1. /\ t = [order |-> Append(s.order, o), status |-> [s.status EXCEPT ![o] = "recorded"],
              digest |-> [s.digest EXCEPT ![o] = p]]
      /\ s.order \in Seq(Ops) /\ s.status \in [Ops -> J!Statuses \cup {"absent"}]
      /\ s.digest \in [Ops -> Payloads \cup {NoPayload}]
  BY FiledMeans DEF J!Insert
<1> HIDE DEF t
<1>2. /\ t.status = [s.status EXCEPT ![o] = "recorded"]
      /\ t.digest = [s.digest EXCEPT ![o] = p]
      /\ Append(s.order, o) \in Seq(Ops) /\ "recorded" \in J!Statuses
  BY <1>1 DEF J!Statuses, J!Undispatched
<1>3. t \in J!Stores
  BY <1>1, <1>2 DEF J!Stores
<1>4. \A q \in Ops : t.status[q] # "absent" => t.digest[q] \in Payloads
  BY <1>1, <1>2 DEF Filed
<1> QED BY <1>2, <1>3, <1>4 DEF Filed, t

\* or into one from which a record was dropped.
LEMMA DropFiled ==
  ASSUME NEW s, Filed(s), NEW i \in DOMAIN s.order
  PROVE  /\ Filed(J!Drop(s, i)) /\ s.order[i] \in Ops
         /\ J!Drop(s, i).status = [s.status EXCEPT ![s.order[i]] = "absent"]
         /\ \A q \in Ops \ {s.order[i]} : J!Drop(s, i).digest[q] = s.digest[q]
<1> DEFINE t == J!Drop(s, i)
           n == Len(s.order)
           src(k) == IF k < i THEN k ELSE k + 1
           rest == [k \in 1 .. (n - 1) |-> s.order[src(k)]]
<1>1. /\ t = [order |-> rest, status |-> [s.status EXCEPT ![s.order[i]] = "absent"],
              digest |-> [s.digest EXCEPT ![s.order[i]] = NoPayload]]
      /\ s.order \in Seq(Ops) /\ s.status \in [Ops -> J!Statuses \cup {"absent"}]
      /\ s.digest \in [Ops -> Payloads \cup {NoPayload}]
  BY FiledMeans DEF J!Drop
<1>2. n \in Nat /\ DOMAIN s.order = 1 .. n /\ i \in 1 .. n
      /\ \A k \in 1 .. n : s.order[k] \in Ops
  BY <1>1
<1>3. n - 1 \in Nat /\ \A k \in 1 .. (n - 1) : src(k) \in 1 .. n
  BY <1>2
<1> HIDE DEF n, src
<1>4. rest \in [1 .. (n - 1) -> Ops]
  BY <1>2, <1>3
<1>5. rest \in Seq(Ops)
  BY <1>3, <1>4
<1> HIDE DEF t, rest
<1>6. /\ t.status = [s.status EXCEPT ![s.order[i]] = "absent"]
      /\ t.digest = [s.digest EXCEPT ![s.order[i]] = NoPayload]
      /\ s.order[i] \in Ops
  BY <1>1, <1>2
<1>7. t \in J!Stores
  BY <1>1, <1>5, <1>6 DEF J!Stores
<1>8. \A q \in Ops : t.status[q] # "absent" => t.digest[q] \in Payloads
  BY <1>1, <1>6 DEF Filed
<1> QED BY <1>1, <1>6, <1>7, <1>8 DEF Filed, t

\* What a start makes of a file: nothing in it may still be executed.
LEMMA RecoverFiled ==
  ASSUME NEW s, Filed(s)
  PROVE  /\ Filed(J!Recover(s)) /\ J!Recover(s).digest = s.digest
         /\ \A o \in Ops : J!Recover(s).status[o] =
               IF s.status[o] = "recorded" THEN "cancelled"
               ELSE IF s.status[o] \in {"pending", "dispatching", "dispatched"} THEN "unknown"
               ELSE s.status[o]
<1> DEFINE t == J!Recover(s)
           marks == [o \in Ops |->
               IF s.status[o] \in {"recorded"} THEN "cancelled"
               ELSE IF s.status[o] \in {"pending", "dispatching", "dispatched"} THEN "unknown"
               ELSE s.status[o]]
<1>1. /\ s = [order |-> s.order, status |-> s.status, digest |-> s.digest]
      /\ s.order \in Seq(Ops) /\ s.status \in [Ops -> J!Statuses \cup {"absent"}]
      /\ s.digest \in [Ops -> Payloads \cup {NoPayload}]
  BY FiledMeans
<1>2. t = [s EXCEPT !.status = marks]
  <2>1. \A o \in Ops : s.status[o] \in {"recorded"} <=> s.status[o] = "recorded"
    OBVIOUS
  <2>2. marks = [o \in Ops |->
               IF s.status[o] = "recorded" THEN "cancelled"
               ELSE IF s.status[o] \in {"pending", "dispatching", "dispatched"} THEN "unknown"
               ELSE s.status[o]]
    BY <2>1
  <2> HIDE DEF marks
  <2> QED BY <2>2 DEF J!Recover
<1>3. \A o \in Ops : marks[o] =
         IF s.status[o] = "recorded" THEN "cancelled"
         ELSE IF s.status[o] \in {"pending", "dispatching", "dispatched"} THEN "unknown"
         ELSE s.status[o]
  OBVIOUS
<1>4. marks \in [Ops -> J!Statuses \cup {"absent"}]
  BY <1>1 DEF J!Statuses, J!Undispatched, J!Unresolved, J!Terminal
<1> HIDE DEF t, marks
<1>5. /\ t = [order |-> s.order, status |-> marks, digest |-> s.digest]
      /\ t.status = marks /\ t.digest = s.digest
  BY <1>1, <1>2
<1>6. t \in J!Stores
  BY <1>1, <1>4, <1>5 DEF J!Stores
<1>7. \A q \in Ops : t.status[q] # "absent" => t.digest[q] \in Payloads
  BY <1>3, <1>5 DEF Filed
<1> QED BY <1>3, <1>5, <1>6, <1>7 DEF Filed, t

\* What a write leaves in memory and in the file.
LEMMA WriteMeans ==
  ASSUME NEW next, NEW ok \in BOOLEAN, J!Write(next, ok)
  PROVE  IF ok THEN journal' = next /\ journalDisk' = next
         ELSE journal' = journal /\ journalDisk' \in {journalDisk, next, J!EmptyStore}
  BY DEF J!Write, J!Commits, J!CommitFails, J!FileAfterFailure

\* A method that gives the record of `o` the status `st`,
Relabels(o, st, ok) ==
    /\ journalUp /\ UNCHANGED journalUp
    /\ Recorded(o) /\ st # "recorded"
    /\ st \in {"pending", "cancelled"} => journal.status[o] \in {"recorded", "pending"}
    /\ st \in {"dispatched", "unknown", "confirmed"} =>
          journal.status[o] \in {"dispatching", "dispatched", "unknown"}
    /\ st \in {"dispatching"} => journal.status[o] \in {"recorded", "pending", "dispatching"}
    /\ J!Write(J!SetStatus(journal, o, st), ok)

\* one that makes a record of `p`,
Inserts(o, p, ok) ==
    /\ journalUp /\ UNCHANGED journalUp
    /\ ~Recorded(o) /\ Within(sup, p)
    /\ \E next : Filed(next) /\ Inserted(journal, next, o, p) /\ J!Write(next, ok)

\* the death of the process, and a start.
Stops  == journalUp' = FALSE /\ journal' = J!EmptyStore /\ UNCHANGED journalDisk
Starts ==
    /\ ~journalUp
    /\ \/ journalUp' = TRUE /\ journal' = J!Recover(journalDisk) /\ journalDisk' = journal'
       \/ /\ UNCHANGED <<journal, journalUp>>
          /\ journalDisk' \in {journalDisk, J!Recover(journalDisk), J!EmptyStore}

\* The journal's methods on one record,
LEMMA MethodsRelabel ==
  ASSUME NEW o \in Ops, NEW ok \in BOOLEAN
  PROVE  /\ J!MarkPending(o, ok) => Relabels(o, "pending", ok)
         /\ J!MarkDispatching(o, ok) => Relabels(o, "dispatching", ok)
         /\ J!MarkDispatched(o, ok) => Relabels(o, "dispatched", ok)
         /\ \A outcome \in {"failed", "confirmed", "unknown"} :
               J!Settle(o, outcome, ok) => Relabels(o, outcome, ok)
         /\ J!CancelPending(o, ok) => Relabels(o, "cancelled", ok)
  BY DEF J!MarkPending, J!MarkDispatching, J!MarkDispatched, J!Settle, J!CancelPending, J!Commit,
         J!Undispatched, J!Unresolved, Relabels, Recorded

\* those that make one,
LEMMA CreateInserts ==
  ASSUME Filed(journal), NEW o \in Ops, NEW p \in Payloads, NEW ok \in BOOLEAN, Within(sup, p),
         J!CreateWithRoom(o, p, ok) \/ J!CreateDroppingOldest(o, p, ok)
  PROVE  Inserts(o, p, ok)
<1>1. journalUp /\ journalUp' = journalUp /\ journal.status[o] = "absent"
  BY DEF J!CreateWithRoom, J!CreateDroppingOldest, J!Present, J!Commit
<1>2. CASE J!CreateWithRoom(o, p, ok)
  <2> DEFINE next == J!Insert(journal, o, p)
  <2>1. J!Write(next, ok)
    BY <1>2 DEF J!CreateWithRoom, J!Commit
  <2>2. /\ Filed(next) /\ next.status = [journal.status EXCEPT ![o] = "recorded"]
        /\ next.digest = [journal.digest EXCEPT ![o] = p]
    BY InsertFiled
  <2> HIDE DEF next
  <2>3. Inserted(journal, next, o, p)
    BY <2>2, FiledMeans DEF Inserted
  <2> QED BY <1>1, <2>1, <2>2, <2>3 DEF Inserts, Recorded
<1>3. CASE J!CreateDroppingOldest(o, p, ok)
  <2>1. PICK i \in J!OldestDroppable(journal) : J!Write(J!Insert(J!Drop(journal, i), o, p), ok)
    BY <1>3 DEF J!CreateDroppingOldest
  <2> DEFINE less == J!Drop(journal, i)
             next == J!Insert(less, o, p)
  <2>2. i \in DOMAIN journal.order
        /\ journal.status[journal.order[i]] \in {"confirmed", "failed", "cancelled"}
    BY <2>1 DEF J!OldestDroppable, J!Droppable, J!Terminal
  <2>3. /\ Filed(less) /\ journal.order[i] \in Ops
        /\ less.status = [journal.status EXCEPT ![journal.order[i]] = "absent"]
        /\ \A q \in Ops \ {journal.order[i]} : less.digest[q] = journal.digest[q]
    BY <2>2, DropFiled
  <2> HIDE DEF less
  <2>4. /\ Filed(next) /\ next.status = [less.status EXCEPT ![o] = "recorded"]
        /\ next.digest = [less.digest EXCEPT ![o] = p]
    BY <2>3, InsertFiled
  <2> HIDE DEF next
  <2> DEFINE dropped == journal.order[i]
  <2>7. /\ journal.status \in [Ops -> J!Statuses \cup {"absent"}]
        /\ less.status \in [Ops -> J!Statuses \cup {"absent"}]
        /\ less.digest \in [Ops -> Payloads \cup {NoPayload}]
    BY <2>3, FiledMeans
  <2>8. /\ dropped \in Ops /\ journal.status[dropped] \in {"confirmed", "failed", "cancelled"}
        /\ \A q \in Ops : less.status[q] = IF q = dropped THEN "absent" ELSE journal.status[q]
        /\ \A q \in Ops \ {dropped} : less.digest[q] = journal.digest[q]
    BY <2>2, <2>3, <2>7
  <2> HIDE DEF dropped
  <2>9. /\ \A q \in Ops : next.status[q] = IF q = o THEN "recorded" ELSE less.status[q]
        /\ \A q \in Ops : next.digest[q] = IF q = o THEN p ELSE less.digest[q]
    BY <2>4, <2>7
  <2>5. Inserted(journal, next, o, p)
    BY <2>8, <2>9 DEF Inserted
  <2>6. J!Write(next, ok)
    BY <2>1 DEF next, less
  <2> QED BY <1>1, <2>4, <2>5, <2>6 DEF Inserts, Recorded
<1> QED BY <1>2, <1>3

\* and what the life of the process does to it.
LEMMA ProcessJournal ==
  /\ J!JournalCrash => Stops
  /\ J!JournalRestart => Starts
  BY DEF J!JournalCrash, J!JournalRestart, J!CommitFails, J!FileAfterFailure, Stops, Starts

--------------------------------------------------------------------------------
(* What a step does to an execution and its run.                           *)

\* The run has passed assertBaseScope and is not yet authorised.
Checked == {"probing", "probed", "marked"}

\* The operation is in no execution, and is recorded with the payload by now.
Fresh(o, p) ==
    /\ \A d \in Calls : call[d].pc # "idle" => call[d].op # o
    /\ journal.status[o] \in {"absent", "recorded", "pending"}
    /\ journal'.status[o] # "absent" /\ journal'.digest[o] = p

Born(c) ==
    LET q == call'[c] IN
    /\ call[c] = Idle /\ q # Idle
    /\ q.pc \in {"created", "pending"} /\ q.run = "none"
    /\ ~q.authorized /\ ~q.cut
    /\ q.op \in Ops /\ q.payload \in Payloads
    /\ Ready /\ Within(sup, q.payload) /\ UNCHANGED supVars
    /\ Fresh(q.op, q.payload)

Goes(c) ==
    LET r == call[c]
        q == call'[c] IN
    /\ r # Idle /\ q # Idle
    /\ q.pc # "idle" \/ q.run # "none"
    /\ q.op = r.op /\ q.payload = r.payload
    /\ q.run \in Checked =>
          r.run \in Checked \/ (BaseScope(r.payload) /\ LaneFree(c) /\ UNCHANGED supVars)
    /\ q.cut => r.cut \/ "human_takeover" \in sup'.grant[r.payload.grant].pauses
    /\ r.authorized => q.authorized
    /\ q.authorized /\ ~r.authorized => r.run = "marked" /\ Chargeable(r.payload)
    /\ q.run \in {"acting", "acted"} => q.authorized \/ r.run \in {"acting", "acted"}
    /\ q.run = "acting" => r.run \in {"acting", "marked"}
    /\ q.run = "acted" => r.run \in {"acting", "acted"}
    /\ q.run # "none" => r.run # "none" \/ r.pc = "pending"
    /\ q.run \in {"probed", "marked"} =>
          \/ r.run \in {"probed", "marked"}
          \/ ~HasUnknownForGrant(r.payload.grant, r.op) /\ UNCHANGED journalVars

Moves(c) == call'[c] = call[c] \/ call'[c] = Idle \/ Born(c) \/ Goes(c)

AllMove == call' \in [Calls -> CallRecords] /\ \A c \in Calls : Moves(c)

\* A call that goes on with the record `r`.
Continues(c, r) ==
    /\ r \in CallRecords
    /\ r.op = call[c].op /\ r.payload = call[c].payload /\ r.cut = call[c].cut
    /\ call[c].authorized => r.authorized
    /\ r.run \in Checked =>
          call[c].run \in Checked \/ (BaseScope(r.payload) /\ LaneFree(c) /\ UNCHANGED supVars)
    /\ r.authorized /\ ~call[c].authorized => call[c].run = "marked" /\ Chargeable(r.payload)
    /\ r.run \in {"acting", "acted"} => r.authorized \/ call[c].run \in {"acting", "acted"}
    /\ r.run = "acting" => call[c].run \in {"acting", "marked"}
    /\ r.run = "acted" => call[c].run \in {"acting", "acted"}
    /\ r.run # "none" => call[c].run # "none" \/ call[c].pc = "pending"
    /\ r.run \in {"probed", "marked"} =>
          \/ call[c].run \in {"probed", "marked"}
          \/ ~HasUnknownForGrant(r.payload.grant, r.op) /\ UNCHANGED journalVars

\* Such a call moves, and the others stay.
LEMMA ContinuesMoves ==
  ASSUME Facts, NEW c \in Calls, Live(c), NEW r, Continues(c, r), SetCall(c, r)
  PROVE  AllMove
<1>1. /\ call' \in [Calls -> CallRecords]
      /\ \A d \in Calls \ {c} : call'[d] = call[d]
      /\ call'[c] # Idle => call'[c] = r /\ (r.pc # "idle" \/ r.run # "none")
  BY SetCallMeans DEF Facts, Typed, Continues
<1>2. call'[c] # Idle => Goes(c)
  BY <1>1 DEF Goes, Continues, Live
<1> QED BY <1>1, <1>2 DEF AllMove, Moves

\* A run that ends leaves a call that goes on, or none.
LEMMA RunEndsMoves ==
  ASSUME Facts, NEW c \in Calls, Live(c), NEW outcome \in {"ok", "error"}, RunEnds(c, outcome)
  PROVE  AllMove
<1> DEFINE final == IF call[c].pc = "waiting" /\ call[c].outcome = "none" THEN outcome
                    ELSE call[c].outcome
           r == [call[c] EXCEPT !.run = "none", !.outcome = final]
<1>1. call[c] \in CallRecords
  BY CallFields DEF Facts, Typed
<1>2. final \in {"none", "ok", "error"}
  BY <1>1 DEF CallRecords
<1>3. SetCall(c, r)
  BY DEF RunEnds
<1> HIDE DEF final
<1>4. Continues(c, r)
  BY <1>1, <1>2 DEF Continues, CallRecords, RunSteps, Checked
<1> HIDE DEF r
<1> QED BY <1>3, <1>4, ContinuesMoves

\* A new execution of a request that was admitted.
LEMMA BornMoves ==
  ASSUME Facts, NEW c \in Calls, call[c] = Idle, NEW o \in Ops, NEW p \in Payloads,
         NEW pc \in {"created", "pending"}, SetCall(c, NewCall(o, p, pc)),
         Ready, Within(sup, p), UNCHANGED supVars, Fresh(o, p)
  PROVE  AllMove
<1> DEFINE r == NewCall(o, p, pc)
<1>1. mode \in Modes \cup {"none"} /\ Idle \in CallRecords
  BY CallFields DEF Facts, Typed
<1>2. r \in CallRecords /\ r.pc = pc /\ r.run = "none" /\ ~r.authorized /\ ~r.cut
      /\ r.op = o /\ r.payload = p
  BY <1>1 DEF NewCall, CallRecords, ExecSteps, Idle
<1> HIDE DEF r
<1>3. /\ call' \in [Calls -> CallRecords]
      /\ \A d \in Calls \ {c} : call'[d] = call[d]
      /\ call'[c].pc = pc
      /\ call'[c] # Idle => call'[c] = r
  BY <1>2, SetCallMeans DEF Facts, Typed, r
<1>4. call'[c] = r
  BY <1>3, CallFields DEF Facts, Typed
<1>5. Born(c)
  BY <1>2, <1>4, CallFields DEF Born, Facts, Typed
<1> QED BY <1>3, <1>5 DEF AllMove, Moves

\* An execution that moves on while its run stays where it is.
LEMMA PcMoves ==
  ASSUME Facts, NEW c \in Calls, Live(c), NEW pc \in ExecSteps,
         SetCall(c, [call[c] EXCEPT !.pc = pc])
  PROVE  AllMove
<1> DEFINE r == [call[c] EXCEPT !.pc = pc]
<1>1. call[c] \in CallRecords
  BY CallFields DEF Facts, Typed
<1>2. Continues(c, r)
  BY <1>1 DEF Continues, CallRecords, Checked
<1> HIDE DEF r
<1> QED BY <1>2, ContinuesMoves DEF r

\* The steps of an execution.
LEMMA ExecutionMoves ==
  ASSUME Facts, Placed, NEW c \in Calls, NEW ok \in BOOLEAN,
         \/ \E o \in Ops, p \in Payloads :
               p.version <= sup.grant[p.grant].version /\ Submit(c, o, p, ok)
         \/ \E o \in Ops : Resubmit(c, o)
         \/ MarkPending(c, ok) \/ Refuse(c, ok) \/ FailUnauthorised(c, ok)
         \/ MarkDispatched(c, ok)
         \/ \E confirmed \in BOOLEAN : Confirm(c, confirmed, ok)
         \/ MarkUnknown(c, ok) \/ StartUnknown(c)
  PROVE  AllMove
<1>1. call \in [Calls -> CallRecords] /\ Idle \in CallRecords /\ Idle.pc = "idle"
  BY CallFields DEF Facts, Typed
<1>2. \A p \in Payloads : Authenticated(p.grant) => Granted(sup, p.grant)
  BY DEF Authenticated, Valid, Granted
<1>3. ASSUME NEW o \in Ops, NEW p \in Payloads, p.version <= sup.grant[p.grant].version,
             Submit(c, o, p, ok)
      PROVE  AllMove
  <2>1. Ready /\ Within(sup, p) /\ UNCHANGED supVars /\ call[c] = Idle
    BY <1>2, <1>3 DEF Submit, Admitted, Within
  <2>2. CASE ok
    <3>1. SetCall(c, NewCall(o, p, "created"))
      BY <1>3, <2>2 DEF Submit
    <3>2. PICK next : Inserted(journal, next, o, p) /\ J!Write(next, TRUE)
      BY <1>3, <2>1, <2>2, CreateInserts DEF Submit, Inserts, Facts, Typed
    <3>3. Fresh(o, p)
      BY <1>3, <3>2, WriteMeans DEF Fresh, Submit, Admitted, Inserted, Recorded
    <3> QED BY <2>1, <3>1, <3>3, BornMoves
  <2>3. CASE ~ok
    <3>1. SetCall(c, Idle)
      BY <1>3, <2>3 DEF Submit
    <3>2. call'[c] = Idle /\ call' \in [Calls -> CallRecords] /\ \A d \in Calls \ {c} : call'[d] = call[d]
      BY <1>1, <3>1, SetCallMeans
    <3> QED BY <3>2 DEF AllMove, Moves
  <2> QED BY <2>2, <2>3
<1>4. ASSUME NEW o \in Ops, Resubmit(c, o) PROVE AllMove
  <2>1. PICK pc \in {"created", "pending"} :
           journal.status[o] \in {"recorded", "pending"} /\ SetCall(c, NewCall(o, journal.digest[o], pc))
    BY <1>4 DEF Resubmit
  <2>2. Ready /\ UNCHANGED supVars /\ call[c] = Idle /\ journal.digest[o] \in Payloads
        /\ Within(sup, journal.digest[o])
    BY <1>4, <2>1 DEF Resubmit, Admitted, Recorded, Placed, Facts, Typed, Filed
  <2>3. Fresh(o, journal.digest[o])
    BY <1>4 DEF Resubmit, Admitted, Recorded, Fresh, journalVars
  <2> QED BY <2>1, <2>2, <2>3, BornMoves
<1>5. ASSUME \/ MarkPending(c, ok) \/ Refuse(c, ok) \/ FailUnauthorised(c, ok)
             \/ MarkDispatched(c, ok)
             \/ \E confirmed \in BOOLEAN : Confirm(c, confirmed, ok)
             \/ MarkUnknown(c, ok) \/ StartUnknown(c)
      PROVE  AllMove
  <2>1. call[c].pc # "idle"
    BY <1>5 DEF MarkPending, Refuse, FailUnauthorised, MarkDispatched, Confirm, MarkUnknown,
                StartUnknown, Answered
  <2>2. Live(c)
    BY <1>1, <2>1 DEF Live
  <2>3. \E pc \in ExecSteps : SetCall(c, [call[c] EXCEPT !.pc = pc])
    <3>1. CASE MarkPending(c, ok)
      BY <3>1 DEF MarkPending, ExecSteps
    <3>2. CASE Refuse(c, ok)
      BY <3>2 DEF Refuse, ExecSteps
    <3>3. CASE FailUnauthorised(c, ok)
      BY <3>3 DEF FailUnauthorised, ExecSteps
    <3>4. CASE MarkDispatched(c, ok)
      BY <3>4 DEF MarkDispatched, ExecSteps
    <3>5. CASE \E confirmed \in BOOLEAN : Confirm(c, confirmed, ok)
      BY <3>5 DEF Confirm, ExecSteps
    <3>6. CASE MarkUnknown(c, ok)
      BY <3>6 DEF MarkUnknown, ExecSteps
    <3>7. CASE StartUnknown(c)
      BY <3>7 DEF StartUnknown, ExecSteps
    <3> QED BY <1>5, <3>1, <3>2, <3>3, <3>4, <3>5, <3>6, <3>7
  <2> QED BY <2>2, <2>3, PcMoves
<1> QED BY <1>3, <1>4, <1>5

\* The steps of a run.
LEMMA RunMoves ==
  ASSUME Facts, NEW c \in Calls,
         \/ Dispatch(c) \/ StartRun(c)
         \/ \E draft \in BOOLEAN : FinishProbe(c, draft)
         \/ \E ok \in BOOLEAN : MarkDispatching(c, ok) \/ Charge(c, ok)
         \/ Act(c)
         \/ \E outcome \in {"ok", "error"} : FinishRun(c, outcome) \/ DropDispatch(c, outcome)
         \/ RejectDispatch(c)
  PROVE  AllMove
<1>1. call[c] \in CallRecords /\ Idle.pc = "idle" /\ Idle.run = "none"
  BY CallFields DEF Facts, Typed
<1>2. Live(c)
  BY <1>1 DEF Dispatch, StartRun, FinishProbe, MarkDispatching, Charge, Act, FinishRun, DropDispatch,
              RejectDispatch, Live
<1>3. CASE \E outcome \in {"ok", "error"} : RunEnds(c, outcome)
  BY <1>2, <1>3, RunEndsMoves
<1>4. CASE \E r : Continues(c, r) /\ SetCall(c, r)
  BY <1>2, <1>4, ContinuesMoves
<1>5. CASE Dispatch(c)
  <2>1. SetCall(c, [call[c] EXCEPT !.pc = "waiting", !.run = "queued"])
    BY <1>5 DEF Dispatch
  <2>2. Continues(c, [call[c] EXCEPT !.pc = "waiting", !.run = "queued"])
    BY <1>1, <1>5 DEF Dispatch, Continues, CallRecords, ExecSteps, RunSteps, Checked
  <2> QED BY <1>4, <2>1, <2>2
<1>6. CASE StartRun(c)
  <2>1. CASE BaseScope(call[c].payload)
    <3>1. /\ SetCall(c, [call[c] EXCEPT !.run = "probing", !.seen = mode]) /\ UNCHANGED supVars
          /\ LaneFree(c) /\ call[c].run = "queued"
      BY <1>6, <2>1 DEF StartRun
    <3>2. mode \in Modes
      BY DEF Facts, Typed
    <3>3. Continues(c, [call[c] EXCEPT !.run = "probing", !.seen = mode])
      BY <1>1, <2>1, <3>1, <3>2 DEF Continues, CallRecords, RunSteps
    <3> QED BY <1>4, <3>1, <3>3
  <2>2. CASE ~BaseScope(call[c].payload)
    BY <1>3, <1>6, <2>2 DEF StartRun
  <2> QED BY <2>1, <2>2
<1>7. ASSUME NEW draft \in BOOLEAN, FinishProbe(c, draft) PROVE AllMove
  <2>1. CASE RunEnds(c, "error")
    BY <1>3, <2>1
  <2>2. CASE ~RunEnds(c, "error")
    <3>1. /\ SetCall(c, [call[c] EXCEPT !.run = "probed"]) /\ call[c].run = "probing"
          /\ ~HasUnknownForGrant(call[c].payload.grant, call[c].op) /\ UNCHANGED journalVars
      BY <1>7, <2>2 DEF FinishProbe
    <3>2. Continues(c, [call[c] EXCEPT !.run = "probed"])
      BY <1>1, <3>1 DEF Continues, CallRecords, RunSteps, Checked
    <3> QED BY <1>4, <3>1, <3>2
  <2> QED BY <2>1, <2>2
<1>8. ASSUME NEW ok \in BOOLEAN, MarkDispatching(c, ok) PROVE AllMove
  <2>1. SetCall(c, [call[c] EXCEPT !.run = "marked"]) \/ RunEnds(c, "error")
    BY <1>8 DEF MarkDispatching
  <2>2. Continues(c, [call[c] EXCEPT !.run = "marked"])
    BY <1>1, <1>8 DEF MarkDispatching, Continues, CallRecords, RunSteps, Checked
  <2> QED BY <1>3, <1>4, <2>1, <2>2
<1>9. ASSUME NEW ok \in BOOLEAN, Charge(c, ok) PROVE AllMove
  <2>1. \/ /\ SetCall(c, [call[c] EXCEPT !.run = "acting", !.authorized = TRUE])
           /\ Chargeable(call[c].payload)
        \/ RunEnds(c, "error")
    BY <1>9 DEF Charge
  <2>2. CASE Chargeable(call[c].payload)
    <3>1. Continues(c, [call[c] EXCEPT !.run = "acting", !.authorized = TRUE])
      BY <1>1, <1>9, <2>2 DEF Charge, Continues, CallRecords, RunSteps, Checked
    <3> QED BY <1>3, <1>4, <2>1, <3>1
  <2> QED BY <1>3, <2>1, <2>2
<1>10. CASE Act(c)
  <2>1. SetCall(c, [call[c] EXCEPT !.run = "acted"])
    BY <1>10 DEF Act
  <2>2. Continues(c, [call[c] EXCEPT !.run = "acted"])
    BY <1>1, <1>10 DEF Act, Continues, CallRecords, RunSteps, Checked
  <2> QED BY <1>4, <2>1, <2>2
<1>11. CASE \E outcome \in {"ok", "error"} : FinishRun(c, outcome) \/ DropDispatch(c, outcome)
  BY <1>3, <1>11 DEF FinishRun, DropDispatch
<1>12. CASE RejectDispatch(c)
  <2>1. SetCall(c, [call[c] EXCEPT !.outcome = "error"])
    BY <1>12 DEF RejectDispatch
  <2>2. Continues(c, [call[c] EXCEPT !.outcome = "error"])
    BY <1>1 DEF Continues, CallRecords, Checked
  <2> QED BY <1>4, <2>1, <2>2
<1> QED BY <1>5, <1>6, <1>7, <1>8, <1>9, <1>10, <1>11, <1>12

\* Cutting off the requests of grants that are paused for the owner by now.
LEMMA CutMoves ==
  ASSUME Facts, NEW paused \in SUBSET Grants, CutOff(paused),
         \A g \in paused : "human_takeover" \in sup'.grant[g].pauses
  PROVE  AllMove
<1>1. call \in [Calls -> CallRecords]
  BY DEF Facts, Typed
<1>2. ASSUME NEW c \in Calls
      PROVE  call'[c] \in CallRecords /\ Moves(c)
  <2> DEFINE hit == call[c] # Idle /\ call[c].payload.grant \in paused
             cut == ~call[c].authorized \/ call[c].cut
             r == [call[c] EXCEPT !.cut = cut]
  <2>1. call[c] \in CallRecords /\ cut \in BOOLEAN
    BY <1>1 DEF CallRecords
  <2>2. call'[c] = IF hit THEN r ELSE call[c]
    BY DEF CutOff
  <2> HIDE DEF cut
  <2>3. /\ r \in CallRecords /\ r.pc = call[c].pc /\ r.run = call[c].run /\ r.op = call[c].op
        /\ r.payload = call[c].payload /\ r.authorized = call[c].authorized
    BY <2>1 DEF CallRecords
  <2> HIDE DEF r
  <2>4. CASE hit
    <3>1. call'[c].pc # "idle" \/ call'[c].run # "none"
      BY <2>2, <2>3, <2>4 DEF Facts, Attached, Live
    <3>2. Idle.pc = "idle" /\ Idle.run = "none"
      BY DEF Idle
    <3>3. Goes(c)
      BY <2>2, <2>3, <2>4, <3>1, <3>2 DEF Goes
    <3> QED BY <2>2, <2>3, <2>4, <3>3 DEF Moves
  <2>5. CASE ~hit
    BY <2>1, <2>2, <2>5 DEF Moves
  <2> QED BY <2>4, <2>5
<1>3. call' \in [Calls -> CallRecords]
  <2>1. call' = [c \in Calls |-> call'[c]]
    BY DEF CutOff
  <2> QED BY <1>2, <2>1
<1> QED BY <1>2, <1>3 DEF AllMove

\* A pause that returned is in memory.
LEMMA PausedIsPaused ==
  ASSUME Facts
  PROVE  /\ \A w : PauseWorkspace(w, "human_takeover", TRUE) =>
               \A g \in ActiveIn(w) : "human_takeover" \in sup'.grant[g].pauses
         /\ \A g \in Grants : PauseGrant(g, "human_takeover", TRUE) =>
               "human_takeover" \in sup'.grant[g].pauses
<1>1. sup \in SupStores /\ "human_takeover" \in PauseReasons
      /\ \A g \in Grants : sup.grant[g] \in GrantRecords
  BY GrantTyped DEF Facts, SupInv, Sane, PauseReasons
<1>2. \A g \in Grants : "human_takeover" \in AddPause(sup.grant[g], "human_takeover").pauses
  BY <1>1, AddPauseAdvances
<1>3. ASSUME NEW w, PauseWorkspace(w, "human_takeover", TRUE), NEW g \in ActiveIn(w)
      PROVE  "human_takeover" \in sup'.grant[g].pauses
  <2>1. sup'.grant[g] = AddPause(sup.grant[g], "human_takeover")
    BY <1>1, <1>3 DEF PauseWorkspace, SupCommit, SupCommits, ActiveIn, SupStores
  <2> QED BY <1>2, <1>3, <2>1 DEF ActiveIn
<1>4. ASSUME NEW g \in Grants, PauseGrant(g, "human_takeover", TRUE)
      PROVE  "human_takeover" \in sup'.grant[g].pauses
  <2>1. sup'.grant[g] = AddPause(sup.grant[g], "human_takeover")
    BY <1>1, <1>4 DEF PauseGrant, SetGrant, SupCommit, SupCommits, SupStores
  <2> QED BY <1>2, <2>1
<1> QED BY <1>3, <1>4

\* Every step moves the executions so.
LEMMA ScopedMoves ==
  ASSUME Facts, Placed, ScopedNext
  PROVE  AllMove
<1>1. call \in [Calls -> CallRecords] /\ Idle \in CallRecords
  BY DEF Facts, Typed, Idle, CallRecords, ExecSteps, RunSteps
<1>2. CASE UNCHANGED call
  BY <1>1, <1>2 DEF AllMove, Moves
<1>3. ASSUME NEW c \in Calls, CallStep(c) PROVE AllMove
  <2>1. \A ok \in BOOLEAN, confirmed \in BOOLEAN : Confirm(c, confirmed, ok) => AllMove
    BY ExecutionMoves
  <2>2. \A outcome \in {"ok", "error"} : FinishRun(c, outcome) \/ DropDispatch(c, outcome) => AllMove
    BY RunMoves
  <2>3. \A draft \in BOOLEAN : FinishProbe(c, draft) => AllMove
    BY RunMoves
  <2>4. \A ok \in BOOLEAN : MarkDispatching(c, ok) \/ Charge(c, ok) => AllMove
    BY RunMoves
  <2>5. Dispatch(c) \/ StartRun(c) \/ Act(c) \/ RejectDispatch(c) => AllMove
    BY RunMoves
  <2>6. ASSUME NEW ok \in BOOLEAN,
               \/ MarkPending(c, ok) \/ Refuse(c, ok) \/ FailUnauthorised(c, ok)
               \/ MarkDispatched(c, ok) \/ MarkUnknown(c, ok)
        PROVE  AllMove
    BY <2>6, ExecutionMoves
  <2>7. \A o \in Ops : Resubmit(c, o) => AllMove
    BY ExecutionMoves
  <2>8. StartUnknown(c) => AllMove
    BY ExecutionMoves
  <2>9. ASSUME NEW ok \in BOOLEAN, NEW o \in Ops, NEW p \in Payloads,
               p.version <= sup.grant[p.grant].version, Submit(c, o, p, ok)
        PROVE  AllMove
    BY <2>9, ExecutionMoves
  <2> QED BY <1>3, <2>1, <2>2, <2>3, <2>4, <2>5, <2>6, <2>7, <2>8, <2>9 DEF CallStep
<1>4. ASSUME NEW ok \in BOOLEAN, PauseForTakeover(ok) PROVE AllMove
  <2>1. \/ UNCHANGED call
        \/ /\ PauseWorkspace(owner.workspace, "human_takeover", TRUE)
           /\ CutOff(ActiveIn(owner.workspace))
    BY <1>4 DEF PauseForTakeover
  <2>2. ActiveIn(owner.workspace) \in SUBSET Grants
    BY DEF ActiveIn
  <2> QED BY <1>2, <2>1, <2>2, PausedIsPaused, CutMoves
<1>5. ASSUME NEW ok \in BOOLEAN, NEW g \in Grants, PauseOneForTakeover(g, ok) PROVE AllMove
  <2>1. UNCHANGED call \/ (PauseGrant(g, "human_takeover", TRUE) /\ CutOff({g}))
    BY <1>5 DEF PauseOneForTakeover
  <2>2. {g} \in SUBSET Grants
    OBVIOUS
  <2> QED BY <1>2, <2>1, <2>2, PausedIsPaused, CutMoves
<1>6. CASE Crash
  <2>1. call' = [c \in Calls |-> Idle]
    BY <1>6 DEF Crash
  <2> QED BY <1>1, <2>1 DEF AllMove, Moves
<1>7. OwnerStep => \/ UNCHANGED call
                   \/ \E ok \in BOOLEAN : PauseForTakeover(ok)
                   \/ \E ok \in BOOLEAN, g \in Grants : PauseOneForTakeover(g, ok)
  <2>1. /\ \A w \in Workspaces \cup {NoWorkspace} : StartTakeover(w) => UNCHANGED call
        /\ AllPaused \/ EndTakeover \/ ManageGrants => UNCHANGED call
        /\ \A ok \in BOOLEAN, o \in Ops : CancelForTakeover(o, ok) => UNCHANGED call
        /\ \A ok \in BOOLEAN, g \in Grants :
              ResumeSupervision(g, ok) \/ ResumeAfterRestart(g, ok) => UNCHANGED call
    BY DEF StartTakeover, AllPaused, EndTakeover, CancelForTakeover, ResumeSupervision,
           ResumeAfterRestart, ManageGrants
  <2> QED BY <2>1 DEF OwnerStep
<1>8. Extract \/ TimePasses \/ (\E ok \in BOOLEAN : Restart(ok)) => UNCHANGED call
  BY DEF Extract, TimePasses, Restart
<1> QED BY <1>2, <1>3, <1>4, <1>5, <1>6, <1>7, <1>8 DEF ScopedNext

--------------------------------------------------------------------------------
(* What a step does to the journal.                                        *)

\* While the server runs, a step is one or no method of the journal.
\* A record is marked or failed by an execution that is where the code does so.
Justified(o, st) ==
    /\ st = "pending" => \E c \in Calls : call[c].op = o /\ call[c].pc = "created"
    /\ st = "dispatching" => \E c \in Calls : call[c].op = o /\ call[c].run = "probed"
    /\ st = "failed" => \E c \in Calls :
          Live(c) /\ call[c].op = o /\ (call[c].pc = "pending" \/ ~call[c].authorized)

Rewrites ==
    \/ UNCHANGED journalVars
    \/ \E o \in Ops, st \in J!Statuses, ok \in BOOLEAN : Justified(o, st) /\ Relabels(o, st, ok)

SubmitsBy(c) ==
    \E o \in Ops, p \in Payloads, ok \in BOOLEAN :
        p.version <= sup.grant[p.grant].version /\ Submit(c, o, p, ok)

JournalWork ==
    \/ Rewrites
    \/ \E o \in Ops, p \in Payloads, ok \in BOOLEAN : Inserts(o, p, ok)

Working ==
    /\ Serving /\ Serving'
    /\ CommitsGrown \/ Tick \/ UNCHANGED supVars
    /\ JournalWork

\* A submission makes a record of its payload.
LEMMA SubmitInserts ==
  ASSUME Facts, NEW c \in Calls, NEW o \in Ops, NEW p \in Payloads, NEW ok \in BOOLEAN,
         p.version <= sup.grant[p.grant].version, Submit(c, o, p, ok)
  PROVE  Serving /\ Inserts(o, p, ok)
<1>1. Within(sup, p)
  BY DEF Submit, Admitted, Authenticated, Valid, Granted, Within
<1>2. Inserts(o, p, ok)
  BY <1>1, CreateInserts DEF Submit, Facts, Typed
<1>3. Serving
  BY DEF Submit, Admitted, Ready
<1> QED BY <1>2, <1>3

\* An execution does one or no method of the journal,
LEMMA CallJournal ==
  ASSUME Facts, NEW c \in Calls, CallStep(c)
  PROVE  Serving /\ (Rewrites \/ SubmitsBy(c))
<1>1. call[c] # Idle => Serving /\ call[c].op \in Ops
  BY DEF Facts, Attached, Live
<1>2. Idle.pc = "idle" /\ Idle.run = "none"
  BY DEF Idle
<1>3. {"pending", "dispatching", "dispatched", "failed", "confirmed", "unknown"} \subseteq J!Statuses
  BY DEF J!Statuses, J!Undispatched, J!Unresolved, J!Terminal
<1>4. ASSUME NEW ok \in BOOLEAN, NEW o \in Ops, NEW p \in Payloads,
             p.version <= sup.grant[p.grant].version, Submit(c, o, p, ok)
      PROVE  Serving /\ SubmitsBy(c)
  BY <1>4, SubmitInserts DEF SubmitsBy
<1>5. ASSUME NEW ok \in BOOLEAN,
             \/ MarkPending(c, ok) \/ Refuse(c, ok) \/ MarkDispatching(c, ok)
             \/ FailUnauthorised(c, ok) \/ MarkDispatched(c, ok)
             \/ \E confirmed \in BOOLEAN : Confirm(c, confirmed, ok)
             \/ MarkUnknown(c, ok)
      PROVE  Serving /\ Rewrites
  <2>1. call[c] # Idle
    BY <1>2, <1>5 DEF MarkPending, Refuse, MarkDispatching, FailUnauthorised, MarkDispatched,
                      Confirm, MarkUnknown, Answered
  <2> DEFINE does(st) == Justified(call[c].op, st) /\ Relabels(call[c].op, st, ok)
  <2>2. UNCHANGED journalVars \/ \E st \in J!Statuses : does(st)
    <3>1. CASE MarkPending(c, ok)
      <4>1. J!MarkPending(call[c].op, ok) /\ call[c].pc = "created"
        BY <3>1 DEF MarkPending
      <4>2. does("pending")
        BY <1>1, <2>1, <4>1, MethodsRelabel DEF Justified
      <4> QED BY <1>3, <4>2
    <3>2. CASE Refuse(c, ok) \/ FailUnauthorised(c, ok)
      <4>1. UNCHANGED journalVars \/ J!Settle(call[c].op, "failed", ok)
        BY <3>2 DEF Refuse, FailUnauthorised, FailBeforeDispatch
      <4>2. call[c].pc = "pending" \/ ~call[c].authorized
        BY <3>2 DEF Refuse, FailUnauthorised
      <4>3. J!Settle(call[c].op, "failed", ok) => does("failed")
        BY <1>1, <2>1, <4>2, MethodsRelabel DEF Justified, Live
      <4> QED BY <1>3, <4>1, <4>3
    <3>3. CASE MarkDispatching(c, ok)
      <4>1. (UNCHANGED journalVars \/ J!MarkDispatching(call[c].op, ok)) /\ call[c].run = "probed"
        BY <3>3 DEF MarkDispatching
      <4>2. J!MarkDispatching(call[c].op, ok) => does("dispatching")
        BY <1>1, <2>1, <4>1, MethodsRelabel DEF Justified
      <4> QED BY <1>3, <4>1, <4>2
    <3>4. CASE MarkDispatched(c, ok)
      <4>1. UNCHANGED journalVars \/ J!MarkDispatched(call[c].op, ok)
        BY <3>4 DEF MarkDispatched
      <4>2. J!MarkDispatched(call[c].op, ok) => does("dispatched")
        BY <1>1, <2>1, MethodsRelabel DEF Justified
      <4> QED BY <1>3, <4>1, <4>2
    <3>5. CASE \E confirmed \in BOOLEAN : Confirm(c, confirmed, ok)
      <4>1. UNCHANGED journalVars \/ J!Settle(call[c].op, "confirmed", ok)
        BY <3>5 DEF Confirm
      <4>2. J!Settle(call[c].op, "confirmed", ok) => does("confirmed")
        BY <1>1, <2>1, MethodsRelabel DEF Justified
      <4> QED BY <1>3, <4>1, <4>2
    <3>6. CASE MarkUnknown(c, ok)
      <4>1. UNCHANGED journalVars \/ J!MarkDispatched(call[c].op, ok) \/ J!Settle(call[c].op, "unknown", ok)
        BY <3>6 DEF MarkUnknown
      <4>2. /\ J!MarkDispatched(call[c].op, ok) => does("dispatched")
            /\ J!Settle(call[c].op, "unknown", ok) => does("unknown")
        BY <1>1, <2>1, MethodsRelabel DEF Justified
      <4> QED BY <1>3, <4>1, <4>2
    <3> QED BY <1>5, <3>1, <3>2, <3>3, <3>4, <3>5, <3>6
  <2> QED BY <1>1, <2>1, <2>2 DEF Rewrites
<1>6. ASSUME NEW ok \in BOOLEAN, Charge(c, ok) PROVE Serving /\ Rewrites
  BY <1>1, <1>2, <1>6 DEF Charge, Rewrites
<1>7. ASSUME \/ \E o \in Ops : Resubmit(c, o)
             \/ Dispatch(c) \/ StartRun(c)
             \/ \E draft \in BOOLEAN : FinishProbe(c, draft)
             \/ Act(c)
             \/ \E outcome \in {"ok", "error"} : FinishRun(c, outcome) \/ DropDispatch(c, outcome)
             \/ RejectDispatch(c) \/ StartUnknown(c)
      PROVE  Serving /\ Rewrites
  <2>1. UNCHANGED journalVars
    BY <1>7 DEF Resubmit, Dispatch, StartRun, FinishProbe, Act, FinishRun, DropDispatch,
                RejectDispatch, StartUnknown
  <2>2. Ready \/ call[c] # Idle
    BY <1>2, <1>7 DEF Resubmit, Admitted, Dispatch, StartRun, FinishProbe, Act, FinishRun, DropDispatch,
                      RejectDispatch, StartUnknown, Answered
  <2> QED BY <1>1, <2>1, <2>2 DEF Rewrites, Ready
<1> QED BY <1>4, <1>5, <1>6, <1>7 DEF CallStep

\* and so does the owner.
LEMMA OwnerJournal ==
  ASSUME Facts, OwnerStep
  PROVE  Serving /\ Rewrites
<1>1. owner.step # "none" => Serving
  BY DEF Facts, Attached
<1>2. ASSUME NEW o \in Ops, NEW ok \in BOOLEAN, CancelForTakeover(o, ok) PROVE Serving /\ Rewrites
  <2>1. "cancelled" \in J!Statuses /\ Justified(o, "cancelled")
    BY DEF J!Statuses, J!Terminal, Justified
  <2> QED BY <1>1, <1>2, <2>1, MethodsRelabel DEF CancelForTakeover, Rewrites
<1>3. ASSUME \/ \E w \in Workspaces \cup {NoWorkspace} : StartTakeover(w)
             \/ AllPaused \/ EndTakeover \/ ManageGrants
      PROVE  Serving /\ Rewrites
  BY <1>1, <1>3 DEF StartTakeover, AllPaused, EndTakeover, ManageGrants, Ready, Rewrites
<1>4. ASSUME NEW ok \in BOOLEAN,
             \/ PauseForTakeover(ok)
             \/ \E g \in Grants :
                   PauseOneForTakeover(g, ok) \/ ResumeSupervision(g, ok) \/ ResumeAfterRestart(g, ok)
      PROVE  Serving /\ Rewrites
  BY <1>1, <1>4 DEF PauseForTakeover, PauseOneForTakeover, ResumeSupervision, ResumeAfterRestart, Ready,
                    Rewrites
<1> QED BY <1>2, <1>3, <1>4 DEF OwnerStep

\* A step works, or is a crash or a start.
LEMMA StepKinds ==
  ASSUME Facts, ScopedNext
  PROVE  Working \/ Crash \/ \E ok \in BOOLEAN : Restart(ok)
<1>1. ASSUME Serving, JournalWork, CommitsGrown \/ Tick \/ UNCHANGED supVars PROVE Working
  <2>1. supUp'
    <3>1. CASE CommitsGrown
      BY <3>1, CommitLeaves DEF CommitsGrown
    <3>2. CASE Tick \/ UNCHANGED supVars
      BY <1>1, <3>2 DEF Tick, supVars, Serving
    <3> QED BY <1>1, <3>1, <3>2
  <2>2. journalUp'
    BY <1>1 DEF JournalWork, Rewrites, Serving, journalVars, Relabels, Inserts
  <2> QED BY <1>1, <2>1, <2>2 DEF Working, Serving
<1>2. ASSUME NEW c \in Calls, CallStep(c) PROVE Working
  <2>1. Serving /\ JournalWork
    BY <1>2, CallJournal, SubmitInserts DEF JournalWork, SubmitsBy
  <2> QED BY <1>1, <1>2, <2>1, CallStores
<1>3. CASE OwnerStep
  BY <1>1, <1>3, OwnerJournal, OwnerStores DEF JournalWork
<1>4. CASE Extract \/ TimePasses
  <2>1. Serving /\ (Tick \/ UNCHANGED supVars) /\ UNCHANGED journalVars
    BY <1>4 DEF Extract, TimePasses, Ready
  <2> QED BY <1>1, <2>1 DEF JournalWork, Rewrites
<1> QED BY <1>2, <1>3, <1>4 DEF ScopedNext

\* Only the owner's steps change what the server knows of a takeover, and only an
\* extraction the page.
LEMMA CallLeaves ==
  ASSUME NEW c \in Calls, CallStep(c)
  PROVE  UNCHANGED <<mode, owner>>
<1>1. \A ok \in BOOLEAN :
        /\ \A o \in Ops, p \in Payloads : Submit(c, o, p, ok) => UNCHANGED <<mode, owner>>
        /\ MarkPending(c, ok) => UNCHANGED <<mode, owner>>
        /\ Refuse(c, ok) => UNCHANGED <<mode, owner>>
        /\ MarkDispatching(c, ok) => UNCHANGED <<mode, owner>>
        /\ Charge(c, ok) => UNCHANGED <<mode, owner>>
        /\ FailUnauthorised(c, ok) => UNCHANGED <<mode, owner>>
        /\ MarkDispatched(c, ok) => UNCHANGED <<mode, owner>>
        /\ \A confirmed \in BOOLEAN : Confirm(c, confirmed, ok) => UNCHANGED <<mode, owner>>
        /\ MarkUnknown(c, ok) => UNCHANGED <<mode, owner>>
  BY DEF Submit, MarkPending, Refuse, MarkDispatching, Charge, FailUnauthorised, MarkDispatched,
         Confirm, MarkUnknown, pageVars
<1>2. /\ \A o \in Ops : Resubmit(c, o) => UNCHANGED <<mode, owner>>
      /\ Dispatch(c) => UNCHANGED <<mode, owner>>
      /\ StartRun(c) => UNCHANGED <<mode, owner>>
      /\ \A draft \in BOOLEAN : FinishProbe(c, draft) => UNCHANGED <<mode, owner>>
      /\ Act(c) => UNCHANGED <<mode, owner>>
      /\ \A outcome \in {"ok", "error"} :
            FinishRun(c, outcome) \/ DropDispatch(c, outcome) => UNCHANGED <<mode, owner>>
      /\ RejectDispatch(c) => UNCHANGED <<mode, owner>>
      /\ StartUnknown(c) => UNCHANGED <<mode, owner>>
  BY DEF Resubmit, Dispatch, StartRun, FinishProbe, Act, FinishRun, DropDispatch, RejectDispatch,
         StartUnknown, pageVars
<1> QED BY <1>1, <1>2 DEF CallStep

\* What the server knows of a takeover stays well formed.
LEMMA TakeoverTyped ==
  ASSUME Facts, ScopedNext
  PROVE  owner' \in Takeovers /\ mode' \in Modes
<1>1. owner \in Takeovers /\ mode \in Modes /\ NoTakeover \in Takeovers
  BY DEF Facts, Typed, Takeovers, NoTakeover
<1>2. \A c \in Calls : CallStep(c) => UNCHANGED <<mode, owner>>
  BY CallLeaves
<1>3. CASE OwnerStep
  <2>1. mode' = mode
    <3>1. /\ \A w \in Workspaces \cup {NoWorkspace} : StartTakeover(w) => mode' = mode
          /\ AllPaused \/ EndTakeover \/ ManageGrants => mode' = mode
          /\ \A ok \in BOOLEAN :
                /\ \A o \in Ops : CancelForTakeover(o, ok) => mode' = mode
                /\ PauseForTakeover(ok) => mode' = mode
                /\ \A g \in Grants :
                      PauseOneForTakeover(g, ok) \/ ResumeSupervision(g, ok) \/ ResumeAfterRestart(g, ok)
                         => mode' = mode
      BY DEF StartTakeover, AllPaused, EndTakeover, CancelForTakeover, PauseForTakeover,
             PauseOneForTakeover, ResumeSupervision, ResumeAfterRestart, ManageGrants, pageVars
    <3> QED BY <1>3, <3>1 DEF OwnerStep
  <2>2. ASSUME NEW w \in Workspaces \cup {NoWorkspace}, StartTakeover(w) PROVE owner' \in Takeovers
    BY <2>2 DEF StartTakeover, Takeovers
  <2>3. ASSUME NEW ok \in BOOLEAN, NEW g \in Grants, PauseOneForTakeover(g, ok)
        PROVE  owner' \in Takeovers
    <3>1. owner' = IF ok THEN [owner EXCEPT !.paused = owner.paused \cup {g}] ELSE NoTakeover
      BY <2>3 DEF PauseOneForTakeover
    <3> QED BY <1>1, <3>1 DEF Takeovers
  <2>4. ASSUME NEW ok \in BOOLEAN, PauseForTakeover(ok) PROVE owner' \in Takeovers
    BY <1>1, <2>4 DEF PauseForTakeover, Takeovers
  <2>5. AllPaused \/ EndTakeover => owner' \in Takeovers
    BY <1>1 DEF AllPaused, EndTakeover, Takeovers
  <2>6. ASSUME NEW ok \in BOOLEAN, NEW o \in Ops, CancelForTakeover(o, ok) PROVE owner' \in Takeovers
    BY <1>1, <2>6 DEF CancelForTakeover
  <2>7. ASSUME \/ ManageGrants
               \/ \E ok \in BOOLEAN, g \in Grants :
                     ResumeSupervision(g, ok) \/ ResumeAfterRestart(g, ok)
        PROVE  owner' \in Takeovers
    BY <1>1, <2>7 DEF ManageGrants, ResumeSupervision, ResumeAfterRestart
  <2> QED BY <1>1, <1>3, <2>1, <2>2, <2>3, <2>4, <2>5, <2>6, <2>7 DEF OwnerStep
<1>4. Extract \/ TimePasses \/ Crash \/ (\E ok \in BOOLEAN : Restart(ok))
         => owner' \in Takeovers /\ mode' \in Modes
  BY <1>1 DEF Extract, TimePasses, Crash, Restart, pageVars
<1> QED BY <1>1, <1>2, <1>3, <1>4 DEF ScopedNext

--------------------------------------------------------------------------------
(* The facts, and what a payload may name.                                 *)

\* While the process serves, its grants stay, and their versions never fall.
LEMMA WithinKept ==
  ASSUME SupInv, CommitsGrown \/ Tick \/ UNCHANGED supVars
  PROVE  \A g \in Grants :
            /\ Granted(sup, g) => Granted(sup', g) /\ sup'.grant[g].workspace = sup.grant[g].workspace
            /\ sup.grant[g].version \in Nat /\ sup'.grant[g].version \in Nat
            /\ sup.grant[g].version <= sup'.grant[g].version
            /\ sup.grant[g].used <= sup'.grant[g].used
            /\ sup'.grant[g].version = sup.grant[g].version =>
                  sup'.grant[g].pauses = sup.grant[g].pauses /\ Terms(sup'.grant[g]) = Terms(sup.grant[g])
<1>1. \A g \in Grants : sup.grant[g].version \in Nat /\ sup.grant[g].used \in Nat
  BY GrantTyped DEF SupInv, GrantRecords
<1>2. CASE UNCHANGED sup
  BY <1>1, <1>2
<1>3. CASE CommitsGrown /\ sup' # sup
  <2>1. PICK next \in SupStores, ok \in BOOLEAN : Sound(next) /\ SupCommit(next, ok)
    BY <1>3 DEF CommitsGrown
  <2>2. sup' = next
    BY <1>3, <2>1, CommitLeaves
  <2>3. Grows(sup, sup') /\ \A g \in Grants : Advances(sup'.grant[g], sup.grant[g])
    BY <2>1, <2>2 DEF Sound, Evolves
  <2> QED BY <1>1, <2>3 DEF Grows, Advances
<1> QED BY <1>2, <1>3 DEF Tick, supVars

\* A write of a well filed store leaves well filed ones.
LEMMA WriteFiled ==
  ASSUME Filed(journal), Filed(journalDisk), NEW next, Filed(next), NEW ok \in BOOLEAN,
         J!Write(next, ok)
  PROVE  Filed(journal') /\ Filed(journalDisk')
  BY WriteMeans, FiledMeans

\* The facts hold on.
LEMMA FactsKept ==
  ASSUME Facts, Placed, ScopedNext
  PROVE  Facts'
<1>1. SupInv'
  BY ScopedStores, SupInvKept DEF Facts
<1>2. AllMove /\ owner' \in Takeovers /\ mode' \in Modes
  BY ScopedMoves, TakeoverTyped
<1>3. Filed(journal) /\ Filed(journalDisk) /\ Filed(J!EmptyStore) /\ journalUp \in BOOLEAN
      /\ Filed(J!Recover(journalDisk))
  BY FiledMeans, RecoverFiled DEF Facts, Typed
<1>4. Filed(journal') /\ Filed(journalDisk') /\ journalUp' \in BOOLEAN
      /\ (~journalUp' => journal' = J!EmptyStore)
  <2>1. ~journalUp => journal = J!EmptyStore
    BY DEF Facts, Attached
  <2>2. CASE Working
    <3>1. CASE UNCHANGED journalVars
      BY <1>3, <2>1, <3>1 DEF journalVars
    <3>2. ASSUME NEW o \in Ops, NEW st \in J!Statuses, NEW ok \in BOOLEAN, Relabels(o, st, ok)
          PROVE  Filed(journal') /\ Filed(journalDisk') /\ journalUp'
      BY <1>3, <3>2, RelabelFiled, WriteFiled DEF Relabels, Recorded
    <3>3. ASSUME NEW o \in Ops, NEW p \in Payloads, NEW ok \in BOOLEAN, Inserts(o, p, ok)
          PROVE  Filed(journal') /\ Filed(journalDisk') /\ journalUp'
      BY <1>3, <3>3, WriteFiled DEF Inserts
    <3> QED BY <2>2, <3>1, <3>2, <3>3 DEF Working, JournalWork, Rewrites
  <2>3. CASE UNCHANGED journalVars
    BY <1>3, <2>1, <2>3 DEF journalVars
  <2>4. CASE Stops
    BY <1>3, <2>4 DEF Stops
  <2>5. CASE Starts
    BY <1>3, <2>1, <2>5 DEF Starts
  <2> QED BY <2>2, <2>3, <2>4, <2>5, StepKinds, ProcessJournal DEF Crash, Restart
<1>5. /\ \A c \in Calls : call'[c] # Idle => Serving'
      /\ owner'.step # "none" => Serving'
      /\ journalUp' => supUp'
  <2>1. CASE Working
    BY <2>1 DEF Working, Serving
  <2>2. CASE Crash
    <3>1. (\A c \in Calls : call'[c] = Idle) /\ owner'.step = "none"
      BY <2>2 DEF Crash, NoTakeover
    <3>2. ~journalUp'
      BY <2>2, ProcessJournal DEF Crash, Stops, journalVars
    <3> QED BY <3>1, <3>2
  <2>3. ASSUME NEW ok \in BOOLEAN, Restart(ok)
        PROVE  /\ \A c \in Calls : call'[c] # Idle => Serving'
               /\ owner'.step # "none" => Serving'
               /\ journalUp' => supUp'
    <3>1. ~Serving /\ call' = call /\ owner' = owner
      BY <2>3 DEF Restart, Serving, SupRestart, J!JournalRestart
    <3>2. journalUp' => supUp'
      <4>1. \/ ~supUp /\ UNCHANGED journalUp
            \/ supUp /\ UNCHANGED supUp
        BY <2>3 DEF Restart, SupRestart, journalVars, supVars
      <4> QED BY <4>1 DEF Facts, Attached
    <3> QED BY <3>1, <3>2 DEF Facts, Attached, Live
  <2> QED BY <2>1, <2>2, <2>3, StepKinds
<1>6. ASSUME NEW c \in Calls, call'[c] # Idle
      PROVE  /\ call'[c].pc # "idle" \/ call'[c].run # "none"
             /\ call'[c].op \in Ops /\ call'[c].payload \in Payloads
  BY <1>2, <1>6 DEF AllMove, Moves, Born, Goes, Facts, Attached, Live
<1> QED BY <1>1, <1>2, <1>3, <1>4, <1>5, <1>6 DEF Facts, Typed, Attached, AllMove, Live, Serving

\* So do payloads name what is there.
LEMMA PlacedKept ==
  ASSUME Facts, Placed, ScopedNext
  PROVE  Placed'
<1>1. Facts' /\ AllMove
  BY FactsKept, ScopedMoves
<1>2. \A p \in Payloads : p.grant \in Grants /\ p.version \in Nat
  BY SupervisionAssumption DEF Payloads
<1>3. CASE Working
  <2>1. ASSUME NEW p \in Payloads, Within(sup, p) PROVE Within(sup', p)
    BY <1>2, <1>3, <2>1, WithinKept DEF Working, Within, Facts
  <2>2. ASSUME NEW c \in Calls, call'[c] # Idle PROVE Within(sup', call'[c].payload)
    <3>1. call'[c].payload \in Payloads
      BY <1>1, <2>2 DEF Facts, Attached, Live
    <3>2. Within(sup, call'[c].payload)
      BY <1>1, <2>2 DEF AllMove, Moves, Born, Goes, Placed, Live
    <3> QED BY <2>1, <3>1, <3>2
  <2>3. ASSUME NEW o \in Ops, journal'.status[o] \in {"recorded", "pending"}
        PROVE  Within(sup', journal'.digest[o])
    <3> DEFINE kept == journal.status[o] \in {"recorded", "pending"} /\ journal'.digest[o] = journal.digest[o]
    <3>1. journal'.digest[o] \in Payloads
      BY <1>1, <2>3 DEF Facts, Typed, Filed
    <3>2. kept => Within(sup', journal'.digest[o])
      BY <2>1, <3>1 DEF Placed
    <3>3. CASE UNCHANGED journalVars
      BY <2>3, <3>2, <3>3 DEF journalVars
    <3>4. ASSUME NEW q \in Ops, NEW st \in J!Statuses, NEW ok \in BOOLEAN, Relabels(q, st, ok)
          PROVE  kept
      <4>1. LET t == J!SetStatus(journal, q, st) IN
            t.status = [journal.status EXCEPT ![q] = st] /\ t.digest = journal.digest
        BY <3>4, RelabelFiled DEF Relabels, Recorded, Facts, Typed
      <4>2. /\ journal'.digest = journal.digest
            /\ journal'.status \in {journal.status, [journal.status EXCEPT ![q] = st]}
        BY <3>4, <4>1, WriteMeans DEF Relabels
      <4>3. journal.status \in [Ops -> J!Statuses \cup {"absent"}]
        BY FiledMeans DEF Facts, Typed
      <4> QED BY <2>3, <3>4, <4>2, <4>3 DEF Relabels
    <3>5. ASSUME NEW q \in Ops, NEW p \in Payloads, NEW ok \in BOOLEAN, Inserts(q, p, ok)
          PROVE  kept \/ (journal'.digest[o] = p /\ Within(sup, p))
      <4>1. PICK next : Filed(next) /\ Inserted(journal, next, q, p) /\ J!Write(next, ok)
        BY <3>5 DEF Inserts
      <4>2. journal' \in {journal, next}
        BY <4>1, WriteMeans
      <4> QED BY <2>3, <3>5, <4>1, <4>2 DEF Inserted, Inserts
    <3> HIDE DEF kept
    <3>6. CASE \E q \in Ops, p \in Payloads, ok \in BOOLEAN : Inserts(q, p, ok)
      BY <2>1, <3>2, <3>5, <3>6
    <3> QED BY <1>3, <3>2, <3>3, <3>4, <3>6 DEF Working, JournalWork, Rewrites
  <2> QED BY <2>2, <2>3 DEF Placed, Live
<1>4. CASE Crash
  <2>1. \A c \in Calls : call'[c] = Idle
    BY <1>4 DEF Crash
  <2>2. \A o \in Ops : journal'.status[o] = "absent"
    <3>1. journal' = J!EmptyStore
      BY <1>4, ProcessJournal DEF Crash, Stops, Facts, Attached, journalVars
    <3> QED BY <3>1, FiledMeans
  <2> QED BY <2>1, <2>2 DEF Placed, Live
<1>5. ASSUME NEW ok \in BOOLEAN, Restart(ok) PROVE Placed'
  <2>1. ~Serving /\ call' = call
    BY <1>5 DEF Restart, Serving, SupRestart, J!JournalRestart
  <2>2. \A c \in Calls : ~Live(c)'
    BY <2>1 DEF Facts, Attached, Live
  <2>3. ~journalUp
    BY <2>1 DEF Serving, Facts, Attached
  <2>4. \A o \in Ops : journal'.status[o] \notin {"recorded", "pending"}
    <3>1. \A o \in Ops : journal.status[o] = "absent"
      BY <2>3, FiledMeans DEF Facts, Attached
    <3>2. \A o \in Ops : J!Recover(journalDisk).status[o] \notin {"recorded", "pending"}
      BY RecoverFiled DEF Facts, Typed
    <3> QED BY <1>5, <3>1, <3>2, ProcessJournal DEF Restart, Starts, journalVars
  <2> QED BY <2>2, <2>4 DEF Placed
<1> QED BY <1>3, <1>4, <1>5, StepKinds


--------------------------------------------------------------------------------
(* What the grant says of a request that is not yet authorised.            *)

\* A run that has passed assertBaseScope may write as long as its grant has the
\* version it names; a request that was cut off has a grant that is paused for the
\* owner, or another version.
PolicyInv ==
    \A c \in Calls : Live(c) /\ ~call[c].authorized =>
        LET p  == call[c].payload
            gr == sup.grant[p.grant] IN
        /\ call[c].run \in Checked /\ p.version = gr.version =>
              gr.writable /\ gr.pauses \subseteq (IF p.issue # NoIssue THEN {"pending_issue"} ELSE {})
        /\ call[c].cut /\ p.version = gr.version => "human_takeover" \in gr.pauses
        /\ call[c].run \notin {"acting", "acted"}

\* Whatever becomes of the grants, this stays so: a version that is still the one
\* a request names has kept the pauses and the scope it had.
LEMMA PolicyInvKept ==
  ASSUME Facts, Placed, PolicyInv, ScopedNext
  PROVE  PolicyInv'
<1>1. AllMove /\ Facts'
  BY ScopedMoves, FactsKept
<1>2. SUFFICES ASSUME NEW c \in Calls, call'[c] # Idle, ~call'[c].authorized
               PROVE  LET p  == call'[c].payload
                          gr == sup'.grant[p.grant] IN
                      /\ call'[c].run \in Checked /\ p.version = gr.version =>
                            /\ gr.writable
                            /\ gr.pauses \subseteq (IF p.issue # NoIssue THEN {"pending_issue"} ELSE {})
                      /\ call'[c].cut /\ p.version = gr.version => "human_takeover" \in gr.pauses
                      /\ call'[c].run \notin {"acting", "acted"}
  BY DEF PolicyInv, Live
<1> DEFINE p  == call'[c].payload
           gr == sup'.grant[p.grant]
           old == sup.grant[p.grant]
<1>3. Working
  <2>1. ~Crash
    BY <1>2 DEF Crash
  <2>2. ASSUME NEW ok \in BOOLEAN, Restart(ok) PROVE FALSE
    <3>1. ~Serving /\ call' = call
      BY <2>2 DEF Restart, Serving, SupRestart, J!JournalRestart
    <3> QED BY <1>2, <3>1 DEF Facts, Attached, Live
  <2> QED BY <2>1, <2>2, StepKinds
<1>4. p \in Payloads /\ p.grant \in Grants /\ p.version \in Nat
  BY <1>1, <1>2, SupervisionAssumption DEF Facts, Attached, Live, Payloads
<1>5. CASE Born(c)
  BY <1>5 DEF Born, Checked
<1>6. CASE ~Born(c)
  <2>1. /\ call[c] # Idle /\ ~call[c].authorized /\ call[c].payload = p
        /\ call'[c].run \in Checked => call[c].run \in Checked \/ (BaseScope(p) /\ UNCHANGED supVars)
        /\ call'[c].cut => call[c].cut \/ "human_takeover" \in gr.pauses
        /\ call'[c].run \notin {"acting", "acted"} \/ call[c].run \in {"acting", "acted"}
    BY <1>1, <1>2, <1>6 DEF AllMove, Moves, Goes
  <2>2. /\ call[c].run \in Checked /\ p.version = old.version =>
              /\ old.writable
              /\ old.pauses \subseteq (IF p.issue # NoIssue THEN {"pending_issue"} ELSE {})
        /\ call[c].cut /\ p.version = old.version => "human_takeover" \in old.pauses
        /\ call[c].run \notin {"acting", "acted"}
    BY <2>1 DEF PolicyInv, Live
  <2>3. p.version = gr.version =>
           p.version = old.version /\ gr.pauses = old.pauses /\ gr.writable = old.writable
    <3>1. Within(sup, p)
      BY <2>1 DEF Placed, Live
    <3>2. /\ old.version \in Nat /\ gr.version \in Nat /\ old.version <= gr.version
          /\ gr.version = old.version => gr.pauses = old.pauses /\ Terms(gr) = Terms(old)
      BY <1>3, <1>4, WithinKept DEF Working, Facts
    <3>3. Terms(gr) = Terms(old) => gr.writable = old.writable
      BY DEF Terms
    <3> HIDE DEF gr, old, p
    <3> QED BY <1>4, <3>1, <3>2, <3>3 DEF Within, old
  <2>4. BaseScope(p) /\ UNCHANGED supVars =>
           /\ gr.writable /\ gr.pauses \subseteq (IF p.issue # NoIssue THEN {"pending_issue"} ELSE {})
    BY DEF BaseScope, MayWrite, supVars
  <2> HIDE DEF gr, old, p
  <2>5. /\ call'[c].run \in Checked /\ p.version = gr.version =>
              gr.writable /\ gr.pauses \subseteq (IF p.issue # NoIssue THEN {"pending_issue"} ELSE {})
        /\ call'[c].cut /\ p.version = gr.version => "human_takeover" \in gr.pauses
        /\ call'[c].run \notin {"acting", "acted"}
    BY <2>1, <2>2, <2>3, <2>4
  <2> QED BY <2>5 DEF gr, p
<1> QED BY <1>5, <1>6

\* What is so at the start.
LEMMA ScopedStart ==
  ASSUME ScopedInit
  PROVE  Facts /\ Placed /\ \A c \in Calls : call[c] = Idle
<1>1. SupInv
  BY SupInvInit DEF ScopedInit
<1>2. journal = J!EmptyStore /\ journalDisk = J!EmptyStore /\ journalUp = TRUE
  BY DEF ScopedInit, J!JournalInit
<1>3. call = [c \in Calls |-> Idle] /\ owner = NoTakeover /\ mode \in Modes /\ supUp
  BY DEF ScopedInit, SupInit
<1>4. Idle \in CallRecords /\ NoTakeover \in Takeovers /\ NoTakeover.step = "none"
  BY <1>3 DEF Idle, CallRecords, ExecSteps, RunSteps, NoTakeover, Takeovers
<1>5. Typed
  BY <1>2, <1>3, <1>4, FiledMeans DEF Typed
<1>6. Attached
  BY <1>2, <1>3, <1>4 DEF Attached, Live
<1>7. Placed
  BY <1>2, <1>3, FiledMeans DEF Placed, Live
<1> QED BY <1>1, <1>3, <1>5, <1>6, <1>7 DEF Facts

\* A step that leaves everything as it is.
LEMMA ScopedStutter ==
  ASSUME UNCHANGED scopedVars
  PROVE  (Facts => Facts') /\ (Placed => Placed') /\ (PolicyInv => PolicyInv')
  BY DEF scopedVars, supVars, journalVars, pageVars, Facts, Placed, PolicyInv, SupInv, Typed, Attached,
         Serving, Live

\* A mutation is authorised by a charge that found the version it names.
LEMMA AuthorisedMeans ==
  ASSUME Facts, Placed, ScopedNext, NEW c \in Calls, ~call[c].authorized, call'[c].authorized
  PROVE  Live(c) /\ call[c].run = "marked" /\ Chargeable(call[c].payload)
<1>1. Moves(c)
  BY ScopedMoves DEF AllMove
<1>2. ~Idle.authorized
  BY DEF Idle
<1> QED BY <1>1, <1>2 DEF Moves, Born, Goes, Live

\* A request in progress when the owner took over is never authorised, not even
\* after the owner has resumed supervision: relay.ts pauses the grant before it
\* cancels what is pending, and a later resume rotates the version.
THEOREM CutRequestsNeverAct == ScopedSpec => TakeoverIsACut
<1> DEFINE Inv == Facts /\ Placed /\ PolicyInv
<1>1. ScopedInit => Inv
  BY ScopedStart DEF PolicyInv, Live
<1>2. Inv /\ [ScopedNext]_scopedVars => Inv'
  BY FactsKept, PlacedKept, PolicyInvKept, ScopedStutter
<1>3. Inv /\ ScopedNext => \A c \in Calls : Authorises(c) => ~call[c].cut
  <2> SUFFICES ASSUME Inv, ScopedNext, NEW c \in Calls, Authorises(c), call[c].cut PROVE FALSE
    OBVIOUS
  <2>1. Live(c) /\ call[c].run = "marked" /\ Chargeable(call[c].payload) /\ ~call[c].authorized
    BY AuthorisedMeans DEF Authorises
  <2>2. call[c].payload.version = sup.grant[call[c].payload.grant].version
    BY <2>1 DEF Chargeable
  <2> QED BY <2>1, <2>2 DEF PolicyInv, Checked
<1> HIDE DEF Inv
<1> QED BY <1>1, <1>2, <1>3, PTL DEF ScopedSpec, TakeoverIsACut


--------------------------------------------------------------------------------
(* Turns.                                                                  *)

\* Where a call is agrees with the journal while it is in its turn, and with
\* whether it was authorised.
InOrder(c) ==
    LET r == call[c] IN
    /\ r.pc \in {"created", "pending"} => r.run = "none" /\ ~r.authorized
    /\ r.pc = "created" => journal.status[r.op] = "recorded"
    /\ r.pc = "pending" => journal.status[r.op] = "pending"
    /\ r.run = "marked" =>
          /\ r.pc \notin {"created", "pending", "unknown"}
          /\ journal.status[r.op] = "dispatching" /\ journalDisk.status[r.op] = "dispatching"
    /\ r.run \in Checked \cup {"queued"} => ~r.authorized
    /\ r.pc \in {"unknown", "confirming"} => r.authorized

\* One turn at a time.
TurnInv ==
    /\ \A c \in Calls : InTurn(c) => owner.step = "none" /\ \A d \in Calls \ {c} : ~InTurn(d)
    /\ \A c \in Calls : InOrder(c)

\* A call that is in no turn and in order, whatever the journal says.
Quiet(r) ==
    /\ r.pc \notin {"created", "pending"} /\ r.run # "marked"
    /\ r.run \in Checked \cup {"queued"} => ~r.authorized
    /\ r.pc \in {"unknown", "confirming"} => r.authorized

\* A step of an execution begins when no turn is under way, or is of the one that is.
LEMMA CallTurn ==
  ASSUME NEW c \in Calls, CallStep(c)
  PROVE  (Ready /\ ~InTurn(c)) \/ InTurn(c)
<1>1. \A ok \in BOOLEAN :
        /\ \A o \in Ops, p \in Payloads : Submit(c, o, p, ok) => Ready
        /\ MarkPending(c, ok) => InTurn(c)
        /\ Refuse(c, ok) => InTurn(c)
        /\ MarkDispatching(c, ok) => Ready
        /\ Charge(c, ok) => InTurn(c)
        /\ FailUnauthorised(c, ok) => Ready
        /\ MarkDispatched(c, ok) => Ready
        /\ \A confirmed \in BOOLEAN : Confirm(c, confirmed, ok) => Ready
        /\ MarkUnknown(c, ok) => InTurn(c)
  BY DEF Submit, Admitted, MarkPending, Refuse, MarkDispatching, Charge, FailUnauthorised,
         MarkDispatched, Confirm, MarkUnknown, Answered, InTurn
<1>2. /\ \A o \in Ops : Resubmit(c, o) => Ready
      /\ Dispatch(c) => InTurn(c)
      /\ StartRun(c) => Ready
      /\ \A draft \in BOOLEAN : FinishProbe(c, draft) => Ready
      /\ Act(c) => Ready
      /\ \A outcome \in {"ok", "error"} : FinishRun(c, outcome) \/ DropDispatch(c, outcome) => Ready
      /\ RejectDispatch(c) => Ready
      /\ StartUnknown(c) => Ready
  BY DEF Resubmit, Admitted, Dispatch, StartRun, FinishProbe, Act, FinishRun, DropDispatch,
         RejectDispatch, StartUnknown, Answered, InTurn
<1>3. Ready => ~InTurn(c)
  BY DEF Ready
<1> QED BY <1>1, <1>2, <1>3 DEF CallStep

\* It leaves the other executions as they are.
LEMMA CallSets ==
  ASSUME Facts, NEW c \in Calls, CallStep(c)
  PROVE  \A d \in Calls \ {c} : call'[d] = call[d]
<1>1. \A x : SetCall(c, x) => \A d \in Calls \ {c} : call'[d] = call[d]
  BY DEF SetCall, Facts, Typed
<1>2. \A outcome \in {"ok", "error"} : RunEnds(c, outcome) => \A d \in Calls \ {c} : call'[d] = call[d]
  BY <1>1 DEF RunEnds
<1> HIDE DEF SetCall
<1>3. \A ok \in BOOLEAN :
        /\ \A o \in Ops, p \in Payloads : Submit(c, o, p, ok) => \E x : SetCall(c, x)
        /\ MarkPending(c, ok) => \E x : SetCall(c, x)
        /\ Refuse(c, ok) => \E x : SetCall(c, x)
        /\ MarkDispatching(c, ok) => (\E x : SetCall(c, x)) \/ RunEnds(c, "error")
        /\ Charge(c, ok) => (\E x : SetCall(c, x)) \/ RunEnds(c, "error")
        /\ FailUnauthorised(c, ok) => \E x : SetCall(c, x)
        /\ MarkDispatched(c, ok) => \E x : SetCall(c, x)
        /\ \A confirmed \in BOOLEAN : Confirm(c, confirmed, ok) => \E x : SetCall(c, x)
        /\ MarkUnknown(c, ok) => \E x : SetCall(c, x)
  BY DEF Submit, MarkPending, Refuse, MarkDispatching, Charge, FailUnauthorised, MarkDispatched, Confirm,
         MarkUnknown
<1>4. /\ \A o \in Ops : Resubmit(c, o) => \E x : SetCall(c, x)
      /\ Dispatch(c) => \E x : SetCall(c, x)
      /\ StartRun(c) => (\E x : SetCall(c, x)) \/ RunEnds(c, "error")
      /\ \A draft \in BOOLEAN : FinishProbe(c, draft) => (\E x : SetCall(c, x)) \/ RunEnds(c, "error")
      /\ Act(c) => \E x : SetCall(c, x)
      /\ \A outcome \in {"ok", "error"} : FinishRun(c, outcome) \/ DropDispatch(c, outcome) => RunEnds(c, outcome)
      /\ RejectDispatch(c) => \E x : SetCall(c, x)
      /\ StartUnknown(c) => \E x : SetCall(c, x)
  BY DEF Resubmit, Dispatch, StartRun, FinishProbe, Act, FinishRun, DropDispatch, RejectDispatch,
         StartUnknown
<1>5. (\E x : SetCall(c, x)) \/ (\E outcome \in {"ok", "error"} : RunEnds(c, outcome))
  BY <1>3, <1>4 DEF CallStep
<1> QED BY <1>1, <1>2, <1>5

\* The owner, the page and the clock leave executions where they are, and move only
\* when none of them has the turn.
LEMMA OthersKeep ==
  ASSUME Facts, TurnInv, OwnerStep \/ Extract \/ TimePasses
  PROVE  \A c \in Calls :
            /\ ~InTurn(c)
            /\ call'[c].pc = call[c].pc /\ call'[c].run = call[c].run /\ call'[c].op = call[c].op
            /\ call'[c].payload = call[c].payload /\ call'[c].authorized = call[c].authorized
<1>1. owner.step # "none" \/ Ready
  <2>1. \A ok \in BOOLEAN :
          /\ \A o \in Ops : CancelForTakeover(o, ok) => owner.step # "none"
          /\ PauseForTakeover(ok) => owner.step # "none"
          /\ \A g \in Grants : PauseOneForTakeover(g, ok) => owner.step # "none"
          /\ \A g \in Grants : ResumeSupervision(g, ok) \/ ResumeAfterRestart(g, ok) => Ready
    BY DEF CancelForTakeover, PauseForTakeover, PauseOneForTakeover, ResumeSupervision,
           ResumeAfterRestart
  <2>2. /\ \A w \in Workspaces \cup {NoWorkspace} : StartTakeover(w) => Ready
        /\ AllPaused \/ EndTakeover => owner.step # "none"
        /\ ManageGrants \/ Extract \/ TimePasses => Ready
    BY DEF StartTakeover, AllPaused, EndTakeover, ManageGrants, Extract, TimePasses
  <2> QED BY <2>1, <2>2 DEF OwnerStep
<1>2. \A c \in Calls : ~InTurn(c)
  BY <1>1 DEF TurnInv, Ready
<1>3. call \in [Calls -> CallRecords]
  BY DEF Facts, Typed
<1>4. UNCHANGED call \/ \E paused : CutOff(paused)
  <2>1. \A ok \in BOOLEAN :
          /\ \A o \in Ops : CancelForTakeover(o, ok) => UNCHANGED call
          /\ PauseForTakeover(ok) => UNCHANGED call \/ \E paused : CutOff(paused)
          /\ \A g \in Grants : PauseOneForTakeover(g, ok) => UNCHANGED call \/ \E paused : CutOff(paused)
          /\ \A g \in Grants : ResumeSupervision(g, ok) \/ ResumeAfterRestart(g, ok) => UNCHANGED call
    BY DEF CancelForTakeover, PauseForTakeover, PauseOneForTakeover, ResumeSupervision,
           ResumeAfterRestart
  <2>2. /\ \A w \in Workspaces \cup {NoWorkspace} : StartTakeover(w) => UNCHANGED call
        /\ AllPaused \/ EndTakeover \/ ManageGrants \/ Extract \/ TimePasses => UNCHANGED call
    BY DEF StartTakeover, AllPaused, EndTakeover, ManageGrants, Extract, TimePasses
  <2> QED BY <2>1, <2>2 DEF OwnerStep
<1>5. ASSUME NEW paused, CutOff(paused), NEW c \in Calls
      PROVE  /\ call'[c].pc = call[c].pc /\ call'[c].run = call[c].run /\ call'[c].op = call[c].op
             /\ call'[c].payload = call[c].payload /\ call'[c].authorized = call[c].authorized
  <2>1. call'[c] = call[c] \/ \E x : call'[c] = [call[c] EXCEPT !.cut = x]
    BY <1>5 DEF CutOff
  <2>2. call[c] \in CallRecords
    BY <1>3
  <2> QED BY <2>1, <2>2 DEF CallRecords
<1> QED BY <1>2, <1>4, <1>5


\* What a status becomes when a method that returns gives it.
LEMMA RelabelledTo ==
  ASSUME Facts, NEW o \in Ops, NEW st \in J!Statuses, Relabels(o, st, TRUE)
  PROVE  journal'.status[o] = st /\ journalDisk'.status[o] = st
<1>1. LET t == J!SetStatus(journal, o, st) IN t.status = [journal.status EXCEPT ![o] = st]
  BY RelabelFiled DEF Relabels, Recorded, Facts, Typed
<1>2. journal.status \in [Ops -> J!Statuses \cup {"absent"}]
  BY FiledMeans DEF Facts, Typed
<1>3. journal' = J!SetStatus(journal, o, st) /\ journalDisk' = J!SetStatus(journal, o, st)
  BY WriteMeans DEF Relabels
<1> QED BY <1>1, <1>2, <1>3

\* The record of a call that moves to `r`, and of one whose run ends.
LEMMA SlotMeans ==
  ASSUME Facts, NEW c \in Calls
  PROVE  /\ \A r : SetCall(c, r) =>
               /\ call'[c] = r \/ (call'[c] = Idle /\ r.pc = "idle" /\ r.run = "none")
         /\ \A outcome : RunEnds(c, outcome) =>
               /\ call'[c].pc = call[c].pc /\ call'[c].run = "none"
               /\ call'[c] = Idle \/ call'[c].authorized = call[c].authorized
  <1>1. call \in [Calls -> CallRecords]
    BY DEF Facts, Typed
  <1>2. ASSUME NEW r, SetCall(c, r)
        PROVE  call'[c] = r \/ (call'[c] = Idle /\ r.pc = "idle" /\ r.run = "none")
    BY <1>1, <1>2 DEF SetCall, Slot
  <1>3. ASSUME NEW outcome, RunEnds(c, outcome)
        PROVE  /\ call'[c].pc = call[c].pc /\ call'[c].run = "none"
               /\ call'[c] = Idle \/ call'[c].authorized = call[c].authorized
    <2> DEFINE final == IF call[c].pc = "waiting" /\ call[c].outcome = "none" THEN outcome
                        ELSE call[c].outcome
               r == [call[c] EXCEPT !.run = "none", !.outcome = final]
    <2>1. SetCall(c, r)
      BY <1>3 DEF RunEnds
    <2> HIDE DEF final
    <2>2. r.pc = call[c].pc /\ r.run = "none" /\ r.authorized = call[c].authorized
      BY <1>1 DEF CallRecords
    <2> HIDE DEF r
    <2>3. call'[c] = r \/ (call'[c] = Idle /\ r.pc = "idle" /\ r.run = "none")
      BY <1>2, <2>1
    <2>4. Idle.pc = "idle" /\ Idle.run = "none"
      BY DEF Idle
    <2> QED BY <2>2, <2>3, <2>4
  <1> QED BY <1>2, <1>3

\* A quiet call is in order.
LEMMA QuietInOrder ==
  ASSUME NEW c \in Calls, Quiet(call[c])
  PROVE  InOrder(c)
  BY DEF Quiet, InOrder, Checked


\* Each step of an execution leaves it in order: the ones that begin a part of a
\* turn with the record they have just written,
LEMMA WritesInOrder ==
  ASSUME Facts, TurnInv, NEW c \in Calls, NEW ok \in BOOLEAN,
         \/ \E o \in Ops, p \in Payloads :
               p.version <= sup.grant[p.grant].version /\ Submit(c, o, p, ok)
         \/ \E o \in Ops : Resubmit(c, o)
         \/ MarkPending(c, ok)
         \/ MarkDispatching(c, ok)
  PROVE  InOrder(c)'
<1>1. call[c] \in CallRecords /\ Idle.pc = "idle" /\ Idle.run = "none"
      /\ (call[c] # Idle => call[c].op \in Ops)
  BY CallFields DEF Facts, Typed, Attached, Live
<1>2. call'[c] = Idle => InOrder(c)'
  BY <1>1 DEF InOrder, Checked
<1>3. \A o, p, pc : LET r == NewCall(o, p, pc) IN
         r.pc = pc /\ r.run = "none" /\ ~r.authorized /\ r.op = o /\ r.payload = p
  BY DEF NewCall, Idle
<1>4. ASSUME NEW o \in Ops, NEW p \in Payloads, p.version <= sup.grant[p.grant].version,
             Submit(c, o, p, ok)
      PROVE  InOrder(c)'
  <2>1. CASE ok
    <3>1. call'[c] = NewCall(o, p, "created") \/ call'[c] = Idle
      BY <1>4, <2>1, SlotMeans DEF Submit
    <3>2. Within(sup, p)
      BY <1>4 DEF Submit, Admitted, Authenticated, Valid, Granted, Within
    <3>3. PICK next : Inserted(journal, next, o, p) /\ J!Write(next, TRUE)
      BY <1>4, <2>1, <3>2, CreateInserts DEF Submit, Inserts, Facts, Typed
    <3>4. journal'.status[o] = "recorded"
      BY <3>3, WriteMeans DEF Inserted
    <3> QED BY <1>2, <1>3, <3>1, <3>4 DEF InOrder, Checked
  <2>2. CASE ~ok
    BY <1>1, <1>2, <1>4, <2>2, SlotMeans DEF Submit
  <2> QED BY <2>1, <2>2
<1>5. ASSUME NEW o \in Ops, Resubmit(c, o) PROVE InOrder(c)'
  <2>1. \/ journal.status[o] = "recorded" /\ SetCall(c, NewCall(o, journal.digest[o], "created"))
        \/ journal.status[o] = "pending" /\ SetCall(c, NewCall(o, journal.digest[o], "pending"))
    BY <1>5 DEF Resubmit
  <2>2. journal' = journal
    BY <1>5 DEF Resubmit, journalVars
  <2> QED BY <1>2, <1>3, <2>1, <2>2, SlotMeans DEF InOrder, Checked
<1>6. CASE MarkPending(c, ok)
  <2>1. SetCall(c, [call[c] EXCEPT !.pc = IF ok THEN "pending" ELSE "idle"])
    BY <1>6 DEF MarkPending
  <2>2. call[c].pc = "created" /\ call[c] # Idle
    BY <1>1, <1>6 DEF MarkPending
  <2>3. call[c].run = "none" /\ ~call[c].authorized
    BY <2>2 DEF TurnInv, InOrder
  <2>4. CASE ok
    <3>1. Relabels(call[c].op, "pending", TRUE) /\ "pending" \in J!Statuses
      BY <1>1, <1>6, <2>2, <2>4, MethodsRelabel DEF MarkPending, J!Statuses, J!Undispatched
    <3>2. journal'.status[call[c].op] = "pending"
      BY <1>1, <2>2, <3>1, RelabelledTo
    <3>3. call'[c] = [call[c] EXCEPT !.pc = "pending"]
      BY <1>1, <2>1, <2>4, SlotMeans DEF CallRecords
    <3>4. call'[c].pc = "pending" /\ call'[c].run = "none" /\ ~call'[c].authorized
          /\ call'[c].op = call[c].op
      BY <1>1, <2>3, <3>3 DEF CallRecords
    <3> QED BY <3>2, <3>4 DEF InOrder, Checked
  <2>5. CASE ~ok
    <3>1. call'[c] = [call[c] EXCEPT !.pc = "idle"] \/ call'[c] = Idle
      BY <2>1, <2>5, SlotMeans
    <3>2. call'[c].pc = "idle" /\ call'[c].run = "none"
      BY <1>1, <2>3, <3>1 DEF CallRecords
    <3> QED BY <3>2 DEF InOrder, Checked
  <2> QED BY <2>4, <2>5
<1>7. CASE MarkDispatching(c, ok)
  <2>1. Ready /\ call[c].run = "probed" /\ call[c] # Idle
    BY <1>1, <1>7 DEF MarkDispatching
  <2>2. ~InTurn(c) /\ ~call[c].authorized /\ call[c].pc \notin {"created", "pending", "unknown", "confirming"}
    BY <2>1 DEF Ready, TurnInv, InOrder, InTurn, Checked
  <2>3. CASE RunEnds(c, "error")
    <3>1. /\ call'[c].pc = call[c].pc /\ call'[c].run = "none"
          /\ call'[c] = Idle \/ call'[c].authorized = call[c].authorized
      BY <2>3, SlotMeans
    <3> QED BY <2>2, <3>1 DEF InOrder, Checked
  <2>4. CASE ~RunEnds(c, "error")
    <3>1. ok /\ J!MarkDispatching(call[c].op, ok) /\ SetCall(c, [call[c] EXCEPT !.run = "marked"])
      BY <1>7, <2>4 DEF MarkDispatching
    <3>2. Relabels(call[c].op, "dispatching", TRUE) /\ "dispatching" \in J!Statuses
      BY <1>1, <2>1, <3>1, MethodsRelabel DEF J!Statuses, J!Unresolved
    <3>3. journal'.status[call[c].op] = "dispatching" /\ journalDisk'.status[call[c].op] = "dispatching"
      BY <1>1, <2>1, <3>2, RelabelledTo
    <3>4. call'[c] = [call[c] EXCEPT !.run = "marked"]
      BY <1>1, <3>1, SlotMeans DEF CallRecords
    <3>5. /\ call'[c].pc = call[c].pc /\ call'[c].run = "marked" /\ ~call'[c].authorized
          /\ call'[c].op = call[c].op
      BY <1>1, <2>2, <3>4 DEF CallRecords
    <3> QED BY <2>2, <3>3, <3>5 DEF InOrder, Checked
  <2> QED BY <2>3, <2>4
<1> QED BY <1>4, <1>5, <1>6, <1>7


\* and the others quiet.
LEMMA QuietSteps ==
  ASSUME Facts, TurnInv, NEW c \in Calls, NEW ok \in BOOLEAN,
         \/ Refuse(c, ok) \/ Charge(c, ok) \/ FailUnauthorised(c, ok) \/ MarkDispatched(c, ok)
         \/ \E confirmed \in BOOLEAN : Confirm(c, confirmed, ok)
         \/ MarkUnknown(c, ok)
         \/ Dispatch(c) \/ StartRun(c)
         \/ \E draft \in BOOLEAN : FinishProbe(c, draft)
         \/ Act(c)
         \/ \E outcome \in {"ok", "error"} : FinishRun(c, outcome) \/ DropDispatch(c, outcome)
         \/ RejectDispatch(c) \/ StartUnknown(c)
  PROVE  Quiet(call'[c])
<1>1. call[c] \in CallRecords /\ Idle.pc = "idle" /\ Idle.run = "none"
  BY CallFields DEF Facts, Typed
<1>2. Quiet(Idle)
  BY <1>1 DEF Quiet, Checked
<1>3. InOrder(c) /\ (Ready => call[c].pc \notin {"created", "pending", "unknown"} /\ call[c].run # "marked")
  BY DEF TurnInv, Ready, InTurn
<1> DEFINE r == call[c]
           q == call'[c]
<1>4. \A x : SetCall(c, x) => q \in {x, Idle}
  BY SlotMeans
<1>5. \A outcome \in {"ok", "error"} : RunEnds(c, outcome) =>
         /\ q.pc = r.pc /\ q.run = "none"
         /\ q = Idle \/ q.authorized = r.authorized
  BY SlotMeans
<1>6. ASSUME NEW outcome \in {"ok", "error"}, RunEnds(c, outcome),
             r.pc \notin {"created", "pending"}
      PROVE  Quiet(q)
  BY <1>1, <1>2, <1>3, <1>5, <1>6 DEF Quiet, InOrder, Checked
<1>7. CASE Refuse(c, ok) \/ FailUnauthorised(c, ok)
  <2>1. q \in {[r EXCEPT !.pc = "idle"], Idle} /\ (r.pc = "pending" \/ (Ready /\ r.pc = "waiting"))
    BY <1>4, <1>7 DEF Refuse, FailUnauthorised, Answered
  <2>2. r.run # "marked" /\ (r.run \in Checked \cup {"queued"} => ~r.authorized)
    BY <1>3, <2>1 DEF InOrder, Checked
  <2> QED BY <1>1, <1>2, <2>1, <2>2 DEF Quiet, CallRecords, Checked
<1>8. CASE Charge(c, ok)
  <2>1. r.run = "marked" /\ r.pc \notin {"created", "pending", "unknown"}
        /\ (q \in {[r EXCEPT !.run = "acting", !.authorized = TRUE], Idle} \/ RunEnds(c, "error"))
    BY <1>3, <1>4, <1>8 DEF Charge, InOrder
  <2>2. Quiet([r EXCEPT !.run = "acting", !.authorized = TRUE])
    BY <1>1, <2>1 DEF Quiet, CallRecords, Checked
  <2> QED BY <1>2, <1>6, <2>1, <2>2
<1>9. CASE MarkDispatched(c, ok) \/ StartUnknown(c)
  <2>1. /\ q \in {[r EXCEPT !.pc = "confirming"], [r EXCEPT !.pc = "unknown"], Idle}
        /\ Ready /\ r.authorized
    BY <1>4, <1>9 DEF MarkDispatched, StartUnknown, Answered
  <2> QED BY <1>1, <1>2, <1>3, <2>1 DEF Quiet, InOrder, CallRecords, Checked
<1>10. CASE \E confirmed \in BOOLEAN : Confirm(c, confirmed, ok)
  <2>1. /\ q \in {[r EXCEPT !.pc = "idle"], [r EXCEPT !.pc = "unknown"], Idle}
        /\ Ready /\ r.pc = "confirming"
    BY <1>4, <1>10 DEF Confirm
  <2> QED BY <1>1, <1>2, <1>3, <2>1 DEF Quiet, InOrder, CallRecords, Checked
<1>11. CASE MarkUnknown(c, ok)
  <2>1. q \in {[r EXCEPT !.pc = "idle"], [r EXCEPT !.pc = "unknown"], Idle} /\ r.pc = "unknown"
    BY <1>4, <1>11 DEF MarkUnknown
  <2> QED BY <1>1, <1>2, <1>3, <2>1 DEF Quiet, InOrder, CallRecords, Checked
<1>12. CASE Dispatch(c)
  <2>1. q \in {[r EXCEPT !.pc = "waiting", !.run = "queued"], Idle} /\ r.pc = "pending"
    BY <1>4, <1>12 DEF Dispatch
  <2> QED BY <1>1, <1>2, <1>3, <2>1 DEF Quiet, InOrder, CallRecords, Checked
<1>13. CASE StartRun(c)
  <2>1. /\ q \in {[r EXCEPT !.run = "probing", !.seen = mode], Idle} \/ RunEnds(c, "error")
        /\ Ready /\ r.run = "queued"
    BY <1>4, <1>13 DEF StartRun
  <2>2. Quiet([r EXCEPT !.run = "probing", !.seen = mode])
    BY <1>1, <1>3, <2>1 DEF Quiet, InOrder, CallRecords, Checked
  <2> QED BY <1>2, <1>3, <1>6, <2>1, <2>2
<1>14. ASSUME NEW draft \in BOOLEAN, FinishProbe(c, draft) PROVE Quiet(q)
  <2>1. /\ q \in {[r EXCEPT !.run = "probed"], Idle} \/ RunEnds(c, "error")
        /\ Ready /\ r.run = "probing"
    BY <1>4, <1>14 DEF FinishProbe
  <2>2. Quiet([r EXCEPT !.run = "probed"])
    BY <1>1, <1>3, <2>1 DEF Quiet, InOrder, CallRecords, Checked
  <2> QED BY <1>2, <1>3, <1>6, <2>1, <2>2
<1>15. CASE Act(c)
  <2>1. q \in {[r EXCEPT !.run = "acted"], Idle} /\ Ready
    BY <1>4, <1>15 DEF Act
  <2> QED BY <1>1, <1>2, <1>3, <2>1 DEF Quiet, InOrder, CallRecords, Checked
<1>16. ASSUME NEW outcome \in {"ok", "error"}, FinishRun(c, outcome) \/ DropDispatch(c, outcome)
       PROVE  Quiet(q)
  BY <1>3, <1>6, <1>16 DEF FinishRun, DropDispatch
<1>17. CASE RejectDispatch(c)
  <2>1. q \in {[r EXCEPT !.outcome = "error"], Idle} /\ Ready
    BY <1>4, <1>17 DEF RejectDispatch
  <2> QED BY <1>1, <1>2, <1>3, <2>1 DEF Quiet, InOrder, CallRecords, Checked
<1> QED BY <1>7, <1>8, <1>9, <1>10, <1>11, <1>12, <1>13, <1>14, <1>15, <1>16, <1>17

\* Turns stay one at a time and in order.
LEMMA TurnInvKept ==
  ASSUME Facts, TurnInv, ScopedNext
  PROVE  TurnInv'
<1>1. ASSUME \A c \in Calls : call'[c] = Idle PROVE TurnInv'
  BY <1>1 DEF TurnInv, InOrder, InTurn, Idle, Checked
<1>2. CASE Crash
  BY <1>1, <1>2 DEF Crash
<1>3. ASSUME NEW ok \in BOOLEAN, Restart(ok) PROVE TurnInv'
  <2>1. ~Serving /\ call' = call
    BY <1>3 DEF Restart, Serving, SupRestart, J!JournalRestart
  <2> QED BY <1>1, <2>1 DEF Facts, Attached, Live
<1>4. ASSUME NEW c \in Calls, CallStep(c) PROVE TurnInv'
  <2>1. owner' = owner /\ owner.step = "none" /\ \A d \in Calls \ {c} : ~InTurn(d)
    BY <1>4, CallTurn, CallLeaves DEF TurnInv, Ready
  <2>2. \A d \in Calls \ {c} : call'[d] = call[d] /\ ~InTurn(d)'
    BY <1>4, <2>1, CallSets DEF InTurn
  <2>3. InOrder(c)'
    <3>1. Quiet(call'[c]) => InOrder(c)'
      BY DEF Quiet, InOrder, Checked
    <3>2. \A ok \in BOOLEAN, confirmed \in BOOLEAN : Confirm(c, confirmed, ok) => Quiet(call'[c])
      BY QuietSteps
    <3>3. \A outcome \in {"ok", "error"} : FinishRun(c, outcome) \/ DropDispatch(c, outcome) => Quiet(call'[c])
      BY QuietSteps
    <3>4. \A draft \in BOOLEAN : FinishProbe(c, draft) => Quiet(call'[c])
      BY QuietSteps
    <3>5. ASSUME NEW ok \in BOOLEAN,
                 \/ Refuse(c, ok) \/ Charge(c, ok) \/ FailUnauthorised(c, ok) \/ MarkDispatched(c, ok)
                 \/ MarkUnknown(c, ok)
          PROVE  Quiet(call'[c])
      BY <3>5, QuietSteps
    <3>6. Dispatch(c) \/ StartRun(c) \/ Act(c) \/ RejectDispatch(c) \/ StartUnknown(c) => Quiet(call'[c])
      BY QuietSteps
    <3>7. ASSUME NEW ok \in BOOLEAN, MarkPending(c, ok) \/ MarkDispatching(c, ok) PROVE InOrder(c)'
      BY <3>7, WritesInOrder
    <3>8. ASSUME NEW o \in Ops, Resubmit(c, o) PROVE InOrder(c)'
      BY <3>8, WritesInOrder
    <3>9. ASSUME NEW ok \in BOOLEAN, NEW o \in Ops, NEW p \in Payloads,
                 p.version <= sup.grant[p.grant].version, Submit(c, o, p, ok)
          PROVE  InOrder(c)'
      BY <3>9, WritesInOrder
    <3> QED BY <1>4, <3>1, <3>2, <3>3, <3>4, <3>5, <3>6, <3>7, <3>8, <3>9 DEF CallStep
  <2>4. \A d \in Calls \ {c} : InOrder(d)'
    <3>1. ASSUME NEW d \in Calls \ {c} PROVE InOrder(d)'
      <4>1. InOrder(d) /\ ~InTurn(d) /\ call'[d] = call[d]
        BY <2>1, <2>2 DEF TurnInv
      <4> QED BY <4>1 DEF InOrder, InTurn
    <3> QED BY <3>1
  <2> QED BY <2>1, <2>2, <2>3, <2>4 DEF TurnInv
<1>5. CASE OwnerStep \/ Extract \/ TimePasses
  <2>1. \A c \in Calls :
            /\ InOrder(c) /\ ~InTurn(c)
            /\ call'[c].pc = call[c].pc /\ call'[c].run = call[c].run /\ call'[c].op = call[c].op
            /\ call'[c].authorized = call[c].authorized
    BY <1>5, OthersKeep DEF TurnInv
  <2>2. \A c \in Calls : InOrder(c)' /\ ~InTurn(c)'
    BY <2>1 DEF InOrder, InTurn
  <2> QED BY <2>2 DEF TurnInv
<1> QED BY <1>2, <1>3, <1>4, <1>5 DEF ScopedNext

\* Whatever happened to the grant while the request waited, a mutation is authorised
\* only while the grant permits it, and after the file says that it is dispatching:
\* beforeDispatch checks the scope, awaits, and then relies on the control version
\* and on the journal alone.
THEOREM AuthorisedOnlyUnderPolicy == ScopedSpec => AuthorisedUnderPolicy
<1> DEFINE Inv == Facts /\ Placed /\ PolicyInv /\ TurnInv
<1>1. ScopedInit => Inv
  <2> SUFFICES ASSUME ScopedInit PROVE Inv
    OBVIOUS
  <2>1. Facts /\ Placed /\ \A c \in Calls : call[c] = Idle
    BY ScopedStart
  <2> QED BY <2>1 DEF PolicyInv, Live, TurnInv, InOrder, InTurn, Idle, Checked
<1>2. Inv /\ [ScopedNext]_scopedVars => Inv'
  <2>1. UNCHANGED scopedVars => (TurnInv => TurnInv')
    BY DEF scopedVars, journalVars, TurnInv, InOrder, InTurn
  <2> QED BY <2>1, FactsKept, PlacedKept, PolicyInvKept, TurnInvKept, ScopedStutter
<1>3. Inv /\ ScopedNext =>
         \A c \in Calls : Authorises(c) =>
            LET p == call[c].payload IN
            /\ MayWrite(sup, p.grant, p.version, p.issue # NoIssue)
            /\ journalDisk.status[call[c].op] = "dispatching"
  <2> SUFFICES ASSUME Inv, ScopedNext, NEW c \in Calls, Authorises(c)
               PROVE  LET p == call[c].payload IN
                      /\ MayWrite(sup, p.grant, p.version, p.issue # NoIssue)
                      /\ journalDisk.status[call[c].op] = "dispatching"
    OBVIOUS
  <2>1. Live(c) /\ call[c].run = "marked" /\ Chargeable(call[c].payload) /\ ~call[c].authorized
    BY AuthorisedMeans DEF Authorises
  <2>2. journalDisk.status[call[c].op] = "dispatching"
    BY <2>1 DEF TurnInv, InOrder
  <2>3. LET p == call[c].payload IN MayWrite(sup, p.grant, p.version, p.issue # NoIssue)
    BY <2>1 DEF PolicyInv, Chargeable, Checked, MayWrite
  <2> QED BY <2>2, <2>3
<1> HIDE DEF Inv
<1> QED BY <1>1, <1>2, <1>3, PTL DEF ScopedSpec, AuthorisedUnderPolicy


--------------------------------------------------------------------------------
(* Mutations and charges.                                                  *)

\* The mutations made and the ones about to be made.
Entry(c)      == [op |-> call[c].op, payload |-> call[c].payload]
Acting        == {c \in Calls : call[c].run = "acting"}
Expended      == acts \cup {Entry(c) : c \in Acting}
ExpendedOn(g) == {a \in Expended : a.payload.grant = g}

\* The version has been rotated away, in the file too; the grant has been charged
\* with so many operations.
Past(g, v) == v < supDisk.grant[g].version /\ (supUp => v < sup.grant[g].version)
Paid(g, n) == n <= supDisk.grant[g].used /\ (supUp => n <= sup.grant[g].used)

SpendInv ==
    /\ acts \subseteq [op : Ops, payload : Payloads]
    /\ \A a \in Expended : Past(a.payload.grant, a.payload.version)
    /\ \A c \in Acting : Entry(c) \notin acts /\ \A d \in Acting \ {c} : Entry(d) # Entry(c)
    /\ \A g \in Grants : IsFiniteSet(ExpendedOn(g)) /\ Paid(g, Cardinality(ExpendedOn(g)))

\* What a grant has paid stays paid and a version stays past, over failed writes,
\* crashes and starts.
LEMMA PaidStays ==
  ASSUME ~UnlinkFallback, SupInv, StoreStep, NEW g \in Grants
  PROVE  /\ \A n \in Nat : Paid(g, n) => Paid(g, n)'
         /\ \A v \in Nat : Past(g, v) => Past(g, v)'
<1> DEFINE old(s) == s.grant[g]
<1>1. /\ old(sup).used \in Nat /\ old(sup).version \in Nat
      /\ old(supDisk).used \in Nat /\ old(supDisk).version \in Nat
  BY GrantTyped DEF SupInv, GrantRecords
<1>2. CASE CommitsGrown
  <2>1. PICK next \in SupStores, ok \in BOOLEAN : Sound(next) /\ SupCommit(next, ok)
    BY <1>2 DEF CommitsGrown
  <2>2. /\ supUp /\ supUp'
        /\ \/ sup' = next /\ supDisk' = next
           \/ sup' = sup /\ supDisk' \in {supDisk, next}
    BY <1>2, <2>1, CommitLeaves DEF CommitsGrown
  <2>3. /\ next.grant[g].version \in Nat /\ sup.grant[g].version <= next.grant[g].version
        /\ next.grant[g].used \in Nat /\ sup.grant[g].used <= next.grant[g].used
    BY <2>1, GrantTyped DEF Sound, Evolves, Advances, Grows, GrantRecords
  <2> QED BY <1>1, <2>2, <2>3 DEF Paid, Past
<1>3. CASE Tick \/ UNCHANGED supVars
  BY <1>3 DEF Tick, supVars, Paid, Past
<1>4. CASE SupCrash
  BY <1>4 DEF SupCrash, Paid, Past
<1>5. CASE SupRestart
  <2> DEFINE next == RecoverGrants(supDisk)
  <2>1. /\ Sane(next)
        /\ supDisk.grant[g].used <= next.grant[g].used
        /\ IF supDisk.grant[g].status = "active" THEN supDisk.grant[g].version < next.grant[g].version
                                                 ELSE next.grant[g] = supDisk.grant[g]
    BY RecoverSane, RecoverLeaves DEF SupInv, Grows
  <2>2. next.grant[g].used \in Nat /\ next.grant[g].version \in Nat
    BY <2>1, GrantTyped DEF GrantRecords
  <2>3. supDisk.grant[g].version <= next.grant[g].version
    BY <1>1, <2>1, <2>2
  <2>4. \/ sup' = next /\ supDisk' = next
        \/ ~supUp' /\ supDisk' \in {supDisk, next}
    BY <1>5 DEF SupRestart, SupCommitFails, FileAfterFailure
  <2> HIDE DEF next
  <2> QED BY <1>1, <2>1, <2>2, <2>3, <2>4 DEF Paid, Past
<1> QED BY <1>2, <1>3, <1>4, <1>5 DEF StoreStep

\* The charge that authorises a mutation is one operation more for its grant, and a
\* version more, in memory and in the file.
LEMMA ChargePays ==
  ASSUME Facts, NEW p \in Payloads, Chargeable(p), ChargeTo(p, TRUE)
  PROVE  /\ supUp' /\ sup' = supDisk'
         /\ sup'.grant[p.grant].used = sup.grant[p.grant].used + 1
         /\ sup'.grant[p.grant].version = sup.grant[p.grant].version + 1
         /\ p.version = sup.grant[p.grant].version
         /\ p.version \in Nat /\ p.grant \in Grants
<1> DEFINE g == p.grant
<1>1. g \in Grants /\ p.version \in Nat /\ p.version = sup.grant[g].version
  BY SupervisionAssumption DEF Payloads, Chargeable
<1>2. sup \in SupStores /\ sup.grant[g] \in GrantRecords
  BY <1>1, GrantTyped DEF Facts, SupInv, Sane
<1>3. CASE RecordOperation(p.grant, sup.grant[p.grant].version, TRUE)
  <2> DEFINE gr == [sup.grant[g] EXCEPT !.used = @ + 1]
             next == [sup EXCEPT !.grant[g] = Rotate(gr)]
  <2>1. supUp /\ SupCommit(next, TRUE)
    BY <1>3 DEF RecordOperation, SetGrant
  <2>2. gr.version = sup.grant[g].version /\ gr.used = sup.grant[g].used + 1 /\ gr \in GrantRecords
    BY <1>2 DEF GrantRecords
  <2> HIDE DEF gr
  <2>3. Rotate(gr).version = sup.grant[g].version + 1 /\ Rotate(gr).used = sup.grant[g].used + 1
    BY <2>2 DEF Rotate, GrantRecords
  <2>4. next.grant[g] = Rotate(gr)
    BY <1>1, <1>2 DEF SupStores
  <2> HIDE DEF next
  <2>5. sup' = next /\ supDisk' = next /\ supUp'
    BY <2>1 DEF SupCommit, SupCommits
  <2> QED BY <1>1, <2>3, <2>4, <2>5
<1>4. ASSUME NEW i \in Issues, p.issue = i, ConsumeIssuePermit(i, TRUE, TRUE)
      PROVE  /\ supUp' /\ sup' = supDisk'
             /\ sup'.grant[g].used = sup.grant[g].used + 1
             /\ sup'.grant[g].version = sup.grant[g].version + 1
  <2>1. sup.permit[i].grant = g
    BY <1>4, ScopedAssumption DEF Chargeable
  <2> DEFINE lift == PendingPermits(sup, g) = {i} /\ "pending_issue" \in sup.grant[g].pauses
             pauses == IF lift THEN sup.grant[g].pauses \ {"pending_issue"} ELSE sup.grant[g].pauses
             used == sup.grant[g].used + 1
             gr == [sup.grant[g] EXCEPT !.pauses = pauses, !.used = used]
             spent == [sup.permit[i] EXCEPT !.status = "consumed"]
             next == [sup EXCEPT !.permit[i] = spent, !.grant[g] = Rotate(gr)]
  <2>2. supUp /\ SupCommit(Consume(sup, i, TRUE), TRUE)
    BY <1>4 DEF ConsumeIssuePermit
  <2>3. Consume(sup, i, TRUE) = next
    BY <2>1 DEF Consume
  <2>4. pauses \in SUBSET PauseReasons /\ used \in Nat /\ sup.grant[g].version \in Nat
    BY <1>2 DEF GrantRecords
  <2> HIDE DEF pauses, used
  <2>5. gr.version = sup.grant[g].version /\ gr.used = used /\ gr \in GrantRecords
    BY <1>2, <2>4 DEF GrantRecords
  <2> HIDE DEF gr
  <2>6. Rotate(gr).version = sup.grant[g].version + 1 /\ Rotate(gr).used = used
    BY <2>5 DEF Rotate, GrantRecords
  <2> HIDE DEF spent
  <2>7. next.grant[g] = Rotate(gr)
    BY <1>1, <1>2 DEF SupStores
  <2> HIDE DEF next
  <2>8. sup' = next /\ supDisk' = next /\ supUp'
    BY <2>2, <2>3 DEF SupCommit, SupCommits
  <2> QED BY <2>6, <2>7, <2>8 DEF used
<1> QED BY <1>1, <1>3, <1>4 DEF ChargeTo


\* While a run is marked, its execution does nothing but charge.
LEMMA MarkedCharges ==
  ASSUME TurnInv, NEW c \in Calls, call[c].run = "marked", CallStep(c)
  PROVE  \E ok \in BOOLEAN : Charge(c, ok)
<1>1. ~Ready /\ call[c].pc \notin {"created", "pending", "unknown"} /\ Idle.run = "none"
  BY DEF Ready, InTurn, TurnInv, InOrder, Idle
<1>2. \A ok \in BOOLEAN :
        /\ \A o \in Ops, p \in Payloads : ~Submit(c, o, p, ok)
        /\ ~MarkPending(c, ok) /\ ~Refuse(c, ok) /\ ~MarkDispatching(c, ok)
        /\ ~FailUnauthorised(c, ok) /\ ~MarkDispatched(c, ok)
        /\ \A confirmed \in BOOLEAN : ~Confirm(c, confirmed, ok)
        /\ ~MarkUnknown(c, ok)
  BY <1>1 DEF Submit, Admitted, MarkPending, Refuse, MarkDispatching, FailUnauthorised, MarkDispatched,
              Confirm, MarkUnknown, Answered
<1>3. /\ \A o \in Ops : ~Resubmit(c, o)
      /\ ~Dispatch(c) /\ ~StartRun(c) /\ ~Act(c) /\ ~RejectDispatch(c) /\ ~StartUnknown(c)
      /\ \A draft \in BOOLEAN : ~FinishProbe(c, draft)
      /\ \A outcome \in {"ok", "error"} : ~FinishRun(c, outcome) /\ ~DropDispatch(c, outcome)
  BY <1>1 DEF Resubmit, Admitted, Dispatch, StartRun, FinishProbe, Act, FinishRun, DropDispatch,
              RejectDispatch, StartUnknown, Answered
<1> QED BY <1>2, <1>3 DEF CallStep

\* Only the mutation itself is a mutation.
LEMMA OnlyActActs ==
  ASSUME ScopedNext
  PROVE  acts' = acts \/ \E c \in Calls : Act(c)
<1>1. ASSUME NEW c \in Calls, CallStep(c) PROVE acts' = acts \/ Act(c)
  <2>1. \A ok \in BOOLEAN :
          /\ \A o \in Ops, p \in Payloads : Submit(c, o, p, ok) => acts' = acts
          /\ MarkPending(c, ok) => acts' = acts
          /\ Refuse(c, ok) => acts' = acts
          /\ MarkDispatching(c, ok) => acts' = acts
          /\ Charge(c, ok) => acts' = acts
          /\ FailUnauthorised(c, ok) => acts' = acts
          /\ MarkDispatched(c, ok) => acts' = acts
          /\ \A confirmed \in BOOLEAN : Confirm(c, confirmed, ok) => acts' = acts
          /\ MarkUnknown(c, ok) => acts' = acts
    BY DEF Submit, MarkPending, Refuse, MarkDispatching, Charge, FailUnauthorised, MarkDispatched, Confirm,
           MarkUnknown, history
  <2>2. /\ \A o \in Ops : Resubmit(c, o) => acts' = acts
        /\ Dispatch(c) => acts' = acts
        /\ StartRun(c) => acts' = acts
        /\ \A draft \in BOOLEAN : FinishProbe(c, draft) => acts' = acts
        /\ \A outcome \in {"ok", "error"} : FinishRun(c, outcome) \/ DropDispatch(c, outcome) => acts' = acts
        /\ RejectDispatch(c) => acts' = acts
        /\ StartUnknown(c) => acts' = acts
    BY DEF Resubmit, Dispatch, StartRun, FinishProbe, FinishRun, DropDispatch, RejectDispatch,
           StartUnknown, history
  <2> QED BY <1>1, <2>1, <2>2 DEF CallStep
<1>2. CASE OwnerStep
  <2>1. \A ok \in BOOLEAN :
          /\ \A o \in Ops : CancelForTakeover(o, ok) => acts' = acts
          /\ PauseForTakeover(ok) => acts' = acts
          /\ \A g \in Grants : PauseOneForTakeover(g, ok) => acts' = acts
          /\ \A g \in Grants : ResumeSupervision(g, ok) \/ ResumeAfterRestart(g, ok) => acts' = acts
    BY DEF CancelForTakeover, PauseForTakeover, PauseOneForTakeover, ResumeSupervision,
           ResumeAfterRestart, history
  <2>2. /\ \A w \in Workspaces \cup {NoWorkspace} : StartTakeover(w) => acts' = acts
        /\ AllPaused \/ EndTakeover \/ ManageGrants => acts' = acts
    BY DEF StartTakeover, AllPaused, EndTakeover, ManageGrants, history
  <2> QED BY <1>2, <2>1, <2>2 DEF OwnerStep
<1>3. Extract \/ TimePasses \/ Crash \/ (\E ok \in BOOLEAN : Restart(ok)) => acts' = acts
  BY DEF Extract, TimePasses, Crash, Restart, history
<1> QED BY <1>1, <1>2, <1>3 DEF ScopedNext

\* No new mutation is about to be made.
NoneArmed ==
    /\ acts' = acts
    /\ \A c \in Calls : call'[c].run = "acting" =>
          /\ call[c].run = "acting"
          /\ call'[c].op = call[c].op /\ call'[c].payload = call[c].payload

\* One is, and it has just been charged.
Armed(c) ==
    /\ acts' = acts /\ Live(c)
    /\ Chargeable(call[c].payload) /\ ChargeTo(call[c].payload, TRUE)
    /\ call[c].run = "marked" /\ call'[c].run = "acting"
    /\ call'[c].op = call[c].op /\ call'[c].payload = call[c].payload
    /\ \A d \in Calls \ {c} : call'[d] = call[d]

\* A step makes a mutation, charges for one, or neither.
LEMMA ArmedSteps ==
  ASSUME Facts, Placed, TurnInv, ScopedNext
  PROVE  NoneArmed \/ (\E c \in Calls : Armed(c)) \/ \E c \in Calls : Act(c)
<1> SUFFICES ASSUME \A c \in Calls : ~Act(c), \A c \in Calls : ~Armed(c) PROVE NoneArmed
  OBVIOUS
<1>1. acts' = acts /\ AllMove
  BY OnlyActActs, ScopedMoves
<1>2. ASSUME NEW c \in Calls, call'[c].run = "acting"
      PROVE  /\ call[c].run = "acting"
             /\ call'[c].op = call[c].op /\ call'[c].payload = call[c].payload
  <2>1. CASE call'[c] = call[c]
    BY <1>2, <2>1
  <2>2. CASE call'[c] # call[c]
    <3>1. Goes(c)
      BY <1>1, <1>2, <2>2 DEF AllMove, Moves, Born, Idle
    <3>2. call[c].run # "marked"
      <4> SUFFICES ASSUME call[c].run = "marked" PROVE FALSE
        OBVIOUS
      <4>1. Live(c)
        BY <3>1 DEF Goes, Live
      <4>2. \E d \in Calls : CallStep(d)
        <5>1. CASE OwnerStep \/ Extract \/ TimePasses
          BY <5>1, OthersKeep DEF InTurn
        <5>2. ~Crash
          BY <1>2 DEF Crash, Idle
        <5>3. ~ \E ok \in BOOLEAN : Restart(ok)
          BY <2>2 DEF Restart
        <5> QED BY <5>1, <5>2, <5>3 DEF ScopedNext
      <4>3. CallStep(c)
        BY <2>2, <4>2, CallSets
      <4>4. PICK ok \in BOOLEAN : Charge(c, ok)
        BY <4>3, MarkedCharges
      <4>5. ~RunEnds(c, "error")
        BY <1>2, SlotMeans
      <4>6. ok /\ Chargeable(call[c].payload) /\ ChargeTo(call[c].payload, TRUE)
        BY <4>4, <4>5 DEF Charge
      <4>7. Armed(c)
        BY <1>1, <1>2, <3>1, <4>1, <4>3, <4>6, CallSets DEF Armed, Goes
      <4> QED BY <4>7
    <3> QED BY <1>2, <3>1, <3>2 DEF Goes
  <2> QED BY <2>1, <2>2
<1> QED BY <1>1, <1>2 DEF NoneArmed


\* What has been spent was spent by someone, for a payload.
LEMMA SpentTyped ==
  ASSUME Facts, SpendInv
  PROVE  /\ \A a \in Expended : a.payload \in Payloads /\ a.payload.grant \in Grants /\ a.payload.version \in Nat
         /\ \A c \in Acting : Live(c) /\ Entry(c) \in Expended /\ Entry(c) \in [op : Ops, payload : Payloads]
<1>1. \A p \in Payloads : p.grant \in Grants /\ p.version \in Nat
  BY SupervisionAssumption DEF Payloads
<1>2. \A c \in Acting : Live(c) /\ call[c].op \in Ops /\ call[c].payload \in Payloads
  BY DEF Acting, Live, Idle, Facts, Attached
<1>3. \A c \in Acting : Entry(c) \in Expended /\ Entry(c) \in [op : Ops, payload : Payloads]
  BY <1>2 DEF Entry, Expended
<1>4. \A a \in Expended : a.payload \in Payloads
  BY <1>3 DEF Expended, SpendInv
<1> QED BY <1>1, <1>2, <1>3, <1>4

\* With no mutation armed, what is paid and past stays enough.
LEMMA SpendUnarmed ==
  ASSUME ~UnlinkFallback, Facts, SpendInv, StoreStep, NoneArmed
  PROVE  SpendInv'
<1>1. /\ Acting' \subseteq Acting
      /\ \A c \in Acting' : Entry(c)' = Entry(c)
  BY DEF NoneArmed, Acting, Entry
<1>2. Expended' \subseteq Expended /\ acts' = acts
  BY <1>1 DEF NoneArmed, Expended
<1>3. \A a \in Expended' : Past(a.payload.grant, a.payload.version)'
  <2>1. ASSUME NEW a \in Expended' PROVE Past(a.payload.grant, a.payload.version)'
    <3>1. /\ a.payload.grant \in Grants /\ a.payload.version \in Nat
          /\ Past(a.payload.grant, a.payload.version)
      BY <1>2, SpentTyped DEF SpendInv
    <3> QED BY <3>1, PaidStays DEF Facts
  <2> QED BY <2>1
<1>4. \A c \in Acting' : Entry(c)' \notin acts' /\ \A d \in Acting' \ {c} : Entry(d)' # Entry(c)'
  BY <1>1, <1>2 DEF SpendInv
<1>5. ASSUME NEW g \in Grants PROVE IsFiniteSet(ExpendedOn(g)') /\ Paid(g, Cardinality(ExpendedOn(g)))'
  <2> DEFINE s == ExpendedOn(g)
             t == ExpendedOn(g)'
  <2>1. t \subseteq s /\ IsFiniteSet(s) /\ Paid(g, Cardinality(s))
    BY <1>2 DEF ExpendedOn, SpendInv
  <2> HIDE DEF s, t
  <2>2. IsFiniteSet(t) /\ Cardinality(t) <= Cardinality(s) /\ Cardinality(t) \in Nat /\ Cardinality(s) \in Nat
    BY <2>1, FS_Subset, FS_CardinalityType
  <2>3. Cardinality(s) <= supDisk'.grant[g].used /\ (supUp' => Cardinality(s) <= sup'.grant[g].used)
    BY <2>1, <2>2, PaidStays DEF Facts, Paid
  <2>4. supDisk'.grant[g].used \in Nat /\ sup'.grant[g].used \in Nat
    <3>1. SupInv'
      BY SupInvKept DEF Facts
    <3> QED BY <3>1, GrantTyped DEF SupInv, GrantRecords
  <2>5. Cardinality(t) <= supDisk'.grant[g].used /\ (supUp' => Cardinality(t) <= sup'.grant[g].used)
    BY <2>2, <2>3, <2>4
  <2> QED BY <2>2, <2>5 DEF Paid, t
<1> QED BY <1>2, <1>3, <1>4, <1>5 DEF SpendInv

\* A charge pays for the one it arms.
LEMMA SpendArmed ==
  ASSUME ~UnlinkFallback, Facts, SpendInv, StoreStep, NEW c \in Calls, Armed(c)
  PROVE  SpendInv'
<1> DEFINE g == call[c].payload.grant
           v == call[c].payload.version
           e == Entry(c)
<1>1. call[c].payload \in Payloads /\ call[c].op \in Ops /\ supUp /\ c \notin Acting
  BY DEF Armed, Facts, Attached, Serving, Acting
<1>2. /\ supUp' /\ sup' = supDisk'
      /\ sup'.grant[g].used = sup.grant[g].used + 1
      /\ sup'.grant[g].version = sup.grant[g].version + 1
      /\ v = sup.grant[g].version /\ v \in Nat /\ g \in Grants
  BY <1>1, ChargePays DEF Armed
<1>3. /\ Acting' = Acting \cup {c} /\ acts' = acts
      /\ e.payload.grant = g /\ e.payload.version = v
      /\ \A d \in Acting \cup {c} : Entry(d)' = Entry(d)
  BY DEF Armed, Acting, Entry
<1>4. Expended' = Expended \cup {e}
  BY <1>3 DEF Expended
<1>5. e \notin Expended
  <2> SUFFICES ASSUME e \in Expended PROVE FALSE
    OBVIOUS
  <2>1. v < sup.grant[g].version
    BY <1>1, <1>3 DEF SpendInv, Past
  <2> QED BY <1>2, <2>1
<1>6. e \notin acts /\ \A d \in Acting : Entry(d) # e
  BY <1>5 DEF Expended
<1> HIDE DEF e
<1>7. \A a \in Expended' : Past(a.payload.grant, a.payload.version)'
  <2>1. ASSUME NEW a \in Expended PROVE Past(a.payload.grant, a.payload.version)'
    <3>1. /\ a.payload.grant \in Grants /\ a.payload.version \in Nat
          /\ Past(a.payload.grant, a.payload.version)
      BY SpentTyped DEF SpendInv
    <3> QED BY <3>1, PaidStays DEF Facts
  <2>2. ASSUME NEW a, a = e PROVE Past(a.payload.grant, a.payload.version)'
    <3>1. a.payload.grant = g /\ a.payload.version = v
      BY <1>3, <2>2
    <3> HIDE DEF g, v
    <3>2. v < sup'.grant[g].version /\ supDisk' = sup'
      BY <1>2, GrantTyped DEF Facts, SupInv, GrantRecords
    <3> QED BY <3>1, <3>2 DEF Past
  <2> QED BY <1>4, <2>1, <2>2
<1>8. \A d \in Acting' : Entry(d)' \notin acts' /\ \A b \in Acting' \ {d} : Entry(b)' # Entry(d)'
  BY <1>3, <1>6 DEF SpendInv, e
<1>9. ASSUME NEW h \in Grants PROVE IsFiniteSet(ExpendedOn(h)') /\ Paid(h, Cardinality(ExpendedOn(h)))'
  <2> DEFINE s == ExpendedOn(h)
             t == ExpendedOn(h)'
  <2>1. t = (IF h = g THEN s \cup {e} ELSE s) /\ IsFiniteSet(s) /\ Paid(h, Cardinality(s))
    BY <1>3, <1>4 DEF ExpendedOn, SpendInv
  <2>2. e \notin s
    BY <1>5 DEF ExpendedOn
  <2> HIDE DEF s, t
  <2>3. /\ IsFiniteSet(t) /\ Cardinality(s) \in Nat
        /\ Cardinality(t) = IF h = g THEN Cardinality(s) + 1 ELSE Cardinality(s)
    BY <2>1, <2>2, FS_AddElement, FS_CardinalityType
  <2>4. CASE h = g
    <3>1. Cardinality(s) <= sup.grant[g].used /\ sup.grant[g].used \in Nat
      BY <1>1, <1>2, <2>1, <2>4, GrantTyped DEF Paid, Facts, SupInv, GrantRecords
    <3>2. Cardinality(t) <= sup'.grant[h].used
      BY <1>2, <2>3, <2>4, <3>1
    <3> QED BY <1>2, <2>3, <3>2 DEF Paid, t
  <2>5. CASE h # g
    <3>1. Cardinality(s) <= supDisk'.grant[h].used /\ (supUp' => Cardinality(s) <= sup'.grant[h].used)
      BY <2>1, <2>3, PaidStays DEF Facts, Paid
    <3> QED BY <2>3, <2>5, <3>1 DEF Paid, t
  <2> QED BY <2>4, <2>5
<1> QED BY <1>3, <1>7, <1>8, <1>9 DEF SpendInv

\* The mutation moves from the ones about to be made to the ones made.
LEMMA SpendActed ==
  ASSUME Facts, SpendInv, NEW c \in Calls, Act(c)
  PROVE  SpendInv'
<1>1. /\ call[c].run = "acting" /\ acts' = acts \cup {Entry(c)} /\ UNCHANGED supVars
      /\ SetCall(c, [call[c] EXCEPT !.run = "acted"])
  BY DEF Act, Entry
<1>2. c \in Acting /\ Acting' = Acting \ {c} /\ \A d \in Acting' : call'[d] = call[d]
  <2>1. call'[c].run # "acting"
    <3>1. call'[c] = [call[c] EXCEPT !.run = "acted"] \/ call'[c] = Idle
      BY <1>1, SlotMeans
    <3>2. call[c] \in CallRecords /\ Idle.run = "none"
      BY CallFields DEF Facts, Typed
    <3>3. [call[c] EXCEPT !.run = "acted"].run = "acted"
      BY <3>2 DEF CallRecords
    <3> QED BY <3>1, <3>2, <3>3
  <2>2. \A d \in Calls \ {c} : call'[d] = call[d]
    BY <1>1 DEF SetCall, Facts, Typed
  <2> QED BY <1>1, <2>1, <2>2 DEF Acting
<1>3. \A d \in Acting' : Entry(d)' = Entry(d)
  BY <1>2 DEF Entry
<1>4. Expended' = Expended
  BY <1>1, <1>2, <1>3 DEF Expended
<1>5. acts' \subseteq [op : Ops, payload : Payloads]
  BY <1>1, <1>2, SpentTyped DEF SpendInv
<1>6. \A d \in Acting' : Entry(d)' \notin acts' /\ \A b \in Acting' \ {d} : Entry(b)' # Entry(d)'
  BY <1>1, <1>2, <1>3 DEF SpendInv
<1>7. \A a \in Expended' : Past(a.payload.grant, a.payload.version)'
  BY <1>1, <1>4 DEF SpendInv, Past, supVars
<1>8. \A g \in Grants : IsFiniteSet(ExpendedOn(g)') /\ Paid(g, Cardinality(ExpendedOn(g)))'
  BY <1>1, <1>4 DEF SpendInv, ExpendedOn, Paid, supVars
<1> QED BY <1>5, <1>6, <1>7, <1>8 DEF SpendInv


\* The bookkeeping holds from the start, where rename replaces the file.
LEMMA SpendHolds ==
  ASSUME ~UnlinkFallback
  PROVE  ScopedSpec => [](Facts /\ Placed /\ TurnInv /\ SpendInv)
<1> DEFINE Inv == Facts /\ Placed /\ TurnInv /\ SpendInv
<1>1. ScopedInit => Inv
  <2> SUFFICES ASSUME ScopedInit PROVE Inv
    OBVIOUS
  <2>1. Facts /\ Placed /\ \A c \in Calls : call[c] = Idle
    BY ScopedStart
  <2>2. TurnInv
    BY <2>1 DEF TurnInv, InOrder, InTurn, Idle, Checked
  <2>3. acts = {} /\ Acting = {} /\ sup = EmptySup /\ supDisk = EmptySup
    BY <2>1 DEF ScopedInit, SupInit, Acting, Idle
  <2>4. Expended = {} /\ \A g \in Grants : ExpendedOn(g) = {}
    BY <2>3 DEF Expended, ExpendedOn
  <2>5. \A g \in Grants : Paid(g, 0)
    BY <2>3 DEF Paid, EmptySup, NoGrantRecord
  <2> QED BY <2>1, <2>2, <2>3, <2>4, <2>5, FS_EmptySet DEF SpendInv
<1>2. Inv /\ [ScopedNext]_scopedVars => Inv'
  <2>1. ASSUME Inv, ScopedNext PROVE Inv'
    <3>1. Facts' /\ Placed' /\ TurnInv'
      BY <2>1, FactsKept, PlacedKept, TurnInvKept
    <3>2. StoreStep
      BY <2>1, ScopedStores
    <3>3. SpendInv'
      BY <2>1, <3>2, ArmedSteps, SpendUnarmed, SpendArmed, SpendActed
    <3> QED BY <3>1, <3>3
  <2>2. ASSUME Inv, UNCHANGED scopedVars PROVE Inv'
    <3>1. (Facts => Facts') /\ (Placed => Placed')
      BY <2>2, ScopedStutter
    <3>2. TurnInv => TurnInv'
      BY <2>2 DEF scopedVars, journalVars, TurnInv, InOrder, InTurn
    <3>3. SpendInv => SpendInv'
      BY <2>2 DEF scopedVars, supVars, history, SpendInv, Expended, ExpendedOn, Acting, Entry, Past, Paid
    <3> QED BY <2>2, <3>1, <3>2, <3>3
  <2> QED BY <2>1, <2>2
<1> HIDE DEF Inv
<1>3. ScopedSpec => []Inv
  BY <1>1, <1>2, PTL DEF ScopedSpec
<1> QED BY <1>3 DEF Inv

\* No request is acted on twice: a retry, a resubmission, an execution after a crash
\* or one whose record was dropped would need the version of its grant that the
\* first charge rotated away.
THEOREM NothingIsActedOnTwice ==
  ASSUME ~UnlinkFallback
  PROVE  ScopedSpec => NeverTwice
<1> DEFINE Inv == Facts /\ Placed /\ TurnInv /\ SpendInv
<1>1. ScopedSpec => []Inv
  BY SpendHolds
<1>2. Inv /\ ScopedNext =>
        \A c \in Calls : call[c].run = "acting" /\ call'[c].run = "acted" =>
           [op |-> call[c].op, payload |-> call[c].payload] \notin acts
  BY DEF SpendInv, Acting, Entry
<1> HIDE DEF Inv
<1> QED BY <1>1, <1>2, PTL DEF ScopedSpec, NeverTwice

\* Every mutation made for a grant is a charge in the file: beforeDispatch charges
\* before the callback acts, and what is charged stays charged.
THEOREM MutationsAreCharged ==
  ASSUME ~UnlinkFallback
  PROVE  ScopedSpec => []ActsAreCharged
<1> DEFINE Inv == Facts /\ Placed /\ TurnInv /\ SpendInv
<1>1. ScopedSpec => []Inv
  BY SpendHolds
<1>2. Inv => ActsAreCharged
  <2> SUFFICES ASSUME Inv, NEW g \in Grants
               PROVE  Cardinality({a \in acts : a.payload.grant = g}) <= supDisk.grant[g].used
    BY DEF ActsAreCharged
  <2> DEFINE done == {a \in acts : a.payload.grant = g}
             s == ExpendedOn(g)
  <2>1. done \subseteq s /\ IsFiniteSet(s) /\ Cardinality(s) <= supDisk.grant[g].used
    BY DEF SpendInv, Paid, ExpendedOn, Expended
  <2>2. supDisk.grant[g].used \in Nat
    BY GrantTyped DEF Facts, SupInv, GrantRecords
  <2> HIDE DEF done, s
  <2>3. Cardinality(done) <= Cardinality(s) /\ Cardinality(done) \in Nat /\ Cardinality(s) \in Nat
    BY <2>1, FS_Subset, FS_CardinalityType
  <2>4. Cardinality(done) <= supDisk.grant[g].used
    BY <2>1, <2>2, <2>3
  <2> QED BY <2>4 DEF done
<1> HIDE DEF Inv
<1> QED BY <1>1, <1>2, PTL


--------------------------------------------------------------------------------
(* Operations whose result is not known.                                   *)

\* While the server runs, a step submits a request or rewrites a record.
LEMMA JournalKinds ==
  ASSUME Facts, ScopedNext
  PROVE  \/ Serving /\ Rewrites
         \/ \E c \in Calls : SubmitsBy(c)
         \/ Crash
         \/ \E ok \in BOOLEAN : Restart(ok)
<1>1. Extract \/ TimePasses => Serving /\ Rewrites
  BY DEF Extract, TimePasses, Ready, Rewrites
<1> QED BY <1>1, CallJournal, OwnerJournal DEF ScopedNext

\* With the server down nothing is in progress, before a start or after a crash.
LEMMA DownIsIdle ==
  ASSUME Facts, Crash \/ \E ok \in BOOLEAN : Restart(ok)
  PROVE  \A c \in Calls : call'[c] = Idle
<1>1. ASSUME NEW ok \in BOOLEAN, Restart(ok) PROVE \A c \in Calls : call'[c] = Idle
  <2>1. ~Serving /\ call' = call
    BY <1>1 DEF Restart, Serving, SupRestart, J!JournalRestart
  <2> QED BY <2>1 DEF Facts, Attached, Live
<1> QED BY <1>1 DEF Crash

\* What a rewrite does to the record of an operation: its payload stays, and another
\* status is one that some execution gives it.
LEMMA RewritesMean ==
  ASSUME Facts, Rewrites
  PROVE  /\ journal'.digest = journal.digest
         /\ \A o \in Ops : \/ journal'.status[o] = journal.status[o]
                           \/ /\ journal.status[o] # "absent" /\ journal'.status[o] # "absent"
                              /\ Justified(o, journal'.status[o])
                              /\ Relabels(o, journal'.status[o], TRUE)
<1>1. CASE UNCHANGED journalVars
  BY <1>1 DEF journalVars
<1>2. ASSUME NEW q \in Ops, NEW st \in J!Statuses, NEW ok \in BOOLEAN,
             Justified(q, st), Relabels(q, st, ok)
      PROVE  /\ journal'.digest = journal.digest
             /\ \A o \in Ops : \/ journal'.status[o] = journal.status[o]
                               \/ /\ journal.status[o] # "absent" /\ journal'.status[o] # "absent"
                                  /\ Justified(o, journal'.status[o])
                                  /\ Relabels(o, journal'.status[o], TRUE)
  <2> DEFINE next == J!SetStatus(journal, q, st)
  <2>1. next.status = [journal.status EXCEPT ![q] = st] /\ next.digest = journal.digest
    BY <1>2, RelabelFiled DEF Relabels, Recorded, Facts, Typed
  <2>2. journal' = IF ok THEN next ELSE journal
    BY <1>2, WriteMeans DEF Relabels
  <2>3. journal.status \in [Ops -> J!Statuses \cup {"absent"}] /\ st # "absent"
    BY FiledMeans DEF Facts, Typed, J!Statuses, J!Undispatched, J!Unresolved, J!Terminal
  <2> HIDE DEF next
  <2>4. CASE ~ok
    BY <2>2, <2>4
  <2>5. CASE ok
    <3>1. /\ journal'.digest = journal.digest
          /\ \A o \in Ops : journal'.status[o] = IF o = q THEN st ELSE journal.status[o]
      BY <2>1, <2>2, <2>3, <2>5
    <3>2. journal.status[q] # "absent" /\ Relabels(q, st, TRUE)
      BY <1>2, <2>5 DEF Relabels, Recorded
    <3> QED BY <1>2, <2>3, <3>1, <3>2
  <2> QED BY <2>4, <2>5
<1> QED BY <1>1, <1>2 DEF Rewrites

\* What a submission does to the records: it makes one, and may drop one that is
\* settled.  A dropped one that a run is still about has strayed.
LEMMA SubmitMeans ==
  ASSUME Facts, NEW c \in Calls, NEW o \in Ops, NEW p \in Payloads, NEW ok \in BOOLEAN,
         p.version <= sup.grant[p.grant].version, Submit(c, o, p, ok)
  PROVE  /\ call[c] = Idle /\ ~Recorded(o)
         /\ \A d \in Calls : call[d].pc # "idle" => call[d].op # o
         /\ \A q \in Ops \ {o} :
               \/ journal'.status[q] = journal.status[q] /\ journal'.digest[q] = journal.digest[q]
               \/ /\ journal'.status[q] = "absent"
                  /\ journal.status[q] \in {"confirmed", "failed", "cancelled"}
                  /\ \A d \in Calls : call[d].op = q /\ call[d].run # "none" => q \in strays'
         /\ journal'.status[o] \in {"absent", "recorded"}
<1>1. Inserts(o, p, ok)
  BY SubmitInserts
<1>2. PICK next : Inserted(journal, next, o, p) /\ J!Write(next, ok)
  BY <1>1 DEF Inserts
<1>3. journal' \in {journal, next}
  BY <1>2, WriteMeans
<1>4. /\ call[c] = Idle /\ ~Recorded(o)
      /\ \A d \in Calls : call[d].pc # "idle" => call[d].op # o
      /\ strays' = strays \cup {q \in Ops :
            /\ Recorded(q) /\ journal'.status[q] = "absent"
            /\ \E d \in Calls : call[d].op = q /\ call[d].run # "none"}
  BY DEF Submit, Admitted
<1>5. journal'.status[o] \in {"absent", "recorded"}
  BY <1>2, <1>3, <1>4 DEF Inserted, Recorded
<1>6. ASSUME NEW q \in Ops \ {o}
      PROVE  \/ journal'.status[q] = journal.status[q] /\ journal'.digest[q] = journal.digest[q]
             \/ /\ journal'.status[q] = "absent"
                /\ journal.status[q] \in {"confirmed", "failed", "cancelled"}
                /\ \A d \in Calls : call[d].op = q /\ call[d].run # "none" => q \in strays'
  <2>1. CASE journal' = journal
    BY <2>1
  <2>2. CASE journal' = next
    BY <1>2, <1>4, <2>2 DEF Inserted, Recorded
  <2> QED BY <1>3, <2>1, <2>2
<1> QED BY <1>4, <1>5, <1>6

\* What the histories of records go through.
LEMMA HistoriesGrow ==
  ASSUME ScopedNext
  PROVE  /\ strays \subseteq strays' /\ left \subseteq left'
         /\ made' = made \/ (\E c \in Calls : SubmitsBy(c) \/ Act(c)) \/ Crash
<1> DEFINE grow == strays \subseteq strays' /\ left \subseteq left' /\ made' = made
<1>1. ASSUME NEW c \in Calls, CallStep(c)
      PROVE  /\ strays \subseteq strays' /\ left \subseteq left'
             /\ made' = made \/ SubmitsBy(c) \/ Act(c)
  <2>1. \A ok \in BOOLEAN : FailBeforeDispatch(c, ok) => left \subseteq left'
    BY DEF FailBeforeDispatch
  <2>2. \A ok \in BOOLEAN :
          /\ MarkPending(c, ok) => grow
          /\ Refuse(c, ok) => grow
          /\ MarkDispatching(c, ok) => grow
          /\ Charge(c, ok) => grow
          /\ FailUnauthorised(c, ok) => grow
          /\ MarkDispatched(c, ok) => grow
          /\ \A confirmed \in BOOLEAN : Confirm(c, confirmed, ok) => grow
          /\ MarkUnknown(c, ok) => grow
    BY <2>1 DEF MarkPending, Refuse, MarkDispatching, Charge, FailUnauthorised, MarkDispatched, Confirm,
           MarkUnknown, history
  <2>3. /\ \A o \in Ops : Resubmit(c, o) => grow
        /\ Dispatch(c) => grow
        /\ StartRun(c) => grow
        /\ \A draft \in BOOLEAN : FinishProbe(c, draft) => grow
        /\ \A outcome \in {"ok", "error"} : FinishRun(c, outcome) \/ DropDispatch(c, outcome) => grow
        /\ RejectDispatch(c) => grow
        /\ StartUnknown(c) => grow
        /\ Act(c) => strays \subseteq strays' /\ left \subseteq left'
    BY DEF Resubmit, Dispatch, StartRun, FinishProbe, FinishRun, DropDispatch, RejectDispatch,
           StartUnknown, Act, history
  <2>4. ASSUME NEW ok \in BOOLEAN, NEW o \in Ops, NEW p \in Payloads,
               p.version <= sup.grant[p.grant].version, Submit(c, o, p, ok)
        PROVE  strays \subseteq strays' /\ left \subseteq left' /\ SubmitsBy(c)
    BY <2>4 DEF Submit, SubmitsBy
  <2> QED BY <1>1, <2>2, <2>3, <2>4 DEF CallStep
<1>2. CASE OwnerStep
  <2>1. \A ok \in BOOLEAN :
          /\ \A o \in Ops : CancelForTakeover(o, ok) => grow
          /\ PauseForTakeover(ok) => grow
          /\ \A g \in Grants : PauseOneForTakeover(g, ok) => grow
          /\ \A g \in Grants : ResumeSupervision(g, ok) \/ ResumeAfterRestart(g, ok) => grow
    BY DEF CancelForTakeover, PauseForTakeover, PauseOneForTakeover, ResumeSupervision,
           ResumeAfterRestart, history
  <2>2. /\ \A w \in Workspaces \cup {NoWorkspace} : StartTakeover(w) => grow
        /\ AllPaused \/ EndTakeover \/ ManageGrants => grow
    BY DEF StartTakeover, AllPaused, EndTakeover, ManageGrants, history
  <2>3. grow
    BY <1>2, <2>1, <2>2 DEF OwnerStep
  <2> QED BY <2>3
<1>3. /\ Extract \/ TimePasses \/ (\E ok \in BOOLEAN : Restart(ok)) => grow
      /\ Crash => strays \subseteq strays' /\ left \subseteq left'
  BY DEF Extract, TimePasses, Crash, Restart, history
<1> QED BY <1>1, <1>2, <1>3 DEF ScopedNext


\* The run of the call is in the lane of its workspace.
InLane(c)      == call[c].run \notin {"none", "queued"}
WorkspaceOf(c) == sup.grant[call[c].payload.grant].workspace

\* A lane has one run.
LaneInv == \A c, d \in Calls : c # d /\ InLane(c) /\ InLane(d) => WorkspaceOf(c) # WorkspaceOf(d)

\* A run that is in its lane was there before, or found the lane free.
LEMMA EntersLane ==
  ASSUME Facts, Placed, ScopedNext, NEW c \in Calls, InLane(c)'
  PROVE  /\ Live(c) /\ call'[c].payload = call[c].payload
         /\ call[c].payload \in Payloads /\ Within(sup, call[c].payload)
         /\ InLane(c) \/ (LaneFree(c) /\ call'[c] # call[c])
<1>1. Moves(c) /\ call'[c] \in CallRecords /\ Idle.run = "none"
  BY ScopedMoves DEF AllMove, Idle
<1>2. call'[c].run \in {"probing", "probed", "marked", "acting", "acted"}
  BY <1>1 DEF InLane, CallRecords, RunSteps
<1>3. /\ Live(c) /\ call'[c].payload = call[c].payload
      /\ InLane(c) \/ (LaneFree(c) /\ call'[c] # call[c])
  <2>1. CASE call'[c] = call[c]
    BY <1>1, <1>2, <2>1 DEF Live, InLane
  <2>2. CASE call'[c] # call[c]
    <3>1. Goes(c)
      BY <1>1, <1>2, <2>2 DEF Moves, Born
    <3> QED BY <1>2, <2>2, <3>1 DEF Goes, Live, InLane, Checked
  <2> QED BY <2>1, <2>2
<1> QED BY <1>3 DEF Facts, Attached, Placed

\* The lanes stay apart.
LEMMA LaneInvKept ==
  ASSUME Facts, Placed, TurnInv, LaneInv, ScopedNext
  PROVE  LaneInv'
<1>1. CASE Crash \/ \E ok \in BOOLEAN : Restart(ok)
  BY <1>1, DownIsIdle DEF LaneInv, InLane, Idle
<1>2. CASE Working
  <2> SUFFICES ASSUME NEW c \in Calls, NEW d \in Calls, c # d, InLane(c)', InLane(d)'
               PROVE  WorkspaceOf(c)' # WorkspaceOf(d)'
    BY DEF LaneInv
  <2>1. \A b \in {c, d} :
           /\ Live(b) /\ call'[b].payload = call[b].payload
           /\ call[b].payload \in Payloads /\ Within(sup, call[b].payload)
           /\ InLane(b) \/ (LaneFree(b) /\ call'[b] # call[b])
    BY EntersLane
  <2>2. \A b \in {c, d} : WorkspaceOf(b)' = WorkspaceOf(b)
    <3>1. \A p \in Payloads : p.grant \in Grants
      BY DEF Payloads
    <3> QED BY <1>2, <2>1, <3>1, WithinKept DEF WorkspaceOf, Within, Working, Facts
  <2>3. ASSUME NEW a \in {c, d}, NEW b \in {c, d}, a # b, ~InLane(a)
        PROVE  WorkspaceOf(a) # WorkspaceOf(b)
    <3>1. LaneFree(a) /\ call'[a] # call[a] /\ call'[a].run # call[a].run
      BY <2>1, <2>3 DEF InLane
    <3>2. \E e \in Calls : CallStep(e)
      <4>1. CASE OwnerStep \/ Extract \/ TimePasses
        BY <3>1, <4>1, OthersKeep
      <4>2. CASE Crash \/ \E ok \in BOOLEAN : Restart(ok)
        BY <2>3, <4>2, DownIsIdle DEF InLane, Idle
      <4> QED BY <4>1, <4>2 DEF ScopedNext
    <3>3. call'[b] = call[b]
      BY <2>3, <3>1, <3>2, CallSets
    <3>4. InLane(b)
      BY <3>3 DEF InLane
    <3> QED BY <2>3, <3>1, <3>4 DEF LaneFree, InLane, WorkspaceOf
  <2>4. WorkspaceOf(c) # WorkspaceOf(d)
    <3>1. CASE InLane(c) /\ InLane(d)
      BY <3>1 DEF LaneInv
    <3>2. CASE ~InLane(c)
      BY <2>3, <3>2
    <3>3. CASE ~InLane(d)
      BY <2>3, <3>3
    <3> QED BY <3>1, <3>2, <3>3
  <2> QED BY <2>2, <2>4
<1> QED BY <1>1, <1>2, StepKinds

\* The record of an operation in progress is the one its payload was recorded with,
\* unless it was dropped: while the execution waits for nothing more, or behind the
\* back of a run.
OnRecord(c) ==
    \/ call[c].op \in strays
    \/ Recorded(call[c].op) /\ journal.digest[call[c].op] = call[c].payload
    \/ call[c].run = "none" /\ ~Recorded(call[c].op)

RecordInv == \A c \in Calls : Live(c) => OnRecord(c)

\* The records stay theirs.
LEMMA RecordInvKept ==
  ASSUME Facts, Placed, TurnInv, RecordInv, ScopedNext
  PROVE  RecordInv'
<1>1. CASE Crash \/ \E ok \in BOOLEAN : Restart(ok)
  BY <1>1, DownIsIdle DEF RecordInv, Live
<1>2. ASSUME NEW c \in Calls, call'[c] # Idle,
             (Serving /\ Rewrites) \/ \E d \in Calls : SubmitsBy(d)
      PROVE  OnRecord(c)'
  <2>1. Moves(c) /\ strays \subseteq strays'
    BY ScopedMoves, HistoriesGrow DEF AllMove
  <2>2. CASE Born(c)
    BY <2>2 DEF Born, Fresh, OnRecord, Recorded
  <2>3. CASE ~Born(c)
    <3>1. /\ Live(c) /\ call'[c].op = call[c].op /\ call'[c].payload = call[c].payload
          /\ call'[c].run # "none" => call[c].run # "none" \/ call[c].pc = "pending"
      BY <1>2, <2>1, <2>3 DEF Moves, Goes, Live
    <3> PICK o : o = call[c].op
      OBVIOUS
    <3>2. OnRecord(c) /\ o \in Ops
      BY <3>1 DEF RecordInv, Facts, Attached
    <3>3. ~Recorded(o) => call[c].pc # "pending"
      BY DEF TurnInv, InOrder, Recorded
    <3>4. CASE o \in strays
      BY <2>1, <3>1, <3>4 DEF OnRecord
    <3>5. CASE o \notin strays /\ Rewrites
      <4>1. journal'.digest = journal.digest /\ (Recorded(o)' <=> Recorded(o))
        BY <3>2, <3>5, RewritesMean DEF Recorded
      <4> QED BY <3>1, <3>2, <3>3, <3>5, <4>1 DEF OnRecord
    <3>6. ASSUME NEW d \in Calls, SubmitsBy(d) PROVE OnRecord(c)'
      <4>1. PICK q \in Ops, p \in Payloads, ok \in BOOLEAN :
               p.version <= sup.grant[p.grant].version /\ Submit(d, q, p, ok)
        BY <3>6 DEF SubmitsBy
      <4>2. /\ call[d] = Idle /\ ~Recorded(q)
            /\ \A b \in Calls : call[b].pc # "idle" => call[b].op # q
            /\ \A u \in Ops \ {q} :
                  \/ journal'.status[u] = journal.status[u] /\ journal'.digest[u] = journal.digest[u]
                  \/ /\ journal'.status[u] = "absent"
                     /\ journal.status[u] \in {"confirmed", "failed", "cancelled"}
                     /\ \A b \in Calls : call[b].op = u /\ call[b].run # "none" => u \in strays'
        BY <4>1, SubmitMeans
      <4>3. c # d /\ call'[c] = call[c]
        <5>1. \A x : SetCall(d, x) => \A b \in Calls \ {d} : call'[b] = call[b]
          BY DEF SetCall, Facts, Typed
        <5> QED BY <3>1, <4>1, <4>2, <5>1 DEF Submit, Live
      <4>4. CASE o = q
        <5>1. call[c].run = "none" => call[c].pc # "idle"
          BY <3>1 DEF Facts, Attached
        <5> QED BY <3>1, <3>2, <4>2, <4>3, <4>4, <5>1, <2>1 DEF OnRecord
      <4>5. CASE o # q
        BY <2>1, <3>1, <3>2, <4>2, <4>3, <4>5 DEF OnRecord, Recorded
      <4> QED BY <4>4, <4>5
    <3> QED BY <1>2, <3>4, <3>5, <3>6
  <2> QED BY <2>2, <2>3
<1> QED BY <1>1, <1>2, JournalKinds DEF RecordInv, Live

\* A run that has looked for an operation of its grant without a known result, and
\* found none, goes on while there is none: only a run in the same lane could make one.
UnknownInv ==
    \A c \in Calls : call[c].run \in {"probed", "marked"} =>
        \A o \in Ops \ strays : o # call[c].op => ~UnknownFor(call[c].payload.grant, o)

\* Nothing becomes unknown behind its back.
LEMMA UnknownInvKept ==
  ASSUME Facts, Placed, TurnInv, LaneInv, RecordInv, UnknownInv, ScopedNext
  PROVE  UnknownInv'
<1>1. CASE Crash \/ \E ok \in BOOLEAN : Restart(ok)
  BY <1>1, DownIsIdle DEF UnknownInv, Idle
<1>2. ASSUME NEW c \in Calls, call'[c].run \in {"probed", "marked"},
             NEW o \in Ops \ strays', o # call'[c].op,
             (Serving /\ Rewrites) \/ \E d \in Calls : SubmitsBy(d)
      PROVE  ~UnknownFor(call[c].payload.grant, o)'
  <2>1. o \notin strays /\ InLane(c)' /\ Moves(c)
    BY <1>2, ScopedMoves, HistoriesGrow DEF InLane, AllMove
  <2>2. Live(c) /\ call'[c].payload = call[c].payload
    BY <2>1, EntersLane
  <2> PICK g : g = call[c].payload.grant
    OBVIOUS
  <2>3. /\ call'[c].op = call[c].op
        /\ \/ call[c].run \in {"probed", "marked"}
           \/ ~HasUnknownForGrant(g, call[c].op) /\ UNCHANGED journalVars
    <3>1. call'[c] = call[c] \/ Goes(c)
      BY <1>2, <2>1, <2>2 DEF Moves, Born, Live, Idle
    <3> QED BY <1>2, <3>1 DEF Goes
  <2>4. CASE ~HasUnknownForGrant(g, call[c].op) /\ UNCHANGED journalVars
    <3>1. ~UnknownFor(g, o) /\ journal' = journal
      BY <1>2, <2>3, <2>4 DEF HasUnknownForGrant, journalVars
    <3> QED BY <2>2, <3>1 DEF UnknownFor, Recorded, GrantOf
  <2>5. CASE call[c].run \in {"probed", "marked"}
    <3>1. ~UnknownFor(g, o)
      BY <1>2, <2>1, <2>3, <2>5 DEF UnknownInv
    <3>2. CASE journal'.status[o] = journal.status[o] /\ journal'.digest[o] = journal.digest[o]
      BY <2>2, <3>1, <3>2 DEF UnknownFor, Recorded, GrantOf
    <3>3. CASE Rewrites
      <4> SUFFICES ASSUME journal'.status[o] # journal.status[o], UnknownFor(g, o)' PROVE FALSE
        BY <2>2, <3>2, <3>3, RewritesMean
      <4>1. /\ journal'.digest = journal.digest /\ journal.status[o] # "absent"
            /\ Justified(o, journal'.status[o]) /\ Relabels(o, journal'.status[o], TRUE)
        BY <3>3, RewritesMean
      <4>2. journal.status[o] \notin {"dispatching", "dispatched", "unknown"} /\ GrantOf(o) = g
            /\ journal'.status[o] \in {"dispatching", "dispatched", "unknown"}
        BY <3>1, <4>1 DEF UnknownFor, Recorded, GrantOf
      <4>3. journal'.status[o] = "dispatching"
        BY <4>1, <4>2 DEF Relabels
      <4>4. PICK d \in Calls : call[d].op = o /\ call[d].run = "probed"
        BY <4>1, <4>3 DEF Justified
      <4>5. Live(d) /\ OnRecord(d)
        BY <4>4 DEF RecordInv, Live, Idle
      <4>6. journal.digest[o] = call[d].payload
        BY <2>1, <4>4, <4>5 DEF OnRecord
      <4>7. InLane(c) /\ InLane(d) /\ c # d /\ WorkspaceOf(c) = WorkspaceOf(d)
        BY <1>2, <2>3, <2>5, <4>2, <4>4, <4>6 DEF InLane, WorkspaceOf, GrantOf
      <4> QED BY <4>7 DEF LaneInv
    <3>4. ASSUME NEW d \in Calls, SubmitsBy(d) PROVE ~UnknownFor(g, o)'
      <4>1. \/ journal'.status[o] = journal.status[o] /\ journal'.digest[o] = journal.digest[o]
            \/ journal'.status[o] \in {"absent", "recorded"}
        <5>1. PICK q \in Ops, p \in Payloads, ok \in BOOLEAN :
                 p.version <= sup.grant[p.grant].version /\ Submit(d, q, p, ok)
          BY <3>4 DEF SubmitsBy
        <5> QED BY <5>1, SubmitMeans
      <4> QED BY <2>2, <3>2, <4>1 DEF UnknownFor
    <3> QED BY <1>2, <2>2, <3>3, <3>4
  <2> QED BY <2>3, <2>4, <2>5
<1> QED BY <1>1, <1>2, JournalKinds DEF UnknownInv

\* No mutation is authorised while another operation of its grant may have happened
\* unrecorded, although the run awaits twice between the search and the charge: what
\* could become unknown meanwhile would have to be in its lane.
THEOREM UnresolvedStopsTheGrant == ScopedSpec => UnresolvedBlocksGrant
<1> DEFINE Inv == Facts /\ Placed /\ TurnInv /\ LaneInv /\ RecordInv /\ UnknownInv
<1>1. ScopedInit => Inv
  <2> SUFFICES ASSUME ScopedInit PROVE Inv
    OBVIOUS
  <2>1. Facts /\ Placed /\ \A c \in Calls : call[c] = Idle
    BY ScopedStart
  <2>2. TurnInv
    BY <2>1 DEF TurnInv, InOrder, InTurn, Idle, Checked
  <2>3. \A c \in Calls : call[c].run = "none" /\ ~Live(c)
    <3>1. Idle.run = "none"
      BY DEF Idle
    <3> QED BY <2>1, <3>1 DEF Live
  <2>4. LaneInv /\ RecordInv
    BY <2>3 DEF LaneInv, RecordInv, InLane
  <2>5. UnknownInv
    BY <2>3 DEF UnknownInv
  <2> QED BY <2>1, <2>2, <2>4, <2>5
<1>2. Inv /\ [ScopedNext]_scopedVars => Inv'
  <2>1. ASSUME Inv, ScopedNext PROVE Inv'
    BY <2>1, FactsKept, PlacedKept, TurnInvKept, LaneInvKept, RecordInvKept, UnknownInvKept
  <2>2. ASSUME Inv, UNCHANGED scopedVars PROVE Inv'
    <3>1. Facts' /\ Placed'
      BY <2>2, ScopedStutter
    <3>2. TurnInv'
      BY <2>2 DEF scopedVars, journalVars, TurnInv, InOrder, InTurn
    <3>3. LaneInv'
      BY <2>2 DEF scopedVars, supVars, LaneInv, InLane, WorkspaceOf
    <3>4. RecordInv' /\ UnknownInv'
      BY <2>2 DEF scopedVars, journalVars, history, RecordInv, OnRecord, Recorded, Live, UnknownInv,
             UnknownFor, GrantOf
    <3> QED BY <3>1, <3>2, <3>3, <3>4
  <2> QED BY <2>1, <2>2
<1>3. Inv /\ ScopedNext =>
        \A c \in Calls : Authorises(c) =>
           \A o \in Ops \ strays :
              o # call[c].op => ~UnknownFor(call[c].payload.grant, o)
  BY AuthorisedMeans DEF Authorises, UnknownInv
<1> HIDE DEF Inv
<1> QED BY <1>1, <1>2, <1>3, PTL DEF ScopedSpec, UnresolvedBlocksGrant



--------------------------------------------------------------------------------
(* Operations that failed or were cancelled.                               *)

\* The records that nothing is claimed of.
Excused == left \cup strays

\* Statuses of a record that was dispatched and did not fail.
Begun == {"dispatching", "dispatched", "unknown", "confirmed"}

\* Operations that have touched the UI, or may at any moment.
Vouched == (made \cup {call[c].op : c \in {d \in Calls : call[d].authorized}}) \ Excused

\* What has been made is on record: in the file while the server is down.
MadeOnRecord ==
    /\ made \subseteq Ops
    /\ \A o \in made \ Excused :
          IF journalUp THEN Recorded(o) ELSE journalDisk.status[o] # "absent"

\* What was authorised has begun, in memory and in the file.
VouchedBegun ==
    \A o \in Vouched :
        journal.status[o] \in Begun \cup {"absent"} /\ journalDisk.status[o] \in Begun \cup {"absent"}

\* An execution that answered while its run goes on leaves no record that could be
\* executed again.
NotReopened ==
    \A c \in Calls : Live(c) /\ call[c].pc = "idle" =>
        call[c].op \in Excused \/ journal.status[call[c].op] \notin {"recorded", "pending"}

\* An operation has one execution or run.
OneEach ==
    \A c, d \in Calls : c # d /\ Live(c) /\ Live(d) /\ call[c].op = call[d].op => call[c].op \in Excused

\* What may still fail has not been made.
Untouched ==
    \A c \in Calls : Live(c) /\ ~call[c].authorized => call[c].op \in Excused \/ call[c].op \notin made

MadeInv == MadeOnRecord /\ VouchedBegun /\ NotReopened /\ OneEach /\ Untouched

Ground == Facts /\ Placed /\ PolicyInv /\ TurnInv /\ RecordInv

\* An execution that is in progress after a step that moved it has made that step.
LEMMA OneMoves ==
  ASSUME Facts, TurnInv, ScopedNext, NEW c \in Calls, call'[c] # Idle,
         \/ call'[c].pc # call[c].pc \/ call'[c].run # call[c].run
         \/ call'[c].authorized # call[c].authorized
  PROVE  CallStep(c) /\ \A d \in Calls \ {c} : call'[d] = call[d]
<1>1. \E d \in Calls : CallStep(d)
  <2>1. ~(OwnerStep \/ Extract \/ TimePasses)
    BY OthersKeep
  <2>2. ~(Crash \/ \E ok \in BOOLEAN : Restart(ok))
    BY DownIsIdle
  <2> QED BY <2>1, <2>2 DEF ScopedNext
<1> QED BY <1>1, CallSets

\* What the step that authorises a mutation finds in the journal, and leaves there.
LEMMA AuthorisingStep ==
  ASSUME Facts, Placed, TurnInv, ScopedNext, NEW c \in Calls, ~call[c].authorized, call'[c].authorized
  PROVE  /\ Live(c) /\ call'[c].op = call[c].op /\ UNCHANGED journalVars
         /\ journal.status[call[c].op] = "dispatching" /\ journalDisk.status[call[c].op] = "dispatching"
<1>1. Live(c) /\ call[c].run = "marked"
  BY AuthorisedMeans
<1>2. call'[c] # Idle /\ call'[c].authorized # call[c].authorized
  <2>1. ~Idle.authorized
    BY DEF Idle
  <2> QED BY <2>1
<1>3. PICK ok \in BOOLEAN : Charge(c, ok)
  BY <1>1, <1>2, OneMoves, MarkedCharges
<1>4. call'[c].op = call[c].op
  <2>1. Moves(c)
    BY ScopedMoves DEF AllMove
  <2>2. Goes(c)
    BY <1>1, <1>2, <2>1 DEF Moves, Born, Live
  <2> QED BY <2>2 DEF Goes
<1>5. UNCHANGED journalVars
  BY <1>3 DEF Charge
<1>6. InOrder(c)
  BY DEF TurnInv
<1> QED BY <1>1, <1>4, <1>5, <1>6 DEF InOrder

\* What a rewrite does to one record and to its copy in the file.
LEMMA RewriteOf ==
  ASSUME Facts, Rewrites, NEW o \in Ops
  PROVE  \/ /\ journal'.status[o] = journal.status[o]
            /\ journalDisk'.status[o] \in {journalDisk.status[o], journal.status[o], "absent"}
         \/ \E st \in J!Statuses, ok \in BOOLEAN :
               /\ Justified(o, st) /\ Relabels(o, st, ok)
               /\ journal'.status[o] \in {journal.status[o], st}
               /\ journalDisk'.status[o] \in {journalDisk.status[o], st, "absent"}
<1>1. CASE UNCHANGED journalVars
  BY <1>1 DEF journalVars
<1>2. ASSUME NEW q \in Ops, NEW st \in J!Statuses, NEW ok \in BOOLEAN,
             Justified(q, st), Relabels(q, st, ok)
      PROVE  \/ /\ journal'.status[o] = journal.status[o]
                /\ journalDisk'.status[o] \in {journalDisk.status[o], journal.status[o], "absent"}
             \/ /\ o = q
                /\ journal'.status[o] \in {journal.status[o], st}
                /\ journalDisk'.status[o] \in {journalDisk.status[o], st, "absent"}
  <2> DEFINE next == J!SetStatus(journal, q, st)
  <2>1. next.status = [journal.status EXCEPT ![q] = st]
    BY <1>2, RelabelFiled DEF Relabels, Recorded, Facts, Typed
  <2>2. journal' \in {journal, next} /\ journalDisk' \in {journalDisk, next, J!EmptyStore}
    BY <1>2, WriteMeans DEF Relabels
  <2>3. journal.status \in [Ops -> J!Statuses \cup {"absent"}]
    BY FiledMeans DEF Facts, Typed
  <2> HIDE DEF next
  <2>4. next.status[o] = IF o = q THEN st ELSE journal.status[o]
    BY <2>1, <2>3
  <2>5. J!EmptyStore.status[o] = "absent"
    BY FiledMeans
  <2> QED BY <2>2, <2>4, <2>5
<1> QED BY <1>1, <1>2 DEF Rewrites

\* The copy in the file of a record that a submission does not make.
LEMMA SubmitCopies ==
  ASSUME Facts, NEW c \in Calls, NEW o \in Ops, NEW p \in Payloads, NEW ok \in BOOLEAN,
         p.version <= sup.grant[p.grant].version, Submit(c, o, p, ok)
  PROVE  \A q \in Ops \ {o} : journalDisk'.status[q] \in {journalDisk.status[q], journal.status[q], "absent"}
<1>1. PICK next : Inserted(journal, next, o, p) /\ J!Write(next, ok)
  BY SubmitInserts DEF Inserts
<1>2. journalDisk' \in {journalDisk, next, J!EmptyStore}
  BY <1>1, WriteMeans
<1> QED BY <1>1, <1>2, FiledMeans DEF Inserted

\* What an execution does that gives up while its run goes on: it settles the record,
\* or leaves it behind, or the mutation is authorised.
LEMMA GivenUp ==
  ASSUME Facts, Placed, TurnInv, ScopedNext, NEW c \in Calls, call[c].pc # "idle",
         call'[c] # Idle, call'[c].pc = "idle"
  PROVE  \/ call'[c].authorized
         \/ call[c].op \in left'
         \/ journal'.status[call[c].op] \notin {"recorded", "pending"}
<1>1. CallStep(c)
  BY OneMoves
<1> DEFINE r == call[c]
           q == call'[c]
           done == \/ q.authorized \/ r.op \in left'
                   \/ journal'.status[r.op] \notin {"recorded", "pending"}
<1>2. r \in CallRecords /\ InOrder(c) /\ Live(c) /\ r.op \in Ops
  BY CallFields DEF Facts, Typed, TurnInv, Live, Attached
<1>3. \A x : SetCall(c, x) => q = x
  BY SlotMeans
<1>4. \A outcome \in {"ok", "error"} : ~RunEnds(c, outcome)
  BY SlotMeans
<1>5. ASSUME NEW ok \in BOOLEAN, NEW o \in Ops, NEW p \in Payloads, Submit(c, o, p, ok) PROVE done
  BY <1>2, <1>5 DEF Submit, Live
<1>6. ASSUME NEW ok \in BOOLEAN, MarkPending(c, ok) \/ Refuse(c, ok) PROVE done
  <2>1. r.run = "none"
    BY <1>2, <1>6 DEF MarkPending, Refuse, InOrder
  <2>2. SetCall(c, [r EXCEPT !.pc = "idle"]) \/ SetCall(c, [r EXCEPT !.pc = "pending"])
    BY <1>6 DEF MarkPending, Refuse
  <2>3. [r EXCEPT !.pc = "idle"].pc = "idle" /\ [r EXCEPT !.pc = "idle"].run = "none"
        /\ [r EXCEPT !.pc = "pending"].pc = "pending"
    BY <1>2, <2>1 DEF CallRecords
  <2>4. SetCall(c, [r EXCEPT !.pc = "idle"])
    BY <1>3, <2>2, <2>3
  <2>5. q = Idle
    BY <2>3, <2>4 DEF SetCall, Slot, Facts, Typed
  <2> QED BY <2>5
<1>7. ASSUME NEW ok \in BOOLEAN, FailUnauthorised(c, ok) PROVE done
  <2>1. FailBeforeDispatch(c, ok)
    BY <1>7 DEF FailUnauthorised
  <2>2. CASE r.op \in left'
    BY <2>2
  <2>3. CASE journal.status[r.op] \notin {"recorded", "pending", "dispatching"} /\ UNCHANGED journalVars
    BY <2>3 DEF journalVars
  <2>4. CASE J!Settle(r.op, "failed", TRUE)
    <3>1. Relabels(r.op, "failed", TRUE) /\ "failed" \in J!Statuses
      BY <1>2, <2>4, MethodsRelabel DEF J!Statuses, J!Terminal
    <3>2. journal'.status[r.op] = "failed"
      BY <1>2, <3>1, RelabelledTo
    <3> QED BY <3>2
  <2> QED BY <2>1, <2>2, <2>3, <2>4 DEF FailBeforeDispatch
<1>8. ASSUME NEW ok \in BOOLEAN,
             MarkUnknown(c, ok) \/ \E confirmed \in BOOLEAN : Confirm(c, confirmed, ok)
      PROVE  done
  <2>1. r.authorized
    BY <1>2, <1>8 DEF MarkUnknown, Confirm, InOrder
  <2>2. Moves(c)
    BY ScopedMoves DEF AllMove
  <2>3. Goes(c)
    BY <1>2, <2>2 DEF Moves, Born, Live
  <2> QED BY <2>1, <2>3 DEF Goes
<1>9. ASSUME NEW ok \in BOOLEAN,
             MarkDispatching(c, ok) \/ Charge(c, ok) \/ MarkDispatched(c, ok)
      PROVE  done
  <2>1. \/ SetCall(c, [r EXCEPT !.run = "marked"])
        \/ SetCall(c, [r EXCEPT !.run = "acting", !.authorized = TRUE])
        \/ SetCall(c, [r EXCEPT !.pc = "confirming"]) \/ SetCall(c, [r EXCEPT !.pc = "unknown"])
    BY <1>4, <1>9 DEF MarkDispatching, Charge, MarkDispatched
  <2> QED BY <1>2, <1>3, <2>1 DEF CallRecords
<1>10. ASSUME \/ \E o \in Ops : Resubmit(c, o)
              \/ Dispatch(c) \/ StartRun(c)
              \/ \E draft \in BOOLEAN : FinishProbe(c, draft)
              \/ Act(c)
              \/ \E outcome \in {"ok", "error"} : FinishRun(c, outcome) \/ DropDispatch(c, outcome)
              \/ RejectDispatch(c) \/ StartUnknown(c)
       PROVE  FALSE
  <2>1. \/ SetCall(c, [r EXCEPT !.pc = "waiting", !.run = "queued"])
        \/ SetCall(c, [r EXCEPT !.run = "probing", !.seen = mode])
        \/ SetCall(c, [r EXCEPT !.run = "probed"])
        \/ SetCall(c, [r EXCEPT !.run = "acted"])
        \/ SetCall(c, [r EXCEPT !.outcome = "error"])
        \/ SetCall(c, [r EXCEPT !.pc = "unknown"])
    BY <1>2, <1>4, <1>10 DEF Resubmit, Dispatch, StartRun, FinishProbe, Act, FinishRun, DropDispatch,
                       RejectDispatch, StartUnknown, Live
  <2> QED BY <1>2, <1>3, <2>1 DEF CallRecords
<1> QED BY <1>1, <1>5, <1>6, <1>7, <1>8, <1>9, <1>10 DEF CallStep


\* What is vouched for has a record or an execution, and nothing can fail it.
LEMMA VouchedFor ==
  ASSUME Ground, MadeInv, Serving, NEW o \in Vouched
  PROVE  /\ o \in Ops /\ o \notin Excused
         /\ Recorded(o) \/ \E d \in Calls : call[d].op = o /\ call[d].pc # "idle"
         /\ ~Justified(o, "failed")
<1>1. o \notin Excused /\ (o \in made \/ \E d \in Calls : call[d].authorized /\ call[d].op = o)
  BY DEF Vouched
<1>2. ~Idle.authorized
  BY DEF Idle
<1>3. ASSUME NEW d \in Calls, call[d].authorized, call[d].op = o
      PROVE  /\ Live(d) /\ o \in Ops
             /\ Recorded(o) \/ call[d].pc # "idle"
  <2>1. Live(d)
    BY <1>2, <1>3 DEF Live
  <2>2. /\ OnRecord(d) /\ o \in Ops
        /\ call[d].pc # "idle" \/ call[d].run # "none"
    BY <1>3, <2>1 DEF Ground, RecordInv, Facts, Attached
  <2> QED BY <1>1, <1>3, <2>1, <2>2 DEF OnRecord, Excused
<1>4. o \in made => o \in Ops /\ Recorded(o)
  BY <1>1 DEF MadeInv, MadeOnRecord, Serving
<1>5. ASSUME Justified(o, "failed") PROVE FALSE
  <2>1. PICK c \in Calls : Live(c) /\ call[c].op = o /\ (call[c].pc = "pending" \/ ~call[c].authorized)
    BY <1>5 DEF Justified
  <2>2. ~call[c].authorized
    BY <2>1 DEF Ground, TurnInv, InOrder
  <2>3. o \notin made
    BY <1>1, <2>1, <2>2 DEF MadeInv, Untouched
  <2>4. PICK d \in Calls : call[d].authorized /\ call[d].op = o
    BY <1>1, <2>3
  <2>5. Live(d) /\ c # d
    BY <1>3, <2>2, <2>4
  <2> QED BY <1>1, <2>1, <2>4, <2>5 DEF MadeInv, OneEach
<1> QED BY <1>1, <1>3, <1>4, <1>5

\* What comes to be vouched for was so before, or is being authorised.
LEMMA BecomesVouched ==
  ASSUME Ground, ScopedNext, NEW o \in Vouched'
  PROVE  /\ o \notin Excused
         /\ \/ o \in Vouched
            \/ /\ UNCHANGED journalVars
               /\ journal.status[o] = "dispatching" /\ journalDisk.status[o] = "dispatching"
<1>1. o \notin Excused
  BY HistoriesGrow DEF Vouched, Excused
<1>2. CASE o \in made
  BY <1>1, <1>2 DEF Vouched
<1>3. CASE o \in made' /\ o \notin made
  <2>1. \A c \in Calls : SubmitsBy(c) => made' \subseteq made
    BY DEF SubmitsBy, Submit
  <2>2. Crash => made' \subseteq made
    BY DEF Crash
  <2>3. PICK c \in Calls : Act(c)
    BY <1>3, <2>1, <2>2, HistoriesGrow
  <2>4. call[c].run = "acting" /\ call[c].op = o
    BY <1>3, <2>3 DEF Act
  <2>5. call[c].authorized
    <3>1. Live(c)
      BY <2>4 DEF Live, Idle
    <3> QED BY <2>4, <3>1 DEF Ground, PolicyInv
  <2> QED BY <1>1, <2>4, <2>5 DEF Vouched
<1>4. ASSUME NEW c \in Calls, call'[c].authorized, call'[c].op = o
      PROVE  \/ o \in Vouched
             \/ /\ UNCHANGED journalVars
                /\ journal.status[o] = "dispatching" /\ journalDisk.status[o] = "dispatching"
  <2>1. CASE call[c].authorized
    <3>1. Moves(c) /\ ~Idle.authorized
      BY ScopedMoves DEF AllMove, Ground, Idle
    <3>2. call'[c] = call[c] \/ Goes(c)
      BY <1>4, <3>1 DEF Moves, Born
    <3>3. call[c].op = o
      BY <1>4, <3>2 DEF Goes
    <3> QED BY <1>1, <2>1, <3>3 DEF Vouched
  <2>2. CASE ~call[c].authorized
    BY <1>4, <2>2, AuthorisingStep DEF Ground
  <2> QED BY <2>1, <2>2
<1> QED BY <1>1, <1>2, <1>3, <1>4 DEF Vouched

\* What is authorised stays begun.
LEMMA VouchedKept ==
  ASSUME Ground, MadeInv, ScopedNext
  PROVE  VouchedBegun'
<1> SUFFICES ASSUME NEW o \in Vouched'
             PROVE  /\ journal'.status[o] \in Begun \cup {"absent"}
                    /\ journalDisk'.status[o] \in Begun \cup {"absent"}
  BY DEF VouchedBegun
<1>1. CASE o \notin Vouched
  BY <1>1, BecomesVouched DEF Begun, journalVars
<1>2. CASE o \in Vouched /\ Serving /\ Rewrites
  <2>1. /\ journal.status[o] \in Begun \cup {"absent"} /\ journalDisk.status[o] \in Begun \cup {"absent"}
        /\ o \in Ops /\ ~Justified(o, "failed")
    BY <1>2, VouchedFor DEF MadeInv, VouchedBegun
  <2>2. ASSUME NEW st \in J!Statuses, NEW ok \in BOOLEAN, Justified(o, st), Relabels(o, st, ok)
        PROVE  st \in Begun
    <3>1. st \notin {"recorded", "pending", "cancelled", "failed"}
      BY <2>1, <2>2 DEF Relabels, Begun
    <3> QED BY <3>1 DEF J!Statuses, J!Undispatched, J!Unresolved, J!Terminal, Begun
  <2> QED BY <1>2, <2>1, <2>2, RewriteOf DEF Ground
<1>3. ASSUME o \in Vouched, NEW c \in Calls, SubmitsBy(c)
      PROVE  /\ journal'.status[o] \in Begun \cup {"absent"}
             /\ journalDisk'.status[o] \in Begun \cup {"absent"}
  <2>1. PICK q \in Ops, p \in Payloads, ok \in BOOLEAN :
           p.version <= sup.grant[p.grant].version /\ Submit(c, q, p, ok)
    BY <1>3 DEF SubmitsBy
  <2>2. Serving
    BY <2>1 DEF Submit, Admitted, Ready
  <2>3. /\ journal.status[o] \in Begun \cup {"absent"} /\ journalDisk.status[o] \in Begun \cup {"absent"}
        /\ o \in Ops /\ (Recorded(o) \/ \E d \in Calls : call[d].op = o /\ call[d].pc # "idle")
    BY <1>3, <2>2, VouchedFor DEF MadeInv, VouchedBegun
  <2>4. o # q
    BY <2>1, <2>3, SubmitMeans DEF Ground
  <2> QED BY <2>1, <2>3, <2>4, SubmitMeans, SubmitCopies DEF Ground
<1>4. CASE o \in Vouched /\ Crash
  <2>1. Stops \/ UNCHANGED journalVars
    BY <1>4, ProcessJournal DEF Crash
  <2>2. o \in Ops
    <3>1. \A c \in Calls : call'[c] = Idle
      BY <1>4 DEF Crash
    <3>2. ~Idle.authorized
      BY DEF Idle
    <3>3. o \in made' /\ made' \subseteq made
      BY <1>4, <3>1, <3>2 DEF Vouched, Crash
    <3> QED BY <3>3 DEF MadeInv, MadeOnRecord
  <2>3. journal.status[o] \in Begun \cup {"absent"} /\ journalDisk.status[o] \in Begun \cup {"absent"}
    BY <1>4 DEF MadeInv, VouchedBegun
  <2> QED BY <2>1, <2>2, <2>3, FiledMeans DEF Stops, journalVars
<1>5. ASSUME o \in Vouched, NEW ok \in BOOLEAN, Restart(ok)
      PROVE  /\ journal'.status[o] \in Begun \cup {"absent"}
             /\ journalDisk'.status[o] \in Begun \cup {"absent"}
  <2>1. Starts \/ UNCHANGED journalVars
    BY <1>5, ProcessJournal DEF Restart
  <2>2. o \in Ops
    <3>1. \A c \in Calls : call'[c] = Idle
      BY <1>5, DownIsIdle DEF Ground
    <3>2. ~Idle.authorized
      BY DEF Idle
    <3>3. o \in made
      BY <1>5, <3>1, <3>2 DEF Vouched, Restart, history
    <3> QED BY <3>3 DEF MadeInv, MadeOnRecord
  <2>3. journal.status[o] \in Begun \cup {"absent"} /\ journalDisk.status[o] \in Begun \cup {"absent"}
    BY <1>5 DEF MadeInv, VouchedBegun
  <2>4. J!Recover(journalDisk).status[o] \in Begun \cup {"absent"}
    BY <2>2, <2>3, RecoverFiled DEF Ground, Facts, Typed, Begun
  <2> QED BY <2>1, <2>2, <2>3, <2>4, FiledMeans DEF Starts, journalVars
<1> QED BY <1>1, <1>2, <1>3, <1>4, <1>5, JournalKinds DEF Ground

\* What has been made stays on record, where rename replaces the file.
LEMMA MadeKept ==
  ASSUME ~UnlinkFallback, Ground, MadeInv, ScopedNext
  PROVE  MadeOnRecord'
<1> DEFINE kept(o) == IF journalUp' THEN journal'.status[o] # "absent" ELSE journalDisk'.status[o] # "absent"
<1>1. made \subseteq Ops /\ strays \subseteq strays' /\ left \subseteq left'
  BY HistoriesGrow DEF MadeInv, MadeOnRecord
<1>2. SUFFICES /\ made' \subseteq Ops
               /\ \A o \in made' \ Excused : kept(o)
  BY <1>1 DEF MadeOnRecord, Recorded, Excused
<1>3. \A o \in made \ Excused : IF journalUp THEN Recorded(o) ELSE journalDisk.status[o] # "absent"
  BY DEF MadeInv, MadeOnRecord
<1>4. ASSUME NEW c \in Calls, SubmitsBy(c) PROVE made' \subseteq Ops /\ \A o \in made' \ Excused : kept(o)
  <2>1. PICK q \in Ops, p \in Payloads, ok \in BOOLEAN :
           p.version <= sup.grant[p.grant].version /\ Submit(c, q, p, ok)
    BY <1>4 DEF SubmitsBy
  <2>2. journalUp' = TRUE \/ journalUp'
    BY <2>1, SubmitInserts DEF Inserts, Ground
  <2> QED BY <1>1, <2>1, <2>2 DEF Submit
<1>5. ASSUME Serving, Rewrites, ~Crash, \A c \in Calls : ~SubmitsBy(c)
      PROVE  made' \subseteq Ops /\ \A o \in made' \ Excused : kept(o)
  <2>1. journalUp /\ journalUp'
    BY <1>5 DEF Serving, Rewrites, journalVars, Relabels
  <2>2. ASSUME NEW o \in made' \ Excused PROVE o \in Ops /\ Recorded(o)
    <3>1. CASE o \in made
      BY <1>1, <1>3, <2>1, <2>2, <3>1
    <3>2. CASE o \notin made
      <4>1. PICK c \in Calls : Act(c)
        BY <1>5, <2>2, <3>2, HistoriesGrow
      <4>2. call[c].op = o /\ call[c].run = "acting"
        BY <2>2, <3>2, <4>1 DEF Act
      <4>3. Live(c)
        BY <4>2 DEF Live, Idle
      <4> QED BY <2>2, <4>2, <4>3 DEF Ground, RecordInv, OnRecord, Excused, Facts, Attached
    <3> QED BY <3>1, <3>2
  <2>3. \A o \in Ops : Recorded(o) => journal'.status[o] # "absent"
    BY <1>5, RewritesMean DEF Recorded, Ground
  <2>4. made' \subseteq Ops
    <3>1. ASSUME NEW c \in Calls, Act(c) PROVE made' \subseteq Ops
      <4>1. call[c].op \in Ops
        <5>1. Live(c)
          BY <3>1 DEF Act, Live, Idle
        <5> QED BY <5>1 DEF Ground, Facts, Attached
      <4> QED BY <1>1, <3>1, <4>1 DEF Act
    <3> QED BY <1>1, <1>5, <3>1, HistoriesGrow
  <2> QED BY <2>1, <2>2, <2>3, <2>4
<1>6. CASE Crash
  <2>1. ~journalUp' /\ journalDisk' = journalDisk
    BY <1>6, ProcessJournal DEF Crash, Stops, journalVars
  <2>2. made' = {o \in made : journalDisk.status[o] # "absent"}
    BY <1>6 DEF Crash
  <2> QED BY <1>1, <2>1, <2>2
<1>7. ASSUME NEW ok \in BOOLEAN, Restart(ok) PROVE made' \subseteq Ops /\ \A o \in made' \ Excused : kept(o)
  <2>1. made' = made
    BY <1>7 DEF Restart, history
  <2>2. CASE UNCHANGED journalVars
    BY <1>1, <1>3, <2>1, <2>2 DEF journalVars, Recorded
  <2>3. CASE J!JournalRestart
    <3>1. \A o \in Ops : J!Recover(journalDisk).status[o] # "absent" \/ journalDisk.status[o] = "absent"
      BY RecoverFiled DEF Ground, Facts, Typed
    <3>2. /\ ~journalUp
          /\ \/ journalUp' /\ journal' = J!Recover(journalDisk)
             \/ ~journalUp' /\ journalDisk' \in {journalDisk, J!Recover(journalDisk)}
      BY <2>3 DEF J!JournalRestart, J!CommitFails, J!FileAfterFailure
    <3> QED BY <1>1, <1>3, <2>1, <3>1, <3>2
  <2> QED BY <1>7, <2>2, <2>3 DEF Restart
<1> QED BY <1>4, <1>5, <1>6, <1>7, JournalKinds DEF Ground


\* Whoever gave up leaves nothing to execute again.
LEMMA NotReopenedKept ==
  ASSUME Ground, MadeInv, ScopedNext, VouchedBegun'
  PROVE  NotReopened'
<1>1. CASE Crash \/ \E ok \in BOOLEAN : Restart(ok)
  BY <1>1, DownIsIdle DEF Ground, NotReopened, Live
<1>2. ASSUME NEW c \in Calls, call'[c] # Idle, call'[c].pc = "idle",
             (Serving /\ Rewrites) \/ \E d \in Calls : SubmitsBy(d)
      PROVE  call'[c].op \in Excused' \/ journal'.status[call'[c].op] \notin {"recorded", "pending"}
  <2>1. Moves(c) /\ Excused \subseteq Excused'
    BY ScopedMoves, HistoriesGrow DEF AllMove, Ground, Excused
  <2>2. Live(c) /\ call'[c].op = call[c].op
    BY <1>2, <2>1 DEF Moves, Born, Goes, Live
  <2> PICK o : o = call[c].op
    OBVIOUS
  <2>3. o \in Ops /\ OnRecord(c) /\ (call[c].pc = "idle" => call[c].run # "none")
    BY <2>2 DEF Ground, RecordInv, Facts, Attached
  <2>4. CASE o \in Excused
    BY <2>1, <2>2, <2>4
  <2>5. CASE call[c].pc # "idle"
    <3>1. \/ call'[c].authorized
          \/ o \in left'
          \/ journal'.status[o] \notin {"recorded", "pending"}
      BY <1>2, <2>5, GivenUp DEF Ground
    <3>2. CASE call'[c].authorized
      <4>1. o \in Vouched' \/ o \in Excused'
        BY <2>2, <3>2 DEF Vouched
      <4> QED BY <2>2, <4>1 DEF VouchedBegun, Begun
    <3> QED BY <2>2, <3>1, <3>2 DEF Excused
  <2>6. CASE o \notin Excused /\ call[c].pc = "idle"
    <3>1. journal.status[o] \notin {"absent", "recorded", "pending"}
      BY <2>2, <2>3, <2>6 DEF MadeInv, NotReopened, OnRecord, Recorded, Excused
    <3>2. CASE Rewrites
      <4>1. journal'.status[o] # "recorded"
        BY <2>3, <3>1, <3>2, RewritesMean DEF Relabels, Ground
      <4>2. journal'.status[o] # "pending"
        BY <2>3, <3>1, <3>2, RewritesMean DEF Relabels, Ground
      <4> QED BY <2>2, <4>1, <4>2
    <3>3. ASSUME NEW d \in Calls, SubmitsBy(d) PROVE journal'.status[o] \notin {"recorded", "pending"}
      <4>1. PICK q \in Ops, p \in Payloads, ok \in BOOLEAN :
               p.version <= sup.grant[p.grant].version /\ Submit(d, q, p, ok)
        BY <3>3 DEF SubmitsBy
      <4>2. o # q
        BY <3>1, <4>1, SubmitMeans DEF Ground, Recorded
      <4> QED BY <2>3, <3>1, <4>1, <4>2, SubmitMeans DEF Ground
    <3> QED BY <1>2, <2>2, <3>2, <3>3
  <2> QED BY <2>4, <2>5, <2>6
<1> QED BY <1>1, <1>2, JournalKinds DEF Ground, NotReopened, Live

\* A new execution is the only one of its operation, or finds a record left behind.
LEMMA BornAlone ==
  ASSUME Ground, MadeInv, ScopedNext, NEW c \in Calls, Born(c)
  PROVE  /\ CallStep(c) /\ \A d \in Calls \ {c} : call'[d] = call[d]
         /\ call'[c].op \in Excused \/
               /\ \A d \in Calls : Live(d) => call[d].op # call'[c].op
               /\ call'[c].op \notin made
<1>1. call[c] = Idle /\ call'[c] # Idle /\ call'[c].pc # "idle"
  BY DEF Born
<1>2. CallStep(c) /\ \A d \in Calls \ {c} : call'[d] = call[d]
  <2>1. Idle.pc = "idle"
    BY DEF Idle
  <2> QED BY <1>1, <2>1, OneMoves DEF Ground
<1> PICK o : o = call'[c].op
  OBVIOUS
<1>3. /\ \A d \in Calls : call[d].pc # "idle" => call[d].op # o
      /\ journal.status[o] \in {"absent", "recorded", "pending"}
      /\ Serving
  BY DEF Born, Fresh, Ready
<1>4. ASSUME o \notin Excused, NEW d \in Calls, Live(d), call[d].op = o PROVE FALSE
  <2>1. call[d].pc = "idle" /\ call[d].run # "none"
    BY <1>3, <1>4 DEF Ground, Facts, Attached
  <2>2. Recorded(o)
    BY <1>4, <2>1 DEF Ground, RecordInv, OnRecord, Excused
  <2>3. journal.status[o] \notin {"recorded", "pending"}
    BY <1>4, <2>1 DEF MadeInv, NotReopened
  <2> QED BY <1>3, <2>2, <2>3 DEF Recorded
<1>5. ASSUME o \notin Excused, o \in made PROVE FALSE
  <2>1. Recorded(o)
    BY <1>3, <1>5 DEF MadeInv, MadeOnRecord, Serving
  <2>2. journal.status[o] \in Begun \cup {"absent"}
    BY <1>5 DEF MadeInv, VouchedBegun, Vouched
  <2> QED BY <1>3, <2>1, <2>2 DEF Recorded, Begun
<1> QED BY <1>2, <1>4, <1>5

\* Operations keep one execution each.
LEMMA OneEachKept ==
  ASSUME Ground, MadeInv, ScopedNext
  PROVE  OneEach'
<1>1. Excused \subseteq Excused' /\ AllMove
  BY ScopedMoves, HistoriesGrow DEF Ground, Excused
<1>2. ASSUME NEW c \in Calls, call'[c] # Idle, ~Born(c)
      PROVE  Live(c) /\ call'[c].op = call[c].op
  BY <1>1, <1>2 DEF AllMove, Moves, Goes, Live
<1>3. ASSUME NEW c \in Calls, NEW d \in Calls, c # d, call'[c] # Idle, call'[d] # Idle,
             call'[c].op = call'[d].op, Born(c)
      PROVE  call'[c].op \in Excused
  <2>1. call'[d] = call[d] /\ Live(d)
    BY <1>3, BornAlone DEF Live
  <2> QED BY <1>3, <2>1, BornAlone
<1>4. ASSUME NEW c \in Calls, NEW d \in Calls, c # d, call'[c] # Idle, call'[d] # Idle,
             call'[c].op = call'[d].op, ~Born(c), ~Born(d)
      PROVE  call'[c].op \in Excused
  <2>1. Live(c) /\ Live(d) /\ call[c].op = call[d].op /\ call'[c].op = call[c].op
    BY <1>2, <1>4
  <2> QED BY <1>4, <2>1 DEF MadeInv, OneEach
<1>5. ASSUME NEW c \in Calls, NEW d \in Calls, c # d, call'[c] # Idle, call'[d] # Idle,
             call'[c].op = call'[d].op
      PROVE  call'[c].op \in Excused'
  <2>1. CASE Born(c)
    BY <1>1, <1>3, <1>5, <2>1
  <2>2. CASE Born(d)
    BY <1>1, <1>3, <1>5, <2>2
  <2>3. CASE ~Born(c) /\ ~Born(d)
    BY <1>1, <1>4, <1>5, <2>3
  <2> QED BY <2>1, <2>2, <2>3
<1> QED BY <1>5 DEF OneEach, Live

\* Only what is authorised is made.
LEMMA UntouchedKept ==
  ASSUME Ground, MadeInv, ScopedNext
  PROVE  Untouched'
<1> SUFFICES ASSUME NEW c \in Calls, call'[c] # Idle, ~call'[c].authorized, call'[c].op \in made'
             PROVE  call'[c].op \in Excused'
  BY DEF Untouched, Live
<1> PICK o : o = call'[c].op
  OBVIOUS
<1>1. Excused \subseteq Excused' /\ Moves(c)
  BY ScopedMoves, HistoriesGrow DEF Ground, Excused, AllMove
<1>2. o \in made \/ \E d \in Calls : Act(d) /\ call[d].op = o
  <2>1. \A d \in Calls : SubmitsBy(d) => made' \subseteq made
    BY DEF SubmitsBy, Submit
  <2>2. Crash => made' \subseteq made
    BY DEF Crash
  <2>3. \A d \in Calls : Act(d) => made' \subseteq made \cup {call[d].op}
    BY DEF Act
  <2> QED BY <2>1, <2>2, <2>3, HistoriesGrow
<1>3. CASE Born(c)
  <2>1. ASSUME NEW d \in Calls, Act(d), call[d].op = o PROVE Live(d)
    BY <2>1 DEF Act, Live, Idle
  <2>2. o \in Excused
    BY <1>2, <1>3, <2>1, BornAlone
  <2> QED BY <1>1, <2>2
<1>4. CASE ~Born(c)
  <2>1. Live(c) /\ call[c].op = o /\ ~call[c].authorized
    BY <1>1, <1>4 DEF Moves, Goes, Live
  <2>2. CASE o \in made
    BY <1>1, <2>1, <2>2 DEF MadeInv, Untouched
  <2>3. ASSUME NEW d \in Calls, Act(d), call[d].op = o PROVE o \in Excused
    <3>1. Live(d) /\ call[d].run = "acting"
      BY <2>3 DEF Act, Live, Idle
    <3>2. call[d].authorized
      BY <3>1 DEF Ground, PolicyInv
    <3>3. c # d
      BY <2>1, <3>2
    <3> QED BY <2>1, <2>3, <3>1, <3>3 DEF MadeInv, OneEach
  <2> QED BY <1>1, <1>2, <2>2, <2>3
<1> QED BY <1>3, <1>4

\* What the journal says failed or was cancelled has not touched the UI, whichever of
\* the execution and its run ends first: failBeforeDispatch settles a record only for
\* an execution that has not been authorised, and an operation has one execution.
THEOREM FailedNeverTouched ==
  ASSUME ~UnlinkFallback
  PROVE  ScopedSpec => []FailedMeansUntouched
<1> DEFINE Inv == Ground /\ MadeInv
<1>1. ScopedInit => Inv
  <2> SUFFICES ASSUME ScopedInit PROVE Inv
    OBVIOUS
  <2>1. Facts /\ Placed /\ \A c \in Calls : call[c] = Idle
    BY ScopedStart
  <2>2. TurnInv
    BY <2>1 DEF TurnInv, InOrder, InTurn, Idle, Checked
  <2>3. \A c \in Calls : ~Live(c) /\ ~call[c].authorized
    <3>1. ~Idle.authorized
      BY DEF Idle
    <3> QED BY <2>1, <3>1 DEF Live
  <2>4. made = {} /\ Vouched = {}
    BY <2>3 DEF ScopedInit, Vouched
  <2>5. PolicyInv /\ RecordInv
    BY <2>3 DEF PolicyInv, RecordInv
  <2>6. MadeInv
    BY <2>3, <2>4 DEF MadeInv, MadeOnRecord, VouchedBegun, NotReopened, OneEach, Untouched
  <2> QED BY <2>1, <2>2, <2>5, <2>6 DEF Ground
<1>2. Inv /\ [ScopedNext]_scopedVars => Inv'
  <2>1. ASSUME Inv, ScopedNext PROVE Inv'
    <3>1. Ground'
      BY <2>1, FactsKept, PlacedKept, PolicyInvKept, TurnInvKept, RecordInvKept DEF Ground
    <3>2. VouchedBegun'
      BY <2>1, VouchedKept
    <3>3. MadeOnRecord' /\ OneEach' /\ Untouched' /\ NotReopened'
      BY <2>1, <3>2, MadeKept, OneEachKept, UntouchedKept, NotReopenedKept
    <3> QED BY <3>1, <3>2, <3>3 DEF MadeInv
  <2>2. ASSUME Inv, UNCHANGED scopedVars PROVE Inv'
    <3>1. Facts' /\ Placed' /\ PolicyInv'
      BY <2>2, ScopedStutter DEF Ground
    <3>2. TurnInv'
      BY <2>2 DEF Ground, scopedVars, journalVars, TurnInv, InOrder, InTurn
    <3>3. RecordInv'
      BY <2>2 DEF Ground, scopedVars, journalVars, history, RecordInv, OnRecord, Recorded, Live
    <3>4. MadeOnRecord' /\ VouchedBegun'
      BY <2>2 DEF scopedVars, journalVars, history, MadeInv, MadeOnRecord, VouchedBegun, Vouched, Excused,
                  Recorded
    <3>5. NotReopened' /\ OneEach' /\ Untouched'
      BY <2>2 DEF scopedVars, journalVars, history, MadeInv, NotReopened, OneEach, Untouched, Excused, Live
    <3> QED BY <3>1, <3>2, <3>3, <3>4, <3>5 DEF Ground, MadeInv
  <2> QED BY <2>1, <2>2
<1>3. Inv => FailedMeansUntouched
  BY DEF MadeInv, VouchedBegun, Vouched, Excused, Begun, FailedMeansUntouched
<1> HIDE DEF Inv
<1> QED BY <1>1, <1>2, <1>3, PTL DEF ScopedSpec

================================================================================
