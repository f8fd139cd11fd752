--------------------------- MODULE OperationJournal ---------------------------
(***************************************************************************)
(* src/server/operation-journal.ts: the durable journal of supervised      *)
(* operations.  Memory and file hold the whole store; every change clones  *)
(* the store, writes the clone and only then adopts it, so a write that    *)
(* throws can leave the file one change ahead of memory.  A method that    *)
(* throws before it writes changes nothing and is no step.                 *)
(*                                                                         *)
(* A store is the order in which records were inserted together with the   *)
(* status and the payload digest of each; ids without a record are         *)
(* "absent".  A missing file is loaded as the empty store, and is written  *)
(* here as one.  Timestamps and target fields are left out: no decision of *)
(* the journal reads them.                                                 *)
(***************************************************************************)
EXTENDS Naturals, Sequences, Persist

CONSTANTS
    Ops,             \* operation ids
    Digests,         \* payload digests
    NoDigest,        \* the digest of an id without a record
    MaxRecords       \* OPERATION_JOURNAL_MAX_RECORDS

ASSUME JournalAssumption ==
    /\ MaxRecords \in Nat \ {0}
    /\ NoDigest \notin Digests

VARIABLES
    journal,       \* this.state: the store in memory
    journalDisk,   \* operation-journal.json
    journalUp,     \* the process has constructed its journal
    begun          \* history: ids whose markDispatching returned, until dropped

journalVars == <<journal, journalDisk, journalUp, begun>>

--------------------------------------------------------------------------------
(* Statuses and stores.                                                    *)

Undispatched == {"recorded", "pending"}                     \* CANCEL_FROM, DISPATCH_FROM
Unresolved   == {"dispatching", "dispatched", "unknown"}    \* SETTLE_FROM
Terminal     == {"confirmed", "failed", "cancelled"}        \* not PROTECTED_STATUSES
Statuses     == Undispatched \cup Unresolved \cup Terminal

Stores == [order  : Seq(Ops),
           status : [Ops -> Statuses \cup {"absent"}],
           digest : [Ops -> Digests \cup {NoDigest}]]

EmptyStore == [order  |-> << >>,
               status |-> [o \in Ops |-> "absent"],
               digest |-> [o \in Ops |-> NoDigest]]

Present(s, o) == s.status[o] # "absent"

SetStatus(s, o, st) == [s EXCEPT !.status[o] = st]

Insert(s, o, d) ==
    [order  |-> Append(s.order, o),
     status |-> [s.status EXCEPT ![o] = "recorded"],
     digest |-> [s.digest EXCEPT ![o] = d]]

\* The positions compaction may drop, and the one it drops: the oldest.
Droppable(s) == {i \in DOMAIN s.order : s.status[s.order[i]] \in Terminal}
OldestDroppable(s) == {i \in Droppable(s) : \A j \in Droppable(s) : i <= j}

Drop(s, i) ==
    [order  |-> [k \in 1 .. (Len(s.order) - 1) |-> s.order[IF k < i THEN k ELSE k + 1]],
     status |-> [s.status EXCEPT ![s.order[i]] = "absent"],
     digest |-> [s.digest EXCEPT ![s.order[i]] = NoDigest]]

HasRoomOneTooMany(s) == Len(s.order) <= MaxRecords

HasRoom(s) == Len(s.order) < MaxRecords

RecoverToCancelled(s) ==
    [s EXCEPT !.status = [o \in Ops |->
        IF s.status[o] \in {"recorded", "pending", "dispatching"} THEN "cancelled"
        ELSE IF s.status[o] = "dispatched" THEN "unknown"
        ELSE s.status[o]]]

\* load: what a restart makes of the records it finds.
Recover(s) ==
    [s EXCEPT !.status = [o \in Ops |->
        IF s.status[o] = "recorded" THEN "cancelled"
        ELSE IF s.status[o] \in {"pending", "dispatching", "dispatched"} THEN "unknown"
        ELSE s.status[o]]]

\* validateStore: what load accepts.
Loadable(s) ==
    /\ Len(s.order) <= MaxRecords
    /\ \A i, j \in DOMAIN s.order : i # j => s.order[i] # s.order[j]

--------------------------------------------------------------------------------
(* commit: the outcomes of writing `next` for the file and for memory.     *)

CommitWithoutWrite(next) ==
    /\ journal' = next
    /\ UNCHANGED journalDisk

Commits(next) ==
    /\ journal' = next
    /\ journalDisk' = next

\* writeJsonAtomic throws: memory keeps what it has.
CommitFails(next) ==
    /\ UNCHANGED journal
    /\ journalDisk' \in FileAfterFailure(journalDisk, next, EmptyStore)

Write(next, ok) == IF ok THEN Commits(next) ELSE CommitFails(next)

Commit(next, ok) ==
    /\ Write(next, ok)
    /\ UNCHANGED <<journalUp, begun>>

--------------------------------------------------------------------------------
(* The journal's methods; `ok` says whether the write returns.             *)

JournalInit ==
    /\ journal = EmptyStore
    /\ journalDisk = EmptyStore
    /\ journalUp = TRUE
    /\ begun = {}

CreateWithRoom(o, d, ok) ==
    /\ journalUp
    /\ ~Present(journal, o)
    /\ HasRoom(journal)
    /\ Commit(Insert(journal, o, d), ok)

CreateDroppingAny(o, d, ok) ==
    /\ journalUp
    /\ ~Present(journal, o)
    /\ ~HasRoom(journal)
    /\ \E i \in DOMAIN journal.order :
          /\ Write(Insert(Drop(journal, i), o, d), ok)
          /\ begun' = IF ok THEN begun \ {journal.order[i]} ELSE begun
    /\ UNCHANGED journalUp

\* The store is full, so exactly one record is dropped; with none to drop
\* create throws "operation journal full".
CreateDroppingOldest(o, d, ok) ==
    /\ journalUp
    /\ ~Present(journal, o)
    /\ ~HasRoom(journal)
    /\ \E i \in OldestDroppable(journal) :
          /\ Write(Insert(Drop(journal, i), o, d), ok)
          /\ begun' = IF ok THEN begun \ {journal.order[i]} ELSE begun
    /\ UNCHANGED journalUp

MarkPending(o, ok) ==
    /\ journalUp
    /\ journal.status[o] \in {"recorded", "pending"}
    /\ Commit(SetStatus(journal, o, "pending"), ok)

\* Also accepts a record that is already dispatching: the call then returns.
MarkDispatching(o, ok) ==
    /\ journalUp
    /\ journal.status[o] \in Undispatched \cup {"dispatching"}
    /\ Write(SetStatus(journal, o, "dispatching"), ok)
    /\ begun' = IF ok THEN begun \cup {o} ELSE begun
    /\ UNCHANGED journalUp

MarkDispatched(o, ok) ==
    /\ journalUp
    /\ journal.status[o] \in {"dispatching", "dispatched"}
    /\ Commit(SetStatus(journal, o, "dispatched"), ok)

Settle(o, outcome, ok) ==
    /\ journalUp
    /\ \/ journal.status[o] \in Unresolved
       \/ outcome = "failed" /\ journal.status[o] \in Undispatched
    /\ Commit(SetStatus(journal, o, outcome), ok)

CancelPending(o, ok) ==
    /\ journalUp
    /\ journal.status[o] \in Undispatched
    /\ Commit(SetStatus(journal, o, "cancelled"), ok)

JournalCrash ==
    /\ journalUp
    /\ journalUp' = FALSE
    /\ journal' = EmptyStore
    /\ begun' = {o \in begun : Present(journalDisk, o)}
    /\ UNCHANGED journalDisk

\* The constructor throws on a store it cannot accept; otherwise it rewrites a
\* store it had to change, and throws when that write does.
JournalRestart ==
    /\ ~journalUp
    /\ Loadable(journalDisk)
    /\ LET next == Recover(journalDisk) IN
       \/ /\ journalUp' = TRUE
          /\ journal' = next
          /\ journalDisk' = next
       \/ /\ next # journalDisk
          /\ CommitFails(next)
          /\ UNCHANGED journalUp
    /\ UNCHANGED begun

JournalNext ==
    \/ \E o \in Ops, ok \in BOOLEAN :
          \/ \E d \in Digests : CreateWithRoom(o, d, ok) \/ CreateDroppingOldest(o, d, ok)
          \/ MarkPending(o, ok)
          \/ MarkDispatching(o, ok)
          \/ MarkDispatched(o, ok)
          \/ \E outcome \in {"confirmed", "failed", "unknown"} : Settle(o, outcome, ok)
          \/ CancelPending(o, ok)
    \/ JournalCrash
    \/ JournalRestart

JournalSpec == JournalInit /\ [][JournalNext]_journalVars

--------------------------------------------------------------------------------
(* Properties.                                                             *)

\* What the process knows of the operations, or will know once it restarts.
KnownStore == IF journalUp THEN journal ELSE Recover(journalDisk)

\* A store whose order lists exactly the ids that have a record, and that the
\* next start would accept.
Sound(s) ==
    /\ s \in Stores
    /\ Loadable(s)
    /\ \A o \in Ops : Present(s, o) <=> \E i \in DOMAIN s.order : s.order[i] = o

\* Type invariant.  It includes what validateStore demands of a file, for the
\* file and for memory: a store the journal writes is one the next start accepts.
JournalTypeOK ==
    /\ Sound(journal)
    /\ Sound(journalDisk)
    /\ journalUp \in BOOLEAN
    /\ begun \subseteq Ops

\* An operation whose dispatch was authorised is, in memory and in the file, past
\* the point where any method would let it be dispatched or cancelled, whichever
\* writes failed and wherever the process died: markDispatching is durable before
\* the caller acts (scoped-command-service.ts beforeDispatch relies on it).  Only
\* a record with an outcome may be missing from the file: the one that a failed
\* create had dropped.
BegunIsDurable ==
    \A o \in begun :
        /\ journalUp => journal.status[o] \in Unresolved \cup {"confirmed", "failed"}
        /\ \/ journalDisk.status[o] \in Unresolved \cup {"confirmed", "failed"}
           \/ /\ journalDisk.status[o] = "absent"
              /\ journalUp /\ journal.status[o] \in Terminal

\* A record whose outcome is not known is never dropped to make room, reset by a
\* restart or overwritten by anything but an outcome, in what the process knows.
UnresolvedOnlySettles ==
    [][\A o \in Ops : KnownStore.status[o] \in Unresolved =>
          KnownStore.status[o]' \in Unresolved \cup {"confirmed", "failed"}]_journalVars

PhaseOf(st) ==
    CASE st = "absent"                  -> "absent"
      [] st \in Undispatched            -> "undispatched"
      [] st = "dispatching"             -> "inflight"
      [] st \in {"dispatched", "unknown"} -> "uncertain"
      [] st \in Terminal                -> "done"

KnownPhases == [o \in Ops |-> PhaseOf(KnownStore.status[o])]

Ledger == INSTANCE OperationLedger WITH ledger <- KnownPhases

\* The journal implements the ledger: through write failures, compaction, crashes
\* and restarts, no operation goes back from "may have begun" to "may begin".
ImplementsLedger == Ledger!LedgerSpec

================================================================================
