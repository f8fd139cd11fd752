---------------------------- MODULE OperationLedger ----------------------------
(***************************************************************************)
(* What the operation journal promises the code that uses it, without      *)
(* files, statuses, capacity or restarts: for every operation id, how far  *)
(* it may have got towards the user interface.  An operation that may have *)
(* begun to act on the interface is never again one that may begin: it     *)
(* stays uncertain until an outcome is recorded, and only an operation     *)
(* with an outcome can be forgotten.                                       *)
(***************************************************************************)

CONSTANT Ops

VARIABLE ledger

Phases == {"absent", "undispatched", "inflight", "uncertain", "done"}

LedgerInit == ledger = [o \in Ops |-> "absent"]

\* A new operation is accepted; finished ones may be forgotten to make room.
Accept(o) ==
    /\ ledger[o] = "absent"
    /\ \E forgotten \in SUBSET {p \in Ops : ledger[p] = "done"} :
          ledger' = [p \in Ops |-> IF p = o THEN "undispatched"
                                   ELSE IF p \in forgotten THEN "absent"
                                   ELSE ledger[p]]

\* The only step after which an operation may act on the interface.
Begin(o) ==
    /\ ledger[o] = "undispatched"
    /\ ledger' = [ledger EXCEPT ![o] = "inflight"]

\* The outcome becomes known, or known to be unknown.
Resolve(o) ==
    \/ /\ ledger[o] \in {"undispatched", "inflight", "uncertain"}
       /\ ledger' = [ledger EXCEPT ![o] = "done"]
    \/ /\ ledger[o] \in {"inflight", "uncertain"}
       /\ ledger' = [ledger EXCEPT ![o] = "uncertain"]

\* Where an operation may stand after the process died.
AfterCrash(phase) ==
    CASE phase = "absent"       -> {"absent", "done"}
      [] phase = "undispatched" -> {"uncertain", "done"}
      [] phase = "inflight"     -> {"uncertain", "done"}
      [] phase = "uncertain"    -> {"uncertain", "done"}
      [] phase = "done"         -> {"done", "absent"}

CrashAndRecover ==
    /\ ledger' \in [Ops -> Phases]
    /\ \A o \in Ops : ledger'[o] \in AfterCrash(ledger[o])

LedgerNext ==
    \/ \E o \in Ops : Accept(o) \/ Begin(o) \/ Resolve(o)
    \/ CrashAndRecover

LedgerSpec == LedgerInit /\ [][LedgerNext]_ledger

================================================================================
