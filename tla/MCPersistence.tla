----------------------------- MODULE MCPersistence -----------------------------
(***************************************************************************)
(* The files the server keeps: the journal, which assumes of its file what *)
(* Persist says; the system calls of writeFileAtomic, which have to keep   *)
(* it; the adapters with their own backups; and the sessions of the web    *)
(* app.  A behaviour is one of a single part: they share nothing but the   *)
(* assumption.                                                             *)
(***************************************************************************)
EXTENDS OperationJournal, FiniteSets

CONSTANTS
    Values, Absent, Torn,
    Adapters, NoAdapter, MaxAdapters, Backups, MaxCommits, MaxFaults, MaxThrows, MaxWaiting,
    Tokens, MaxSessions, MaxAge, MaxIdle, PersistInterval, LastTick

ASSUME IntervalAssumption == PersistInterval \in Nat
ASSUME AdapterAssumption == IsFiniteSet(Adapters) /\ Backups \in Nat \ {0} /\ Absent # Torn

VARIABLES
    part,
    strict, file, images, pc, synced, old, written, before, result,
    store, primary, backup, commit, rejecting, answering, registry, up, chain, faults, throws, revoked,
    sessions, saved, dirty, lastPersist, timer, now, unsaved

\* The file is written on a system where rename may have to remove its target first.
F == INSTANCE AtomicFile WITH UnlinkFallback <- TRUE, next <- written
A == INSTANCE AdapterStore
W == INSTANCE WebSessions

fileVars    == <<strict, file, images, pc, synced, old, written, before, result>>
adapterVars == <<store, primary, backup, commit, rejecting, answering, registry, up, chain, faults, throws, revoked>>
sessionVars == <<sessions, saved, dirty, lastPersist, timer, now, unsaved>>

vars == <<part, journalVars, fileVars, adapterVars, sessionVars>>

\* The other parts, when only one is of interest.
NoFile ==
    /\ strict = TRUE /\ file = Absent /\ images = {Absent} /\ pc = "idle" /\ synced = FALSE
    /\ old = Absent /\ written = Absent /\ before = {Absent} /\ result = "none"

NoAdapters == A!AdapterInit /\ primary = Absent

Init ==
    /\ JournalInit /\ W!SessionInit
    /\ \/ part \in {"journal", "sessions"} /\ NoFile /\ NoAdapters
       \/ part = "file" /\ F!FileInit /\ NoAdapters
       \/ part = "adapters" /\ NoFile /\ A!AdapterInit

Next ==
    /\ UNCHANGED part
    /\ \/ part = "journal" /\ JournalNext /\ UNCHANGED <<fileVars, adapterVars, sessionVars>>
       \/ part = "file" /\ F!FileNext /\ UNCHANGED <<journalVars, adapterVars, sessionVars>>
       \/ part = "adapters" /\ A!AdapterNext /\ UNCHANGED <<journalVars, fileVars, sessionVars>>
       \/ part = "sessions" /\ W!SessionNext /\ UNCHANGED <<journalVars, fileVars, adapterVars>>

Spec == Init /\ [][Next]_vars

\* A strict write that returned is on the disk: writeFileAtomic's fsyncs of the data
\* and of the directory, whatever failed in the writes before.  And what a write that
\* threw, or was cut short, leaves is what Persist lets the other modules assume
\* (persist.ts:40-66).
WritesKeepTheirPromise == F!ReturnedIsDurable /\ F!OutcomesAsAssumed

\* A primary that is damaged costs one change of the adapters, and so does each rotation
\* that was cut short or could not copy; nothing else costs any (adapter-store.ts:81-102,
\* 242-260).
OneFaultOneChange == A!OneFaultOneChange

\* An adapter whose rollback was answered with success is not used again until it is
\* applied again (adapter-store.ts:174-198, relay.ts:1645-1646, adapter-registry.ts:25).
RolledBackStaysOut == A!RolledBackStaysOut

\* A restart revives no session that was evicted or had expired, loses none, and forgets
\* at most an interval of use, unless the latest write failed (webapp-sessions.ts:116-206).
RestartLosesAnInterval == W!RestartLosesAnInterval

================================================================================
