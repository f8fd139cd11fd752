----------------------------- MODULE AdapterStore -----------------------------
(***************************************************************************)
(* src/server/adapter-store.ts, adapter-registry.ts and                    *)
(* runtime-selector-provider.ts: the selector adapters found by discovery, *)
(* what the owner decided about them, the file and its rotated backups,    *)
(* and the adapter the runtime resolves its selectors with.                *)
(*                                                                         *)
(* One binding tuple (Cursor build, endpoint, DOM signature, capability)   *)
(* is modelled: bindings of different tuples never meet.  Every operation  *)
(* runs under the mutex, changes the data in memory and then commits them, *)
(* so a commit that fails leaves memory ahead of the file.  hydrate drops  *)
(* bindings without an adapter, of which trimAdapters leaves none.         *)
(***************************************************************************)
EXTENDS Naturals, FiniteSets, SequencesExt

CONSTANTS
    Adapters, NoAdapter,
    Absent, Torn,      \* a file that is not there, one that does not parse
    MaxAdapters,       \* ADAPTER_STORE_MAX
    Backups,           \* backupCount
    MaxCommits,        \* bound: changes of the file
    MaxFaults,         \* bound: damaged files, and rotations that go wrong
    MaxThrows,         \* bound: operations that end in an error
    MaxWaiting         \* bound: rejections that wait for the mutex

VARIABLES
    store,       \* this.data
    primary,     \* the file
    backup,      \* its backups, the newest first
    commit,      \* the operation in the mutex and its next system call
    rejecting,   \* adapters found undecided by a route that waits for the mutex
    answering,   \* a rollback route between its commit and updateStore
    registry,    \* the source of AdapterRegistry
    up,          \* the store is loaded
    chain,       \* history: what the file has held
    faults, throws,
    revoked      \* history: rolled back, said the route, and not applied since

adapterVars == <<store, primary, backup, commit, rejecting, answering, registry, up, chain, faults, throws, revoked>>

Idle       == [at |-> "idle", turn |-> 0, op |-> "none", adapter |-> NoAdapter]
NoAnswer   == [waits |-> FALSE, adapter |-> NoAdapter]
EmptyStore == [adapters |-> << >>, bound |-> NoAdapter, previous |-> << >>]

--------------------------------------------------------------------------------
(* What the operations make of a store.                                    *)

Listed(s) == {s.adapters[i].id : i \in DOMAIN s.adapters}

StatusOf(s, a) ==
    IF a \in Listed(s) THEN (CHOOSE r \in ToSet(s.adapters) : r.id = a).status ELSE "absent"

SetStatus(s, a, status) ==
    [s EXCEPT !.adapters = [i \in DOMAIN @ |-> IF @[i].id = a THEN [@[i] EXCEPT !.status = status] ELSE @[i]]]

Protected(s, r) == r.status = "active" \/ r.id = s.bound \/ r.id \in ToSet(s.previous)

\* The members of s at the positions in I, in their order (Array.filter).
Filtered(s, I) ==
    [k \in 1..Cardinality(I) |-> s[CHOOSE i \in I : Cardinality({j \in I : j <= i}) = k]]

\* The rest fills the room left, newest first.
TrimAdapters(s) ==
    LET others(n) == {i \in 1..n : ~Protected(s, s.adapters[i])}
        room      == MaxAdapters + Cardinality(others(Len(s.adapters))) - Len(s.adapters)
    IN [s EXCEPT !.adapters =
           Filtered(@, {i \in DOMAIN @ : Protected(s, @[i]) \/ Cardinality(others(i)) <= room})]

Proposed(s, a) ==
    TrimAdapters([s EXCEPT !.adapters = <<[id |-> a, status |-> "pending"]>>
                                        \o Filtered(@, {i \in DOMAIN @ : @[i].id # a})])

Applied(s, a) ==
    LET retired == <<s.bound>> \o Remove(s.previous, s.bound)
    IN TrimAdapters([SetStatus(s, a, "active") EXCEPT
           !.bound = a,
           !.previous = IF s.bound \in {a, NoAdapter} THEN @
                        ELSE SubSeq(retired, 1, IF Len(retired) < MaxAdapters THEN Len(retired) ELSE MaxAdapters)])

RolledBack(s, failed) ==
    LET usable == {i \in DOMAIN s.previous : /\ s.previous[i] # failed
                                              /\ StatusOf(s, s.previous[i]) \in {"pending", "active"}}
        back   == IF usable = {} THEN NoAdapter ELSE s.previous[Min(usable)]
    IN SetStatus([s EXCEPT !.bound = back, !.previous = Remove(@, back)], failed, "rolled_back")

\* AdapterRegistry.find
Find(source) == IF StatusOf(source, source.bound) = "active" THEN source.bound ELSE NoAdapter

\* resolve: the adapter whose selectors replace the builtin ones in the context at hand.
Used == Find(registry)

\* As many found as there is room for, and none of them decided.
Undecided ==
    LET order == CHOOSE s \in SetToSeqs(Adapters) : TRUE
    IN TrimAdapters([EmptyStore EXCEPT !.adapters =
           [i \in DOMAIN order |-> [id |-> order[i], status |-> "pending"]]])

\* Nothing yet, or what a discovery and a decision left before.
AdapterInit ==
    /\ store = EmptyStore /\ registry = EmptyStore
    /\ primary \in {Absent, Undecided} \cup {Applied(Undecided, a) : a \in Listed(Undecided)}
    /\ chain = IF primary = Absent THEN << >> ELSE <<primary>>
    /\ backup = [i \in 1..Backups |-> Absent]
    /\ commit = Idle /\ rejecting = {} /\ answering = NoAnswer /\ up = FALSE
    /\ faults = 0 /\ throws = 0 /\ revoked = {}

--------------------------------------------------------------------------------
(* Operations: each starts its commit.                                     *)

Begin(s, op, a) ==
    /\ up /\ commit = Idle /\ Len(chain) < MaxCommits
    /\ store' = s
    /\ commit' = [at |-> "write", turn |-> Backups, op |-> op, adapter |-> a]
    /\ UNCHANGED <<primary, backup, answering, registry, up, chain, throws, faults>>

\* An active adapter is left as it is.
SavePending(a) ==
    /\ StatusOf(store, a) # "active"
    /\ Begin(Proposed(store, a), "pending", a)
    /\ UNCHANGED <<rejecting, revoked>>

\* No route calls it so far: it is not called while a rollback is answered.
Apply(a) ==
    /\ ~answering.waits
    /\ StatusOf(store, a) \in {"pending", "active"}
    /\ Begin(Applied(store, a), "apply", a)
    /\ revoked' = revoked \ {a}
    /\ UNCHANGED rejecting

\* The turn of a rejection: whatever the adapter is by now, unless it was dropped.
Reject(a) ==
    /\ a \in rejecting /\ rejecting' = rejecting \ {a}
    /\ IF a \in Listed(store)
       THEN Begin(SetStatus(store, a, "rejected"), "reject", a)
       ELSE /\ up /\ commit = Idle
            /\ UNCHANGED <<store, primary, backup, commit, answering, registry, up, chain, throws, faults>>
    /\ UNCHANGED revoked

\* `a` is the adapter the request names, or none.
Rollback(a) ==
    LET failed == IF a = NoAdapter THEN store.bound ELSE a IN
    /\ NoAdapter \in {a, store.bound} \/ a = store.bound
    /\ Begin(RolledBack(store, failed), "rollback", failed)
    /\ UNCHANGED <<rejecting, revoked>>

\* The discovery runner, under the lane of the target: a selector was found to be good.
Discover(a) == SavePending(a)

\* The route: only what is undecided is rejected, as far as it knows when it asks for
\* the mutex.  Routes are served once a restored store is committed.
RejectRoute(a) ==
    /\ up /\ commit.op # "restore"
    /\ StatusOf(store, a) = "pending"
    /\ Cardinality(rejecting) < MaxWaiting
    /\ rejecting' = rejecting \cup {a}
    /\ UNCHANGED <<store, primary, backup, commit, answering, registry, up, chain, faults, throws, revoked>>

\* The route, in the context of the active target.
RollbackRoute(a) == Rollback(a)

--------------------------------------------------------------------------------
(* commitUnlocked.  What waits only for a promise comes before any call    *)
(* returns.                                                                *)

Readable(file) == file \notin {Absent, Torn}

Calling(at) == up /\ commit.at = at /\ ~answering.waits

\* An error ends the operation, and the process when it is still starting.
Throws ==
    /\ throws < MaxThrows /\ throws' = throws + 1
    /\ commit' = Idle
    /\ up' = (commit.op # "restore")
    /\ UNCHANGED <<store, primary, backup, rejecting, answering, registry, chain, faults, revoked>>

\* The temporary file is written and the primary read.
WriteTempFile ==
    /\ Calling("write")
    /\ commit' = [commit EXCEPT !.at = IF ~Readable(primary) THEN "rename"
                                       ELSE IF Backups > 1 THEN "rotate" ELSE "copy"]
    /\ UNCHANGED <<store, primary, backup, rejecting, answering, registry, up, chain, throws, faults, revoked>>

RotateBackup ==
    LET i == commit.turn IN
    /\ Calling("rotate")
    /\ backup' = IF backup[i - 1] = Absent THEN backup
                 ELSE [backup EXCEPT ![i] = backup[i - 1], ![i - 1] = Absent]
    /\ commit' = [commit EXCEPT !.turn = i - 1, !.at = IF i > 2 THEN "rotate" ELSE "copy"]
    /\ UNCHANGED <<store, primary, rejecting, answering, registry, up, chain, throws, faults, revoked>>

CopyPrimary ==
    /\ Calling("copy")
    /\ backup' = [backup EXCEPT ![1] = primary]
    /\ commit' = [commit EXCEPT !.at = "rename"]
    /\ UNCHANGED <<store, primary, rejecting, answering, registry, up, chain, throws, faults, revoked>>

\* An error of the copy is taken for a first write.
CopyFails ==
    /\ Calling("copy") /\ faults < MaxFaults
    /\ backup' = [backup EXCEPT ![1] = Torn]
    /\ faults' = faults + 1
    /\ commit' = [commit EXCEPT !.at = "rename"]
    /\ UNCHANGED <<store, primary, rejecting, answering, registry, up, chain, throws, revoked>>

Committed ==
    /\ Calling("rename")
    /\ primary' = store
    /\ chain' = Append(chain, store)
    /\ commit' = Idle
    /\ answering' = [waits |-> commit.op = "rollback", adapter |-> commit.adapter]
    /\ registry' = IF commit.op = "restore" THEN store ELSE registry
    /\ UNCHANGED <<store, backup, rejecting, up, throws, faults, revoked>>

CommitStep ==
    \/ WriteTempFile \/ RotateBackup \/ CopyPrimary \/ CopyFails \/ Committed
    \/ (Calling("write") \/ Calling("rename")) /\ Throws

\* Mutant of Published: the route leaves the runtime as it was.
PublishedNothing == registry

\* The rest of the rollback route takes the data as they are by now.
Published == store

Publish ==
    /\ answering.waits
    /\ registry' = Published
    /\ revoked' = revoked \cup ({answering.adapter} \ {NoAdapter})
    /\ answering' = NoAnswer
    /\ UNCHANGED <<store, primary, backup, commit, rejecting, up, chain, throws, faults>>

--------------------------------------------------------------------------------
(* Loading, dying, and what happens to the files.                          *)

ReadableBackups == {i \in 1..Backups : Readable(backup[i])}

\* Mutant of NewestBackup: the loop runs from the last one down.
OldestBackup == CHOOSE i \in ReadableBackups : \A j \in ReadableBackups : j <= i

NewestBackup == CHOOSE i \in ReadableBackups : \A j \in ReadableBackups : i <= j

\* What loadUnlocked finds.
Recovered ==
    IF Readable(primary) THEN primary
    ELSE IF ReadableBackups = {} THEN EmptyStore ELSE backup[NewestBackup]

\* A store restored from a backup is committed before the runtime gets it.  The
\* decisions that were lost with the file are forgotten.
Load ==
    LET restores == ~Readable(primary) /\ ReadableBackups # {} IN
    /\ ~up
    /\ up' = TRUE
    /\ store' = Recovered
    /\ commit' = IF restores THEN [at |-> "write", turn |-> Backups, op |-> "restore", adapter |-> NoAdapter]
                 ELSE Idle
    /\ registry' = IF restores THEN EmptyStore ELSE Recovered
    /\ revoked' = IF Readable(primary) THEN revoked ELSE {}
    /\ UNCHANGED <<primary, backup, rejecting, answering, chain, throws, faults>>

\* The process dies: between two calls of the rotation, it leaves a hole.
Die(torn) ==
    /\ up
    /\ up' = FALSE /\ commit' = Idle /\ rejecting' = {} /\ answering' = NoAnswer
    /\ store' = EmptyStore /\ registry' = EmptyStore
    /\ IF commit.at \in {"rotate", "copy"} THEN faults < MaxFaults /\ faults' = faults + 1
                                           ELSE UNCHANGED faults
    /\ IF torn THEN commit.at = "copy" /\ backup' = [backup EXCEPT ![1] = Torn]
               ELSE UNCHANGED backup
    /\ UNCHANGED <<primary, chain, throws, revoked>>

Damage ==
    /\ Readable(primary) /\ faults < MaxFaults
    /\ primary' = Torn
    /\ faults' = faults + 1
    /\ UNCHANGED <<store, backup, commit, rejecting, answering, registry, up, chain, throws, revoked>>

AdapterNext ==
    \/ \E a \in Adapters : Discover(a) \/ Apply(a) \/ RejectRoute(a) \/ Reject(a)
    \/ \E a \in Adapters \cup {NoAdapter} : RollbackRoute(a)
    \/ CommitStep \/ Publish \/ Load \/ Damage
    \/ \E torn \in BOOLEAN : Die(torn)

--------------------------------------------------------------------------------

\* A primary that is damaged costs one change, and so does each rotation that was cut
\* short or could not copy, as long as there are more backups than such faults; a death
\* anywhere else and an operation that throws cost none (commitUnlocked's order of
\* renames, copy and rename; loadUnlocked).
OneFaultOneChange ==
    faults < Backups =>
        \E lost \in 0..faults :
            IF lost >= Len(chain) THEN Recovered = EmptyStore
            ELSE Recovered = chain[Len(chain) - lost]

\* An adapter whose rollback was answered with success is not used again until it is
\* applied again: not by way of an earlier binding, a rediscovery, a failed write in
\* between, another rollback under way, or a restart (rollback, updateStore, find).
RolledBackStaysOut == Used \notin revoked

================================================================================
