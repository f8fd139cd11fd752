----------------------------- MODULE LifecycleLock -----------------------------
(***************************************************************************)
(* extension/src/lifecycle-lock.ts: the two files through which the        *)
(* windows of the editor agree on who runs the relay, `server-owner.lock`  *)
(* and `manual-stop`, and the notices that writing them raises.            *)
(*                                                                         *)
(* Each window is a process of its own: what it has read may be stale when *)
(* it writes.  Every operator below is one access to a file.  One write,   *)
(* of a temporary renamed over the lock, is a step; a window that has read *)
(* the lock as its own and is about to unlink it is `dropping`.            *)
(***************************************************************************)
EXTENDS Naturals

CONSTANTS
    Windows,      \* ownerIds; a window that closes does not come back
    NoWindow,
    Generations   \* bound: generations are counted modulo this

ASSUME LockAssumption == NoWindow \notin Windows /\ Generations \in Nat \ {0, 1}

VARIABLES
    lock,         \* server-owner.lock
    manualStop,   \* manual-stop exists
    alive,        \* windows whose process runs
    dropping,     \* windows about to unlink the lock
    notified      \* file changes the watcher of a window has not reported yet

lockVars == <<lock, manualStop, alive, dropping, notified>>

Files   == {"manual-stop", "server-owner.lock"}
Intents == {"running", "restarting", "stopped"}

\* pid is the window that wrote last; fresh: updatedAt is within RESTART_STALE_MS.
Lock(w, generation, pid, intent) ==
    [owner |-> w, generation |-> generation % Generations, pid |-> pid, intent |-> intent, fresh |-> TRUE]

NoLock == Lock(NoWindow, 0, NoWindow, "stopped")

OwnedBy(w) == lock.owner = w

\* isRestarting
FreshRestart == lock.intent = "restarting" /\ lock.fresh

\* pidAlive: the process that wrote the lock.
WriterAlive(l) == l.pid \in alive

\* What the watchers do of a change depends on the files at the time they report
\* it, and all a changed lock can tell them is the mark of a restart: the notices
\* of its other writes and of its removal are left out.
Notice(file) == notified' = [w \in Windows |-> notified[w] \cup {file}]

\* beginRestart, over the lock it has read.
RestartMark(w, seen) == Lock(w, seen.generation + 1, w, "restarting")

RestartRenewed(w, seen) == [seen EXCEPT !.pid = w, !.fresh = TRUE]

\* endRestart, over the lock it has read as its own.
RestartDone(w, seen) == [seen EXCEPT !.intent = "running", !.pid = w, !.fresh = TRUE]

\* What setManualStop(true) writes over the lock it has read.
StopMark(w, seen) ==
    Lock(IF seen = NoLock THEN w ELSE seen.owner, seen.generation, w, "stopped")

MayClaimFree(w, seen) == seen = NoLock \/ seen.owner = w \/ seen.intent = "stopped"

\* tryClaimOwner: whose lock may be taken,
MayClaim(w, seen) ==
    \/ seen = NoLock \/ seen.owner = w
    \/ seen.intent = "stopped" \/ ~WriterAlive(seen)

\* what is written over it,
ClaimMark(w, seen) ==
    IF seen.owner = w
    THEN [seen EXCEPT !.pid = w, !.fresh = TRUE,
                      !.intent = IF @ = "stopped" THEN "running" ELSE @]
    ELSE Lock(w, seen.generation + 1, w, "running")

\* and whether the lock it then reads is the one it wrote.  The owner does not look.
ClaimHolds(w, seen) ==
    seen.owner = w \/ (lock.owner = w /\ lock.generation = (seen.generation + 1) % Generations)

\* releaseOwner, if `now`: only the owner goes on to unlink the file
Release(w, now) ==
    dropping' = IF now /\ OwnedBy(w) THEN dropping \cup {w} ELSE dropping

\* whoever owns it by then.
Unlink(w) ==
    /\ w \in dropping
    /\ dropping' = dropping \ {w}
    /\ lock' = NoLock
    /\ UNCHANGED <<manualStop, alive, notified>>

\* 15 s pass over a restart mark.
RestartGrowsStale ==
    /\ FreshRestart
    /\ lock' = [lock EXCEPT !.fresh = FALSE]
    /\ UNCHANGED <<manualStop, alive, dropping, notified>>

================================================================================
