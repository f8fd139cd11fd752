------------------------------ MODULE AtomicFile -------------------------------
(***************************************************************************)
(* src/server/persist.ts: the system calls of writeFileAtomic, any of      *)
(* which may fail, with the process dying or the machine losing power      *)
(* between two of them.                                                    *)
(*                                                                         *)
(* `file` is what a reader finds; `images` is what the disk may hold after *)
(* a power loss, which a directory fsync narrows down to one.  Data that   *)
(* was renamed into place before its own fsync may come back torn.  The    *)
(* temporary file has a random name, so its contents are no one else's.    *)
(***************************************************************************)
EXTENDS Persist

CONSTANTS Values, Absent, Torn

VARIABLES
    strict,    \* requireFsync: each file is always written with the same one
    file,      \* the content readers find
    images,    \* the contents a power loss may leave
    pc,        \* the next system call
    synced,    \* the temporary file was fsynced
    old, next, \* history: the content when the latest write began, and its data
    before,    \* history: the images when it began
    result     \* how the latest write ended

atomicVars == <<strict, file, images, pc, synced, old, next, before, result>>


FileInit ==
    /\ strict \in BOOLEAN
    /\ file \in Values /\ images = {file}
    /\ pc = "idle" /\ synced = FALSE
    /\ old = file /\ next = file /\ before = images
    /\ result = "returned"

StartWrite(v) ==
    /\ pc = "idle"
    /\ file # Torn
    /\ pc' = "writeTemp"
    /\ synced' = FALSE
    /\ old' = file /\ next' = v /\ before' = images
    /\ result' = "none"
    /\ UNCHANGED <<strict, file, images>>

\* The catch clause drops the temporary file and rethrows.
Throw == pc' = "idle" /\ result' = "threw"

WriteInPlace(ok) ==
    /\ pc = "writeTemp"
    /\ IF ok THEN pc' = "syncTemp" /\ file' = next /\ UNCHANGED result
             ELSE Throw /\ file' = Torn
    /\ UNCHANGED <<strict, images, synced, old, next, before>>

WriteTemp(ok) ==
    /\ pc = "writeTemp"
    /\ IF ok THEN pc' = "syncTemp" /\ UNCHANGED result ELSE Throw
    /\ UNCHANGED <<strict, file, images, synced, old, next, before>>

\* A failed fsync matters only to those who require it.
SyncTemp(ok) ==
    /\ pc = "syncTemp"
    /\ IF ok \/ ~strict THEN pc' = "rename" /\ UNCHANGED result ELSE Throw
    /\ synced' = ok
    /\ UNCHANGED <<strict, file, images, old, next, before>>

MayPersist == IF synced THEN {next} ELSE {next, Torn}

Renamed ==
    /\ file' = next
    /\ images' = images \cup MayPersist
    /\ IF strict THEN pc' = "syncDir" /\ UNCHANGED result
                 ELSE pc' = "idle" /\ result' = "returned"

Rename(ok) ==
    /\ pc = "rename"
    /\ \/ ok /\ Renamed
       \/ ~ok /\ Throw /\ UNCHANGED <<file, images>>
    /\ UNCHANGED <<strict, synced, old, next, before>>

\* EEXIST, EPERM or EACCES: the target goes first, then the rename is tried again.
RenameRefused ==
    /\ UnlinkFallback
    /\ pc = "rename"
    /\ pc' = IF file = Absent THEN "renameAgain" ELSE "unlink"
    /\ UNCHANGED <<strict, file, images, synced, old, next, before, result>>

Unlink(ok) ==
    /\ pc = "unlink"
    /\ \/ /\ ok
          /\ file' = Absent /\ images' = images \cup {Absent}
          /\ pc' = "renameAgain" /\ UNCHANGED result
       \/ ~ok /\ Throw /\ UNCHANGED <<file, images>>
    /\ UNCHANGED <<strict, synced, old, next, before>>

RenameAgain(ok) ==
    /\ pc = "renameAgain"
    /\ \/ ok /\ Renamed
       \/ ~ok /\ Throw /\ UNCHANGED <<file, images>>
    /\ UNCHANGED <<strict, synced, old, next, before>>

SyncDirIgnoringErrors(ok) ==
    /\ pc = "syncDir"
    /\ images' = IF ok THEN MayPersist ELSE images
    /\ pc' = "idle" /\ result' = "returned"
    /\ UNCHANGED <<strict, file, synced, old, next, before>>

SyncDir(ok) ==
    /\ pc = "syncDir"
    /\ IF ok THEN images' = MayPersist /\ pc' = "idle" /\ result' = "returned"
             ELSE Throw /\ UNCHANGED images
    /\ UNCHANGED <<strict, file, synced, old, next, before>>

Die ==
    /\ pc # "idle"
    /\ pc' = "idle" /\ result' = "died"
    /\ UNCHANGED <<strict, file, images, synced, old, next, before>>

\* The machine comes back with one of the images, which is then on the disk.  A file
\* found torn is refused by its reader and is the end of this story.
LosePower ==
    /\ pc' = "idle"
    /\ result' = IF result = "returned" THEN result ELSE "lost"
    /\ file' \in images
    /\ images' = {file'}
    /\ UNCHANGED <<strict, synced, old, next, before>>

FileNext ==
    \/ \E v \in Values : StartWrite(v)
    \/ \E ok \in BOOLEAN :
          \/ WriteTemp(ok) \/ SyncTemp(ok) \/ Rename(ok)
          \/ Unlink(ok) \/ RenameAgain(ok) \/ SyncDir(ok)
    \/ RenameRefused
    \/ Die
    \/ LosePower

FileSpec == FileInit /\ [][FileNext]_atomicVars

--------------------------------------------------------------------------------
(* Properties.                                                             *)

\* A strict write that returned is on the disk: no power loss takes it back, whatever
\* failed in the writes before it.
ReturnedIsDurable == strict /\ result = "returned" => file = next /\ images = {next}

\* A write that threw or was cut short by the death of the process leaves what
\* Persist says; a strict one cut short by a power loss leaves that, or what the disk
\* held before, which is the old content unless an earlier write had failed as well.
OutcomesAsAssumed ==
    /\ result \in {"threw", "died"} => file \in FileAfterFailure(old, next, Absent)
    /\ result = "lost" /\ strict => file \in FileAfterFailure(old, next, Absent) \cup before

================================================================================
