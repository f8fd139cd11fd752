-------------------------------- MODULE Persist --------------------------------
(***************************************************************************)
(* src/server/persist.ts as its callers see it: writeJsonAtomic with       *)
(* requireFsync either returns, with the new content in the file, or       *)
(* throws.  AtomicFile models the steps inside the call and shows that     *)
(* these are the contents a throw, or a death of the process inside the    *)
(* call, can leave behind.                                                 *)
(***************************************************************************)

CONSTANT UnlinkFallback   \* TRUE where rename() cannot replace an existing file

ASSUME PersistAssumption == UnlinkFallback \in BOOLEAN

\* What the file may hold after a write of `next` over `old` that threw or never
\* ended: `empty` stands for a file that is not there.
FileAfterFailure(old, next, empty) ==
    {old, next} \cup {x \in {empty} : UnlinkFallback}

================================================================================
