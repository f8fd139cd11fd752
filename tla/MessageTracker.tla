--------------------------- MODULE MessageTracker ---------------------------
(***************************************************************************)
(* Which Telegram message shows which element of which topic               *)
(* (message-tracker.ts), and the file it is saved to.  An entry has the    *)
(* version its text was made from (the content hash) and the message's id, *)
(* 0 when there is none to edit.  A save is debounced by a timer, armed    *)
(* exactly while `dirty`; a failed save is only logged and clears `dirty`  *)
(* all the same.                                                           *)
(***************************************************************************)
EXTENDS Integers

CONSTANTS Threads, Elements

VARIABLES
    track, disk, dirty,
    unsaved                 \* history: the last save failed, and nothing is due since

trackVars == <<track, disk, dirty, unsaved>>

Untracked == [version |-> 0, msg |-> 0]
Blank == [k \in Threads \X Elements |-> Untracked]

TrackInit ==
    /\ track = Blank
    /\ disk = Blank
    /\ dirty = FALSE /\ unsaved = FALSE

IsTracked(t, e) == track[<<t, e>>] # Untracked
HasChanged(t, e, version) == track[<<t, e>>].version # version

Track(t, e, msg, version) ==
    /\ track' = [track EXCEPT ![<<t, e>>] = [version |-> version, msg |-> msg]]
    /\ dirty' = TRUE /\ unsaved' = FALSE
    /\ UNCHANGED disk

Untrack(t, e) ==
    /\ track' = [track EXCEPT ![<<t, e>>] = Untracked]
    /\ dirty' = TRUE /\ unsaved' = FALSE
    /\ UNCHANGED disk

\* saveToDisk: written, or failed and forgotten.
Written(tracked) == disk' \in {tracked, disk}
Saved(tracked) == Written(tracked) /\ unsaved' = (disk' # tracked)

SaveTimer ==
    /\ dirty
    /\ dirty' = FALSE
    /\ Saved(track)
    /\ UNCHANGED track

\* clearAll flushes at once.
ClearAll ==
    /\ track' = Blank
    /\ dirty' = FALSE
    /\ Saved(Blank)

\* flush, when the program stops; a crash flushes nothing.  Then the file is read.
Reload(flushed) ==
    /\ IF flushed /\ dirty THEN Written(track) ELSE UNCHANGED disk
    /\ track' = disk'
    /\ dirty' = FALSE /\ unsaved' = FALSE
=============================================================================
