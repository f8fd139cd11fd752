---------------------------- MODULE WindowMonitor ----------------------------
(***************************************************************************)
(* Snapshots of every window (window-monitor.ts): the one the bridge       *)
(* drives, "home", is copied from the published state whenever a patch is  *)
(* emitted; a cycle reads the others over connections of its own.  The     *)
(* flag of the cycle is tested before its first await and set after it.    *)
(*                                                                         *)
(* The generation of extractions and the switchGeneration it is compared   *)
(* with are the flag `fresh`: an extraction since home last moved.         *)
(***************************************************************************)
EXTENDS StateManager, FiniteSets

CONSTANT Cycles     \* bound: cycles that may overlap

VARIABLES
    link,           \* the bridge: "down", "open" before it is announced, "up"
    active,         \* activeTargetId
    listed,         \* the bridge's windows
    exists,         \* the windows of the IDE now
    pages,          \* [Windows -> the page each window shows]
    home,           \* homeWindowId
    fresh,          \* generation > switchGeneration
    snapshots,      \* [Windows -> the page last stored for it]
    cycling,        \* _cycling
    cycles          \* [Cycles -> where each call of cycle() is]

bridgeView == <<link, active, listed, exists, pages>>
monitorVars == <<home, fresh, snapshots, cycling, cycles>>

IdleCycle == [at |-> "idle", todo |-> {}, read |-> NoPage]

MonitorInit ==
    /\ home = NoWindow
    /\ fresh = TRUE
    /\ snapshots = [w \in Windows |-> NoPage]
    /\ cycling = FALSE
    /\ cycles = [k \in Cycles |-> IdleCycle]

(* getHomeWindowId *)
HomeId == IF home = NoWindow THEN active ELSE home

(* captureHomeWindow of a state, for the target the bridge has. *)
Capturable(state, target, isFresh) ==
    isFresh /\ state.connected /\ target # NoWindow /\ target \in state.windows

Captured(state, target, isFresh) ==
    IF Capturable(state, target, isFresh)
    THEN [snapshots EXCEPT ![target] = state.page] ELSE snapshots

(* onPatch: every emitted patch is followed by a capture. *)
FlushAndCapture ==
    /\ Flush
    /\ snapshots' = Captured(current, active, fresh)
    /\ UNCHANGED <<home, fresh, cycling, cycles>>

(***************************************************************************)
(* The listeners of "connected", for target t, in order, over a state      *)
(* `from` that earlier listeners may have sent: the state manager sends    *)
(* the connection and the windows, each patch captured under the home of   *)
(* before; then onConnected moves home, restores the mode of a cached      *)
(* snapshot and captures again.                                            *)
(***************************************************************************)
Announced(from, t) ==
    LET connected == Connection(from, TRUE)
        listing == [connected EXCEPT !.windows = listed, !.active = t]
        moves == t # NoWindow /\ t # home
        capture == \/ connected # from /\ Capturable(connected, t, fresh)
                   \/ listing # connected /\ Capturable(listing, t, fresh)
                   \/ Capturable(listing, t, fresh /\ ~moves)
        stored == IF capture THEN [snapshots EXCEPT ![t] = from.page] ELSE snapshots
        cached == t # NoWindow /\ stored[t] # NoPage
        next == IF cached THEN [listing EXCEPT !.mode = t] ELSE listing
    IN  /\ current' = next
        /\ views' = Received(Merged(Diff(from, current'), Diff(current, from)))
        /\ snapshots' = stored
        /\ home' = IF moves THEN t ELSE home
        /\ fresh' = (fresh /\ ~moves)

----------------------------------------------------------------------------
(* cycle(), up to refreshWindows. *)
CycleBegins(k) ==
    /\ cycles[k] = IdleCycle
    /\ ~cycling
    /\ link # "down"
    /\ cycles' = [cycles EXCEPT ![k].at = "refreshing"]
    /\ UNCHANGED <<stateVars, bridgeView, home, fresh, snapshots, cycling>>

(* The same for a monitor that polls what it has no snapshot of. *)
SelectUnseen == {w \in exists \ {HomeId} : snapshots[w] = NoPage}

(* The windows to poll: all but home. *)
SelectNonHome == exists \ {HomeId}

(***************************************************************************)
(* pollWindowParallel for the next of the windows in todo: one that has    *)
(* become home, or is gone, is passed over; another is read, and answers   *)
(* later.  After the last the flag is reset.                               *)
(***************************************************************************)
PollsNext(k, todo) ==
    LET polled == {w \in todo : w # HomeId /\ w \in exists} IN
    \/ \E w \in polled :
          /\ cycling' = TRUE
          /\ cycles' = [cycles EXCEPT ![k] = [at |-> "polling", todo |-> polled \ {w},
                                              read |-> pages[w]]]
    \/ /\ polled = {}
       /\ cycling' = FALSE
       /\ cycles' = [cycles EXCEPT ![k] = IdleCycle]

(* refreshWindows answers: there are other windows, which are published ... *)
Refreshed(k) ==
    LET next == [current EXCEPT !.windows = exists, !.active = active] IN
    /\ cycles[k].at = "refreshing"
    /\ Cardinality(exists) > 1
    /\ SelectNonHome # {}
    /\ listed' = exists
    /\ PollsNext(k, SelectNonHome)
    /\ current' = next
    /\ views' = Received(Diff(current, next))
    /\ snapshots' = IF next = current THEN snapshots ELSE Captured(next, active, fresh)
    /\ UNCHANGED <<pending, memory, link, active, exists, pages, home, fresh>>

(* ... or only one, or only home, and nothing is published. *)
NothingToPoll(k) ==
    /\ cycles[k].at = "refreshing"
    /\ Cardinality(exists) <= 1 \/ SelectNonHome = {}
    /\ listed' = exists
    /\ cycles' = [cycles EXCEPT ![k] = IdleCycle]
    /\ UNCHANGED <<stateVars, link, active, exists, pages, home, fresh, snapshots, cycling>>

(* refreshWindows rejects. *)
RefreshFails(k) ==
    /\ cycles[k].at = "refreshing"
    /\ cycles' = [cycles EXCEPT ![k] = IdleCycle]
    /\ UNCHANGED <<stateVars, bridgeView, home, fresh, snapshots, cycling>>

(* The answer of a read arrives and is stored, or the read fails. *)
PollLands(k) ==
    /\ cycles[k].at = "polling"
    /\ snapshots' = [snapshots EXCEPT ![cycles[k].read.of] = cycles[k].read]
    /\ PollsNext(k, cycles[k].todo)
    /\ UNCHANGED <<stateVars, bridgeView, home, fresh>>

PollFails(k) ==
    /\ cycles[k].at = "polling"
    /\ PollsNext(k, cycles[k].todo)
    /\ UNCHANGED <<stateVars, bridgeView, home, fresh, snapshots>>

----------------------------------------------------------------------------
(***************************************************************************)
(* captureHomeWindow (window-monitor.ts 323): "After a window switch, wait *)
(* for at least one fresh DOM extraction before emitting snapshots.  This  *)
(* prevents stale state from the old window being attributed to the new    *)
(* window's title": a snapshot is of the window it is stored for.          *)
(***************************************************************************)
SnapshotsAreOfTheirWindow ==
    \A w \in Windows : snapshots[w].of \in {w, NoWindow}
=============================================================================
