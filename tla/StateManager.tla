---------------------------- MODULE StateManager ----------------------------
(***************************************************************************)
(* The state the server publishes (state-manager.ts): every read of the    *)
(* page is compared with the state before it, the differences of content   *)
(* are collected in a patch that a timer sends, those of the connection,   *)
(* the list of windows and the mode are sent at once.  A client is handed  *)
(* the whole state when it connects and applies every patch after that.    *)
(*                                                                         *)
(* A page is told apart by its window and the number of its edits: the     *)
(* fields read from it (messages, approvals, tabs, queue, questionnaire)   *)
(* change together.  The mode is the window it was verified for.           *)
(***************************************************************************)
EXTENDS Naturals

CONSTANTS
    Windows,        \* the windows of the IDE
    NoWindow,       \* the empty window id
    Clients,        \* browsers
    MaxEdits,       \* bound: edits of one page
    Labels,         \* texts of the activity line
    NoLabel,
    LabelAt         \* [0..MaxEdits -> the label a page shows after so many edits]

ASSUME StateAssumption ==
    /\ NoWindow \notin Windows
    /\ NoLabel \notin Labels
    /\ MaxEdits \in Nat
    /\ LabelAt \in [0..MaxEdits -> Labels \cup {NoLabel}]

VARIABLES
    current,        \* currentState
    pending,        \* pendingPatch; its timer runs while it is not empty
    memory,         \* activityStableText and activitySuppressedMatch
    views           \* what each client has put together, NoView when offline

stateVars == <<current, pending, memory, views>>

Pages == [of: Windows \cup {NoWindow}, edit: 0..MaxEdits]
NoPage == [of |-> NoWindow, edit |-> 0]

(* The fields of a CursorState, and those of them a patch may hold. *)
States == [connected: BOOLEAN, status: {"idle", "waiting", "ok", "stale"}, failures: Nat,
           page: Pages, label: Labels \cup {NoLabel}, mode: Windows \cup {NoWindow},
           windows: SUBSET Windows, active: Windows \cup {NoWindow}]
Fields == {"connected", "status", "failures", "page", "label", "mode", "windows", "active"}

EmptyState ==
    [connected |-> FALSE, status |-> "idle", failures |-> 0, page |-> NoPage,
     label |-> NoLabel, mode |-> NoWindow, windows |-> {}, active |-> NoWindow]

NoPatch == <<>>
NoView == <<>>
Forgotten == [text |-> NoLabel, suppressed |-> NoLabel]

StateInit ==
    /\ current = EmptyState
    /\ pending = NoPatch
    /\ memory = Forgotten
    /\ views = [c \in Clients |-> NoView]

(* diff: the fields that changed, with their new values. *)
Diff(prev, next) == [f \in {g \in Fields : prev[g] # next[g]} |-> next[f]]

(* { ...under, ...over } *)
Merged(over, under) ==
    [f \in DOMAIN over \cup DOMAIN under |-> IF f \in DOMAIN over THEN over[f] ELSE under[f]]

(* schedulePatch as it would be if the patch that waits were replaced. *)
ScheduledAlone(patch) == patch

(* schedulePatch: later values of a field replace earlier ones. *)
Scheduled(patch) == Merged(patch, pending)

Online == {c \in Clients : views[c] # NoView}

(* emit("state:patch"), and what each client makes of it. *)
Received(patch) == [c \in Clients |-> IF c \in Online THEN Merged(patch, views[c]) ELSE NoView]

----------------------------------------------------------------------------
(***************************************************************************)
(* applyActivityStaleness: a label that was there before and is still      *)
(* there AGENT_ACTIVITY_STALE_MS later, which `elapsed` says, is dropped,  *)
(* and suppressed for as long as the page goes on showing it.              *)
(***************************************************************************)
ShownLabel(label, elapsed) ==
    IF label = memory.suppressed \/ (label = memory.text /\ elapsed)
    THEN NoLabel ELSE label

(* A label dropped without being suppressed. *)
RememberedNothing(label, elapsed) ==
    CASE label = NoLabel -> Forgotten
      [] label = memory.text /\ elapsed -> Forgotten
      [] OTHER -> [Forgotten EXCEPT !.text = label]

Remembered(label, elapsed) ==
    CASE label = NoLabel -> Forgotten
      [] label \notin {NoLabel, memory.text, memory.suppressed} ->
            [Forgotten EXCEPT !.text = label]
      [] label = memory.text /\ elapsed -> [Forgotten EXCEPT !.suppressed = label]
      [] OTHER -> memory

(* onExtraction: the connection and the windows are not the page's to say. *)
OnExtraction(page, elapsed) ==
    LET label == LabelAt[page.edit]
    IN  /\ current' = [current EXCEPT !.status = IF current.connected THEN "ok" ELSE "idle",
                                      !.failures = 0, !.page = page, !.mode = page.of,
                                      !.label = ShownLabel(label, elapsed)]
        /\ pending' = Scheduled(Diff(current, current'))
        /\ memory' = Remembered(label, elapsed)
        /\ UNCHANGED views

(* onExtractionFailure, in a state that is, or is no longer, connected. *)
Failed(state) ==
    [state EXCEPT !.failures = @ + 1,
        !.status = IF ~state.connected THEN "idle"
                   ELSE IF state.status \in {"ok", "stale"} THEN "stale" ELSE "waiting"]

OnExtractionFailure ==
    /\ current' = Failed(current)
    /\ pending' = Scheduled(Diff(current, current'))
    /\ UNCHANGED <<memory, views>>

(* onConnectionChanged: the extraction starts over. *)
Connection(state, up) ==
    [state EXCEPT !.connected = up, !.status = IF up THEN "waiting" ELSE "idle",
                  !.failures = 0]

(* The timer of schedulePatch. *)
Flush ==
    /\ pending # NoPatch
    /\ views' = Received(pending)
    /\ pending' = NoPatch
    /\ UNCHANGED <<current, memory>>

(* A socket connects and is sent state:full; or it is lost. *)
ClientConnects(c) ==
    /\ c \notin Online
    /\ views' = [views EXCEPT ![c] = current]
    /\ UNCHANGED <<current, pending, memory>>

ClientLeaves(c) ==
    /\ c \in Online
    /\ views' = [views EXCEPT ![c] = NoView]
    /\ UNCHANGED <<current, pending, memory>>

----------------------------------------------------------------------------
(* The fields that only one of the two ways of sending carries. *)
OneWay == {"connected", "windows", "active", "page", "label"}

(***************************************************************************)
(* However the reads of the page, the patches that wait for their timer    *)
(* and the patches sent at once interleave, and whenever a client          *)
(* connects: when no patch waits, every client has the server's content,   *)
(* connection and windows.  (Not so the mode, the status and the count of  *)
(* failures, which both ways carry: schedulePatch may send an older value  *)
(* after onConnectionChanged or updateModeModel sent a newer one.)         *)
(***************************************************************************)
ViewsConverge ==
    pending = NoPatch => \A c \in Online : \A f \in OneWay : views[c][f] = current[f]
=============================================================================
