------------------------------ MODULE StateSync ------------------------------
(***************************************************************************)
(* What the server shows of the IDE: the bridge connects to one window and *)
(* loses it, index.ts wires its events to the state manager and to the     *)
(* extractor (dom-extractor.ts), whose poll reads the page of that window, *)
(* and the window monitor reads the others.                                *)
(*                                                                         *)
(* A listener of an event runs to its end before anything else does; a     *)
(* poll that waits for its answer when the socket goes is rejected in the  *)
(* same turn.  External: the user of the IDE, who edits pages, opens and   *)
(* closes windows.  The calls of connect() are in CdpBridge.               *)
(***************************************************************************)
EXTENDS WindowMonitor

CONSTANTS
    MaxEvents       \* bound: windows opened, closed or switched to, connections
                    \* lost and reads that fail

ASSUME SyncAssumption ==
    /\ Windows # {}
    /\ MaxEvents \in Nat

VARIABLES
    wanted,         \* the window the bridge connects to
    starting,       \* the adapter context of a connection is being read
    extracting,     \* the extractor's `running`
    events          \* counts them

wiringVars == <<wanted, starting, extracting, events>>
vars == <<stateVars, bridgeView, monitorVars, wiringVars>>

Init ==
    /\ StateInit
    /\ MonitorInit
    /\ link = "down"
    /\ active = NoWindow
    /\ listed = {}
    /\ wanted = CHOOSE w \in Windows : TRUE    \* all alike at first
    /\ exists \in {{wanted}, Windows}
    /\ pages = [w \in Windows |-> [of |-> w, edit |-> 0]]
    /\ starting = FALSE
    /\ extracting = FALSE
    /\ events = 0

Event == events < MaxEvents /\ events' = events + 1

----------------------------------------------------------------------------
(* connect(): the socket of the wanted window opens ... *)
Opens ==
    /\ link = "down"
    /\ wanted \in exists
    /\ link' = "open"
    /\ active' = wanted
    /\ listed' = exists
    /\ UNCHANGED <<stateVars, monitorVars, exists, pages, wiringVars>>

(* ... its workspace is read, and the listeners of "connected" run. *)
Connected ==
    /\ link = "open"
    /\ link' = "up"
    /\ Announced(current, active)
    /\ starting' = TRUE
    /\ UNCHANGED <<pending, memory, active, listed, exists, pages, cycling, cycles,
                   wanted, extracting, events>>

(* The DOM signature answers and the extractor starts on this connection ... *)
ExtractorStarts ==
    /\ starting
    /\ starting' = FALSE
    /\ extracting' = TRUE
    /\ UNCHANGED <<stateVars, bridgeView, monitorVars, wanted, events>>

(* ... or fails, and the extractor does not run until the next connection. *)
ContextFails ==
    /\ starting
    /\ starting' = FALSE
    /\ Event
    /\ UNCHANGED <<stateVars, bridgeView, monitorVars, wanted, extracting>>

(* The listeners of "disconnected"; a rejected poll reports its failure. *)
Lost(state) == Connection(state, FALSE)

Disconnected ==
    /\ views' = Received(Diff(current, Lost(current)))
    /\ \/ current' = Lost(current) /\ UNCHANGED pending
       \/ /\ extracting
          /\ current' = Failed(Lost(current))
          /\ pending' = Scheduled(Diff(Lost(current), Failed(Lost(current))))
    /\ UNCHANGED <<memory, monitorVars>>

ConnectionGoes ==
    /\ link' = "down"
    /\ active' = NoWindow
    /\ starting' = FALSE
    /\ extracting' = FALSE
    /\ UNCHANGED <<listed, exists, pages>>

(* moveHomeWindow: the rest of it, setHomeWindow, is done by onConnected. *)
MoveHomeWindow(w) ==
    /\ w \in exists
    /\ ~(w = active /\ link = "up")
    /\ Event
    /\ wanted' = w
    /\ Disconnected
    /\ ConnectionGoes

(* The socket closes by itself. *)
SocketCloses ==
    /\ link = "up"
    /\ Event
    /\ Disconnected
    /\ ConnectionGoes
    /\ UNCHANGED wanted

(* It closes while the workspace is read: connect() still says "connected". *)
LostThenConnected ==
    /\ link = "open"
    /\ Event
    /\ Announced(Lost(current), NoWindow)
    /\ ConnectionGoes
    /\ UNCHANGED <<pending, memory, cycling, cycles, wanted>>

----------------------------------------------------------------------------
(* poll() of the extractor, one call at a time: the page, or a failure. *)
PollAnswers(elapsed) ==
    /\ extracting
    /\ OnExtraction(pages[active], elapsed)
    /\ fresh' = TRUE
    /\ UNCHANGED <<bridgeView, home, snapshots, cycling, cycles, wiringVars>>

PollTimesOut ==
    /\ extracting
    /\ Event
    /\ OnExtractionFailure
    /\ UNCHANGED <<bridgeView, monitorVars, wanted, starting, extracting>>

(* The timer of the patch; a browser comes, or is lost. *)
Publish ==
    /\ FlushAndCapture
    /\ UNCHANGED <<bridgeView, wiringVars>>

Browser(c) ==
    /\ ClientConnects(c)
    /\ UNCHANGED <<bridgeView, monitorVars, wiringVars>>

BrowserLost(c) ==
    /\ ClientLeaves(c)
    /\ Event
    /\ UNCHANGED <<bridgeView, monitorVars, wanted, starting, extracting>>

(* A step of the monitor's cycle. *)
CycleWorks(k) ==
    /\ CycleBegins(k) \/ Refreshed(k) \/ NothingToPoll(k) \/ PollLands(k)
    /\ UNCHANGED wiringVars

CycleFails(k) ==
    /\ RefreshFails(k) \/ PollFails(k)
    /\ Event
    /\ UNCHANGED <<wanted, starting, extracting>>

(* The IDE: a page changes; another window opens or closes. *)
Edits(w) ==
    /\ w \in exists
    /\ pages[w].edit < MaxEdits
    /\ pages' = [pages EXCEPT ![w].edit = @ + 1]
    /\ UNCHANGED <<stateVars, monitorVars, link, active, listed, exists, wiringVars>>

WindowOpens(w) ==
    /\ w \notin exists
    /\ Event
    /\ exists' = exists \cup {w}
    /\ UNCHANGED <<stateVars, monitorVars, link, active, listed, pages, wanted, starting,
                   extracting>>

WindowCloses(w) ==
    /\ w \in exists \ {wanted}
    /\ Event
    /\ exists' = exists \ {w}
    /\ UNCHANGED <<stateVars, monitorVars, link, active, listed, pages, wanted, starting,
                   extracting>>

(* A connection is made one step after the other. *)
Connects == Opens \/ Connected \/ ExtractorStarts

Next ==
    \/ Connects \/ ContextFails \/ SocketCloses
    \/ LostThenConnected \/ PollTimesOut \/ Publish
    \/ \E elapsed \in BOOLEAN : PollAnswers(elapsed)
    \/ \E c \in Clients : Browser(c) \/ BrowserLost(c)
    \/ \E k \in Cycles : CycleWorks(k) \/ CycleFails(k)
    \/ \E w \in Windows : MoveHomeWindow(w) \/ Edits(w) \/ WindowOpens(w) \/ WindowCloses(w)

(* Timers fire, requests are answered; nobody has to edit, fail or browse. *)
Fairness ==
    /\ WF_vars(Connects) /\ WF_vars(PollAnswers(TRUE)) /\ WF_vars(Publish)
    /\ \A k \in Cycles : WF_vars(CycleWorks(k))

Spec == Init /\ [][Next]_vars /\ Fairness

----------------------------------------------------------------------------
(***************************************************************************)
(* When the IDE stops changing, the snapshot of every window other than    *)
(* the driven one is its page, for good, although cycles overlap, home     *)
(* moves while they poll and reads fail.                                   *)
(***************************************************************************)
SnapshotsCatchUp ==
    \A w \in Windows : <>[](w \in exists \ {HomeId, active} => snapshots[w] = pages[w])

(***************************************************************************)
(* What a browser shows is eventually what the driven window shows, and no *)
(* browser shows an activity for ever: a label the page goes on showing is *)
(* dropped and stays dropped.  (A window whose adapter context could not   *)
(* be read has no extractor until the next connection.)                    *)
(***************************************************************************)
Mirrors(view, page) == view.page = page /\ view.label = NoLabel

ViewsCatchUp ==
    \A c \in Clients : <>[](extracting /\ c \in Online => Mirrors(views[c], pages[active]))
=============================================================================
