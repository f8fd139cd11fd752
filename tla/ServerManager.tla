----------------------------- MODULE ServerManager -----------------------------
(***************************************************************************)
(* extension/src/server-manager.ts: the manager of every window, over the  *)
(* files of LifecycleLock, and the relay processes the managers spawn, of  *)
(* which the port lets one listen.                                         *)
(*                                                                         *)
(* A window runs the operations of `opChain` one after the other; `stage`  *)
(* is where the running one stands.  The polls, the takeover, the watcher  *)
(* and the exit events run beside it, except in the middle of a            *)
(* synchronous access to the lock (InTheMiddle).                           *)
(***************************************************************************)
EXTENDS LifecycleLock, Sequences, FiniteSets

CONSTANTS
    Procs,         \* relay processes, reused once their exit is handled
    MaxQueued,     \* bound: operations that wait in a chain
    MaxEvents      \* bound: commands of the user, crashes and failed calls

ASSUME ManagerAssumption ==
    /\ Procs # {} /\ Procs \subseteq Nat \ {0}
    /\ MaxQueued \in Nat \ {0} /\ MaxEvents \in Nat

VARIABLES
    win,        \* fields of each ServerManager; `yielded` is history: it has stopped
                \* polling and given its takeover up to the mark of a restart
    ops,        \* opChain: operations that have not begun
    proc,       \* relay processes
    events,     \* counter of the bound
    failed      \* history: windows whose start threw after the claim

managerVars == <<win, ops, proc, events, failed>>
vars == <<lockVars, managerVars>>

NoProc  == 0

NewWindow == [child |-> NoProc, victim |-> NoProc, state |-> "stopped", stage |-> "idle",
              seen |-> NoLock, restarting |-> FALSE, takeover |-> FALSE,
              fallback |-> FALSE, poll |-> "off", yielded |-> FALSE]

FreeProc == [phase |-> "free", parent |-> NoWindow, doomed |-> FALSE, why |-> "ok"]

\* The windows open together and each starts the server (autoStart);
\* here nothing else happens,
Opening ==
    /\ lock = NoLock /\ manualStop \in BOOLEAN /\ alive = Windows
    /\ win = [w \in Windows |-> NewWindow]
    /\ ops = [w \in Windows |-> <<"start">>]
    /\ proc = [p \in Procs |-> FreeProc]
    /\ events = MaxEvents

\* or have settled: one owns the server, the others observe it;
Settled ==
    /\ \E o \in Windows, p \in Procs :
        /\ \A q \in Procs : p <= q
        /\ lock = Lock(o, 1, o, "running")
        /\ win = [w \in Windows |->
                [NewWindow EXCEPT !.state = "up", !.poll = "on", !.child = IF w = o THEN p ELSE NoProc]]
        /\ proc = [q \in Procs |-> IF q # p THEN FreeProc
                                   ELSE [FreeProc EXCEPT !.phase = "listening", !.parent = o]]
    /\ manualStop = FALSE /\ alive = Windows
    /\ ops = [w \in Windows |-> << >>]
    /\ events = 0

\* or the user has stopped the server;
StoppedByUser ==
    /\ lock = NoLock /\ manualStop = TRUE /\ alive = Windows
    /\ win = [w \in Windows |-> NewWindow]
    /\ proc = [p \in Procs |-> FreeProc]
    /\ ops = [w \in Windows |-> << >>]
    /\ events = 0

\* or the window of a restart died after it had marked the lock.
Abandoned ==
    /\ \E o \in Windows :
        /\ lock = Lock(o, 2, o, "restarting")
        /\ alive = Windows \ {o}
        /\ win = [w \in Windows |-> IF w = o THEN NewWindow
                                    ELSE [NewWindow EXCEPT !.state = "up", !.poll = "on"]]
    /\ manualStop = FALSE
    /\ proc = [p \in Procs |-> FreeProc]
    /\ ops = [w \in Windows |-> << >>]
    /\ events = 0

\* An instance begins in any of these, and has MaxEvents from there on.
ManagerInit ==
    /\ Opening \/ Settled \/ StoppedByUser \/ Abandoned
    /\ dropping = {}
    /\ notified = [w \in Windows |-> {}]
    /\ failed = {}

-------------------------------------------------------------------------------
\* What a probe of the port finds.
Listening == \E p \in Procs : proc[p].phase = "listening"

InTheMiddle(w) ==
    \/ w \in dropping
    \/ win[w].stage \in {"start", "claimWrite", "claimConfirm", "stopMark",
                         "restartMark", "restartEnd", "endWrite"}

Ready(w) == w \in alive /\ ~InTheMiddle(w)

\* No event of a window comes between two accesses, nor before an operation that
\* is next in an idle chain: that one begins in a microtask.
Quiet(w) == Ready(w) /\ (win[w].stage = "idle" => ops[w] = << >>)

Enqueue(w, op) == ops' = [ops EXCEPT ![w] = Append(@, op)]

HasRoom(w) == Len(ops[w]) < MaxQueued

Set(w, r) == win' = [win EXCEPT ![w] = r]

\* stopHealthPolling: a poll that is out, or the first one, still comes back late.
PollStopped(r) == [r EXCEPT !.poll = IF @ = "on" THEN "late" ELSE @]

\* attachAsObserver; `up` stands for running and disconnected.  A late poll of the
\* timer before is then as good as one of the new timer.
Attached(r) == [r EXCEPT !.poll = "on", !.state = "up", !.yielded = FALSE]

\* Where a start returns to.
Return(r) == [r EXCEPT !.stage = IF r.restarting THEN "restartEnd" ELSE "idle"]

-------------------------------------------------------------------------------
\* start.

Begins(w, op) == win[w].stage = "idle" /\ ops[w] # << >> /\ Head(ops[w]) = op

DoStart(w) ==
    /\ w \in alive \ dropping
    /\ \/ Begins(w, "start") /\ ops' = [ops EXCEPT ![w] = Tail(@)]
       \/ win[w].stage = "start" /\ UNCHANGED ops
    /\ manualStop' = FALSE
    /\ IF manualStop THEN Notice("manual-stop") ELSE UNCHANGED notified
    /\ Set(w, IF win[w].child # NoProc THEN Return(win[w]) ELSE [win[w] EXCEPT !.stage = "probe"])
    /\ UNCHANGED <<lock, alive, dropping, proc, events, failed>>

\* probeExistingServer, and the checks that follow if nobody answers.
FirstProbe(w) ==
    /\ Ready(w) /\ win[w].stage = "probe"
    /\ Set(w, IF Listening THEN Return(Attached(win[w]))
              ELSE IF manualStop THEN Return([win[w] EXCEPT !.state = "stopped"])
              ELSE IF FreshRestart /\ ~OwnedBy(w) /\ ~win[w].restarting
                   THEN [win[w] EXCEPT !.stage = "awaitRestart"]
                   ELSE [win[w] EXCEPT !.stage = "claim"])
    /\ UNCHANGED <<lockVars, ops, proc, events, failed>>

AwaitRestart(w) ==
    /\ Ready(w) /\ win[w].stage = "awaitRestart"
    /\ Set(w, IF Listening THEN Return(Attached(win[w])) ELSE [win[w] EXCEPT !.stage = "claim"])
    /\ UNCHANGED <<lockVars, ops, proc, events, failed>>

ClaimRead(w) ==
    /\ Ready(w) /\ win[w].stage = "claim"
    /\ Set(w, IF MayClaim(w, lock) THEN [win[w] EXCEPT !.stage = "claimWrite", !.seen = lock]
              ELSE [win[w] EXCEPT !.stage = "awaitOwner"])
    /\ UNCHANGED <<lockVars, ops, proc, events, failed>>

ClaimWrite(w) ==
    /\ w \in alive /\ win[w].stage = "claimWrite"
    /\ lock' = ClaimMark(w, win[w].seen)
    /\ Set(w, [win[w] EXCEPT !.stage = "claimConfirm"])
    /\ UNCHANGED <<manualStop, alive, notified, dropping, ops, proc, events, failed>>

ClaimConfirm(w) ==
    /\ w \in alive /\ win[w].stage = "claimConfirm"
    /\ Set(w, [win[w] EXCEPT !.stage = IF ClaimHolds(w, win[w].seen) THEN "spawn" ELSE "awaitOwner",
                             !.seen = NoLock])
    /\ UNCHANGED <<lockVars, ops, proc, events, failed>>

\* Another window holds the lock: observe it, whether it answers yet or not.
AwaitOwner(w) ==
    /\ Ready(w) /\ win[w].stage = "awaitOwner"
    /\ Set(w, Return(Attached(win[w])))
    /\ UNCHANGED <<lockVars, ops, proc, events, failed>>

\* buildEnvFromConfig resolves.
Spawn(w) ==
    /\ Ready(w) /\ win[w].stage = "spawn"
    /\ \E p \in Procs :
        /\ proc[p].phase = "free" /\ \A q \in Procs : proc[q].phase = "free" => p <= q
        /\ proc' = [proc EXCEPT ![p] = [FreeProc EXCEPT !.phase = "starting", !.parent = w]]
        /\ Set(w, [Return(Attached(win[w])) EXCEPT !.child = p])
    /\ UNCHANGED <<lockVars, ops, events, failed>>

\* It throws, or a directory cannot be made: the operation ends with the lock held.
StartThrows(w) ==
    /\ Ready(w) /\ win[w].stage = "spawn" /\ events < MaxEvents
    /\ Set(w, [win[w] EXCEPT !.stage = "idle", !.restarting = FALSE])
    /\ events' = events + 1
    /\ failed' = failed \cup {w}
    /\ UNCHANGED <<lockVars, ops, proc>>

-------------------------------------------------------------------------------
\* stop, and the killing of the child that stop and restart share.

\* The exit of a child whose window is gone is nobody's event.
Exits(p, why) ==
    proc' = [proc EXCEPT ![p] =
                IF @.parent \in alive THEN [@ EXCEPT !.phase = "exited", !.why = why] ELSE FreeProc]

Doomed(p) == proc' = [proc EXCEPT ![p].doomed = TRUE]

\* killChild sends SIGTERM and waits.
Killing(r) == [PollStopped(r) EXCEPT !.stage = "kill", !.child = NoProc, !.victim = r.child]

\* What doStop does after its writes: closing is deactivate, which then disposes.
StopBody(w, manual, closing) ==
    LET r == [win[w] EXCEPT !.seen = NoLock] IN
    IF r.child # NoProc
    THEN /\ Set(w, [Killing(r) EXCEPT !.stage = IF closing THEN "closing" ELSE "kill"])
         /\ Doomed(r.child) /\ UNCHANGED dropping
    ELSE /\ Set(w, [PollStopped(r) EXCEPT !.state = "stopped",
                                          !.stage = IF closing THEN "closed" ELSE "idle"])
         /\ Release(w, manual)
         /\ UNCHANGED proc

DoStop(w) ==
    /\ Ready(w) /\ \E op \in {"stop", "close"} : Begins(w, op)
    /\ ops' = [ops EXCEPT ![w] = Tail(@)]
    /\ StopBody(w, FALSE, Head(ops[w]) = "close")
    /\ UNCHANGED <<lock, manualStop, alive, notified, events, failed>>

\* setManualStop(true): the flag, then the lock over what it has read.
DoManualStop(w) ==
    /\ Ready(w) /\ Begins(w, "manualStop")
    /\ ops' = [ops EXCEPT ![w] = Tail(@)]
    /\ manualStop' = TRUE /\ Notice("manual-stop")
    /\ Set(w, [win[w] EXCEPT !.stage = "stopMark", !.seen = lock])
    /\ UNCHANGED <<lock, alive, dropping, proc, events, failed>>

StopMarked(w) ==
    /\ w \in alive /\ win[w].stage = "stopMark"
    /\ lock' = StopMark(w, win[w].seen)
    /\ LET owned == StopMark(w, win[w].seen).owner = w IN
       IF win[w].child = NoProc /\ owned
       THEN /\ dropping' = dropping \cup {w}
            /\ Set(w, [PollStopped(win[w]) EXCEPT !.state = "stopped", !.stage = "idle", !.seen = NoLock])
            /\ UNCHANGED proc
       ELSE StopBody(w, FALSE, FALSE)
    /\ UNCHANGED <<manualStop, alive, notified, ops, events, failed>>

AfterKillStage(r) ==
    IF r.stage = "closing" THEN "closed" ELSE IF r.restarting THEN "waitDown" ELSE "idle"

KillWaits(w) == win[w].stage \in {"kill", "closing"}

\* SHUTDOWN_TIMEOUT_MS: SIGKILL, without waiting for the exit event.  The lock
\* stays with a restart.
KillTimeout(w) ==
    /\ Quiet(w) /\ KillWaits(w) /\ proc[win[w].victim].phase # "exited"
    /\ Exits(win[w].victim, "ok")
    /\ Set(w, [win[w] EXCEPT !.stage = AfterKillStage(win[w]), !.victim = NoProc])
    /\ Release(w, ~win[w].restarting /\ ~FreshRestart)
    /\ UNCHANGED <<lock, manualStop, alive, notified, ops, events, failed>>

-------------------------------------------------------------------------------
\* restart.

DoRestart(w) ==
    /\ Ready(w) /\ Begins(w, "restart")
    /\ ops' = [ops EXCEPT ![w] = Tail(@)]
    /\ Set(w, [win[w] EXCEPT !.stage = "restartMark", !.seen = lock, !.restarting = TRUE])
    /\ UNCHANGED <<lockVars, proc, events, failed>>

RestartMarked(w) ==
    /\ w \in alive /\ win[w].stage = "restartMark"
    /\ lock' = RestartMark(w, win[w].seen) /\ Notice("server-owner.lock")
    /\ LET r == [win[w] EXCEPT !.seen = NoLock] IN
       IF r.child # NoProc
       THEN Set(w, Killing(r)) /\ Doomed(r.child)
       ELSE Set(w, [PollStopped(r) EXCEPT !.stage = "waitDown"]) /\ UNCHANGED proc
    /\ UNCHANGED <<manualStop, alive, dropping, ops, events, failed>>

\* The port is free, or RESTART_WAIT_DOWN_MS are over.
WaitDown(w) ==
    /\ Ready(w) /\ win[w].stage = "waitDown"
    /\ Set(w, [win[w] EXCEPT !.stage = "start"])
    /\ UNCHANGED <<lockVars, ops, proc, events, failed>>

RestartOver(r) == [r EXCEPT !.stage = "idle", !.restarting = FALSE, !.seen = NoLock]

\* endRestart reads the lock and, if it is its own,
RestartEnd(w) ==
    /\ w \in alive \ dropping /\ win[w].stage = "restartEnd"
    /\ Set(w, IF OwnedBy(w) THEN [win[w] EXCEPT !.stage = "endWrite", !.seen = lock]
              ELSE RestartOver(win[w]))
    /\ UNCHANGED <<lockVars, ops, proc, events, failed>>

EndWriteOnly(w) ==
    /\ w \in alive /\ win[w].stage = "endWrite"
    /\ lock' = RestartDone(w, win[w].seen)
    /\ Set(w, RestartOver(win[w]))
    /\ UNCHANGED <<manualStop, alive, notified, dropping, ops, proc, events, failed>>

\* ends the mark; a restart that spawned nothing gives the lock up.
EndWrite(w) ==
    /\ w \in alive /\ win[w].stage = "endWrite"
    /\ lock' = RestartDone(w, win[w].seen)
    /\ dropping' = IF win[w].child = NoProc THEN dropping \cup {w} ELSE dropping
    /\ Set(w, RestartOver(win[w]))
    /\ UNCHANGED <<manualStop, alive, notified, ops, proc, events, failed>>

-------------------------------------------------------------------------------
\* The relay processes.

Listen(p) ==
    /\ proc[p].phase = "starting" /\ ~Listening
    /\ proc' = [proc EXCEPT ![p].phase = "listening"]
    /\ UNCHANGED <<lockVars, win, ops, events, failed>>

PortTaken(p) ==
    /\ proc[p].phase = "starting" /\ Listening
    /\ Exits(p, "port")
    /\ UNCHANGED <<lockVars, win, ops, events, failed>>

Dies(p) ==
    /\ proc[p].phase \in {"starting", "listening"} /\ proc[p].doomed
    /\ Exits(p, "ok")
    /\ UNCHANGED <<lockVars, win, ops, events, failed>>

Crashes(p) ==
    /\ proc[p].phase \in {"starting", "listening"} /\ events < MaxEvents
    /\ Exits(p, "error")
    /\ events' = events + 1
    /\ UNCHANGED <<lockVars, win, ops, failed>>

\* The exit event: it clears `child`, whichever process that is by now, and
\* resolves the kill that waits for this one.
ExitEvent(w, p) ==
    /\ Quiet(w) /\ proc[p].phase = "exited" /\ proc[p].parent = w
    /\ proc' = [proc EXCEPT ![p] = FreeProc]
    /\ Release(w, proc[p].why = "port" \/ (~win[w].restarting /\ ~FreshRestart))
    /\ LET r == PollStopped([win[w] EXCEPT !.child = NoProc])
           s == IF proc[p].why = "port" THEN [r EXCEPT !.fallback = TRUE]
                ELSE [r EXCEPT !.state = IF proc[p].why = "ok" THEN "stopped" ELSE "error"]
       IN Set(w, IF r.victim # p THEN s
                 ELSE [s EXCEPT !.victim = NoProc, !.stage = AfterKillStage(r)])
    /\ UNCHANGED <<lock, manualStop, alive, notified, ops, events, failed>>

\* fallbackToObserver: the port was taken; does the server there answer?
Fallback(w) ==
    /\ Quiet(w) /\ win[w].fallback
    /\ LET r == [win[w] EXCEPT !.fallback = FALSE]
       IN Set(w, IF Listening THEN Attached(r) ELSE [r EXCEPT !.state = "error"])
    /\ UNCHANGED <<lockVars, ops, proc, events, failed>>

-------------------------------------------------------------------------------
\* Health polls, takeover, watcher.

\* attemptTakeover, up to its first await.  Under the mark of a restart it returns,
\* and nothing starts the polls of the window again.
TakeoverAsked(r) ==
    IF r.takeover \/ r.child # NoProc \/ r.restarting THEN r
    ELSE IF manualStop THEN [r EXCEPT !.state = "stopped"]
    ELSE IF FreshRestart THEN [r EXCEPT !.yielded = TRUE]
    ELSE [r EXCEPT !.takeover = TRUE]

\* What a poll that comes back does.  One that finds nobody stands for the third in
\* a row; the two before it change nothing.
Polled(r) ==
    IF Listening THEN [r EXCEPT !.state = "up"]
    ELSE IF r.child = NoProc THEN TakeoverAsked(PollStopped(r)) ELSE r

\* Three polls are out for longer than the exit event of a process that is gone.
ExitPending(w) == \E p \in Procs : proc[p].phase = "exited" /\ proc[p].parent = w

Poll(w) ==
    /\ Quiet(w) /\ win[w].poll = "on" /\ ~ExitPending(w)
    /\ Set(w, Polled(win[w]))
    /\ UNCHANGED <<lockVars, ops, proc, events, failed>>

\* A poll of a timer that was stopped meanwhile, or the end of that timer.
LatePoll(w, back) ==
    /\ Quiet(w) /\ win[w].poll = "late" /\ ~ExitPending(w)
    /\ Set(w, [IF back THEN Polled(win[w]) ELSE win[w] EXCEPT !.poll = "off"])
    /\ UNCHANGED <<lockVars, ops, proc, events, failed>>

\* The jitter is over; what the files and the probe say then decides.
Takeover(w) ==
    /\ Quiet(w) /\ HasRoom(w) /\ win[w].takeover
    /\ LET r == [win[w] EXCEPT !.takeover = FALSE] IN
       IF manualStop THEN Set(w, [r EXCEPT !.state = "stopped"]) /\ UNCHANGED ops
       ELSE IF FreshRestart THEN Set(w, [r EXCEPT !.yielded = TRUE]) /\ UNCHANGED ops
       ELSE IF Listening THEN Set(w, Attached(r)) /\ UNCHANGED ops
       ELSE Set(w, r) /\ Enqueue(w, "start")
    /\ UNCHANGED <<lockVars, proc, events, failed>>

\* The watcher reports a change; the window looks at the files as they are now.
Watch(w, f) ==
    /\ Quiet(w) /\ HasRoom(w) /\ f \in notified[w]
    /\ notified' = [notified EXCEPT ![w] = @ \ {f}]
    /\ CASE win[w].restarting -> UNCHANGED ops
         [] ~win[w].restarting /\ f = "manual-stop" /\ manualStop /\ win[w].state # "stopped" ->
                Enqueue(w, "stop")
         [] ~win[w].restarting /\ f = "manual-stop" /\ ~manualStop /\ win[w].state = "stopped" ->
                Enqueue(w, "start")
         [] ~win[w].restarting /\ f = "server-owner.lock" /\ lock.intent = "restarting"
            /\ win[w].child # NoProc -> Enqueue(w, "stop")
         [] OTHER -> UNCHANGED ops
    /\ UNCHANGED <<lock, manualStop, alive, dropping, win, proc, events, failed>>

-------------------------------------------------------------------------------
\* The user, and the end of a window.

Command(w, op) ==
    /\ Quiet(w) /\ HasRoom(w) /\ events < MaxEvents
    /\ events' = events + 1
    /\ Enqueue(w, op)
    /\ UNCHANGED <<lockVars, win, proc, failed>>

WindowEnds(w) ==
    /\ alive' = alive \ {w} /\ dropping' = dropping \ {w}
    /\ notified' = [notified EXCEPT ![w] = {}]
    /\ win' = [win EXCEPT ![w] = NewWindow]
    /\ ops' = [ops EXCEPT ![w] = << >>]
    /\ proc' = [p \in Procs |->
            IF proc[p].phase = "exited" /\ proc[p].parent = w THEN FreeProc ELSE proc[p]]
    /\ UNCHANGED <<lock, manualStop, failed>>

\* dispose
Closed(w) ==
    /\ Ready(w) /\ win[w].stage = "closed"
    /\ WindowEnds(w)
    /\ UNCHANGED events

\* The extension host dies, between any two accesses; its child lives on.
WindowCrashes(w) ==
    /\ w \in alive /\ events < MaxEvents
    /\ events' = events + 1
    /\ WindowEnds(w)

-------------------------------------------------------------------------------
Operation(w) ==
    \/ DoStart(w) \/ FirstProbe(w) \/ AwaitRestart(w) \/ ClaimRead(w) \/ ClaimWrite(w)
    \/ ClaimConfirm(w) \/ AwaitOwner(w) \/ Spawn(w)
    \/ DoStop(w) \/ DoManualStop(w) \/ StopMarked(w) \/ KillTimeout(w)
    \/ DoRestart(w) \/ RestartMarked(w) \/ WaitDown(w) \/ RestartEnd(w) \/ EndWrite(w)
    \/ Closed(w)

ManagerNext ==
    \/ RestartGrowsStale
       /\ UNCHANGED managerVars
    \/ \E w \in Windows :
        \/ Operation(w) \/ StartThrows(w)
        \/ Unlink(w) /\ UNCHANGED managerVars
        \/ Fallback(w) \/ Poll(w) \/ \E back \in BOOLEAN : LatePoll(w, back)
        \/ Takeover(w)
        \/ \E f \in Files : Watch(w, f)
        \/ \E op \in {"start", "manualStop", "restart", "close"} : Command(w, op)
        \/ WindowCrashes(w)
        \/ \E p \in Procs : ExitEvent(w, p)
    \/ \E p \in Procs : Listen(p) \/ PortTaken(p) \/ Dies(p) \/ Crashes(p)

\* Nothing of the code waits for a user or a fault: what it has begun it goes on
\* with, its timers fire, and a process that was told to end does; and the mark of a
\* restart ages whether its window lives or not.
ManagerFairness ==
    /\ WF_vars(RestartGrowsStale /\ UNCHANGED managerVars)
    /\ \A w \in Windows :
        /\ WF_vars(Operation(w))
        /\ WF_vars(Unlink(w) /\ UNCHANGED managerVars)
        /\ WF_vars(Fallback(w)) /\ WF_vars(Poll(w)) /\ WF_vars(LatePoll(w, FALSE))
        /\ WF_vars(Takeover(w))
        /\ \A f \in Files : WF_vars(Watch(w, f))
        /\ \A p \in Procs : WF_vars(ExitEvent(w, p))
    /\ \A p \in Procs : WF_vars(Listen(p)) /\ WF_vars(PortTaken(p)) /\ WF_vars(Dies(p))

ManagerSpec == ManagerInit /\ [][ManagerNext]_vars /\ ManagerFairness

-------------------------------------------------------------------------------
Idle(w) == win[w].stage = "idle" /\ ops[w] = << >> /\ w \notin dropping

\* What the lock says of a live window is so.  It is never left with one that has no
\* server and nothing under way: that would keep the others out for as long as the
\* window is open (a start that throws after its claim is the one way to get there,
\* server-manager.ts:219).  And the mark of a restart, which holds every observer back,
\* is only found there while the window that wrote it is restarting.
LockIsTrue ==
    \A w \in alive \ failed : lock.owner = w =>
        /\ lock.intent # "stopped" /\ WriterAlive(lock) => ~Idle(w) \/ win[w].child # NoProc
        /\ lock.intent = "restarting" => win[w].restarting

\* A poll finds that the server is gone, and this window has not spawned one.
PollsForNothing(w) == win[w].poll = "on" /\ win[w].child = NoProc /\ ~Listening

\* There is a server again, or a reason that there is none which the user sees.
Recovered(w) ==
    Listening \/ manualStop \/ win[w].state = "error" \/ w \notin alive \/ failed # {}

\* An observer that polls a server that is gone finds one again, its own or
\* another's, or shows the error of the one it spawned, unless the user stops the
\* server or the window closes.  The exception is a window that has yielded its takeover
\* to the mark of a restart (attemptTakeover): the code lets it never look again, also
\* when the window that restarts dies, where setup-guide.md:111 and lifecycle-lock.ts:7
\* promise the takeover.  That the mark is there for a while is no excuse: it grows old.
ObserverRecovers ==
    \A w \in Windows : PollsForNothing(w) ~> (Recovered(w) \/ win[w].yielded)

================================================================================
