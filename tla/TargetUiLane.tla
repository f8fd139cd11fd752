----------------------------- MODULE TargetUiLane ------------------------------
(***************************************************************************)
(* src/server/target-ui-coordinator.ts: the lane of one target, through    *)
(* which every probe and every UI mutation of that target goes.  Lanes     *)
(* share nothing, so one is enough.                                        *)
(*                                                                         *)
(* `queue` is the chain of promises that `tail` ends: the gate of its head *)
(* is the one the next ticket waits for.  A ticket leaves the chain when   *)
(* its callback has settled, or when its turn comes and it was cancelled.  *)
(* lane.pending is the set of tickets queued and not cancelled.            *)
(***************************************************************************)
EXTENDS Naturals, Sequences, FiniteSets

CONSTANTS
    Tickets,         \* calls of enqueue
    MaxGeneration    \* bound: lane generations

ASSUME LaneAssumption == MaxGeneration \in Nat \ {0}

VARIABLES
    generation,   \* lane.generation
    queue,        \* tickets in the order of their gates
    ticket,
    crossed       \* history: tickets in the lane when its generation changed

laneVars == <<generation, queue, ticket, crossed>>

NewTicket == [phase |-> "new", generation |-> 0, cancelled |-> FALSE, answer |-> "none"]

Waiting(t)  == ticket[t].phase = "queued"
Running(t)  == ticket[t].phase \in {"begun", "running"}
Answered(t) == ticket[t].answer # "none"

\* settleOk, settleErr, reject: the first answer is the one the caller gets.
Give(r, answer) == IF r.answer = "none" THEN [r EXCEPT !.answer = answer] ELSE r

LaneInit ==
    /\ generation = 1
    /\ queue = << >>
    /\ ticket = [t \in Tickets |-> NewTicket]
    /\ crossed = {}

\* The caller names the generation it saw, or none and gets the lane's.
Enqueue(t, g) ==
    /\ ticket[t].phase = "new"
    /\ IF g = generation
       THEN /\ ticket' = [ticket EXCEPT ![t].phase = "queued", ![t].generation = g]
            /\ queue' = Append(queue, t)
       ELSE /\ ticket' = [ticket EXCEPT ![t].phase = "done", ![t].answer = "generation_changed"]
            /\ UNCHANGED queue
    /\ UNCHANGED <<generation, crossed>>

\* Mutant of Stopped: the turn is taken whatever happened while waiting for it.
StoppedNever(t) == FALSE

Stopped(t) == ticket[t].cancelled \/ ticket[t].generation # generation

\* Mutant of Skip: the gate is not opened.
SkipHolding(t) ==
    /\ queue # << >> /\ t = Head(queue) /\ Waiting(t)
    /\ Stopped(t)
    /\ ticket' = [ticket EXCEPT ![t] = Give([@ EXCEPT !.phase = "done"], "generation_changed")]
    /\ UNCHANGED <<generation, queue, crossed>>

\* A ticket whose turn comes too late leaves without running.
Skip(t) ==
    /\ queue # << >> /\ t = Head(queue) /\ Waiting(t)
    /\ Stopped(t)
    /\ ticket' = [ticket EXCEPT ![t] = Give([@ EXCEPT !.phase = "done"], "generation_changed")]
    /\ queue' = Tail(queue)
    /\ UNCHANGED <<generation, crossed>>

\* beginRun; the callback is called
Begin(t) ==
    /\ queue # << >> /\ t = Head(queue) /\ Waiting(t)
    /\ ~Stopped(t)
    /\ ticket' = [ticket EXCEPT ![t].phase = "begun"]
    /\ UNCHANGED <<generation, queue, crossed>>

\* a microtask later, whatever happened in between.
CallRun(t) ==
    /\ ticket[t].phase = "begun"
    /\ ticket' = [ticket EXCEPT ![t].phase = "running"]
    /\ UNCHANGED <<generation, queue, crossed>>

\* release: the gate of the running ticket, the first of the chain, opens.
OpenGate(t) == queue' = IF queue # << >> /\ t = Head(queue) THEN Tail(queue) ELSE queue

RunSettles(t, answer) ==
    /\ ticket[t].phase = "running"
    /\ ticket' = [ticket EXCEPT ![t] = Give([@ EXCEPT !.phase = "done"], answer)]
    /\ OpenGate(t)
    /\ UNCHANGED <<generation, crossed>>

\* Mutant of Timeout: the lane is free for the next.
TimeoutReleasing(t) ==
    /\ ticket[t].phase = "running" /\ ~Answered(t)
    /\ ticket' = [ticket EXCEPT ![t] = Give(@, "timeout")]
    /\ OpenGate(t)
    /\ UNCHANGED <<generation, crossed>>

\* The timer answers the caller; the lane stays taken.  No timer fires between two
\* microtasks.
Timeout(t) ==
    /\ ticket[t].phase = "running" /\ ~Answered(t)
    /\ ticket' = [ticket EXCEPT ![t] = Give(@, "timeout")]
    /\ UNCHANGED <<generation, queue, crossed>>

\* invalidateLane: the running callback is told, its caller and those of every
\* pending ticket are answered.
Invalidate(code) ==
    ticket' = [t \in Tickets |->
        IF Waiting(t) THEN Give([ticket[t] EXCEPT !.cancelled = TRUE], code)
        ELSE IF Running(t) THEN Give(ticket[t], code)
        ELSE ticket[t]]

InLane == {t \in Tickets : Waiting(t) \/ Running(t)}

SetGeneration(g) ==
    /\ g # generation
    /\ generation' = g
    /\ Invalidate("generation_changed")
    /\ crossed' = crossed \cup InLane
    /\ UNCHANGED queue

\* cancel and cancelAll, as this lane sees them, with the reason they default to.
Cancel ==
    /\ generation < MaxGeneration
    /\ generation' = generation + 1
    /\ Invalidate("cancelled")
    /\ crossed' = crossed \cup InLane
    /\ UNCHANGED queue

--------------------------------------------------------------------------------
(* Properties.                                                             *)

\* No two callbacks of a target are ever under way together, not even when the
\* first one's caller was told long ago that it timed out or was cancelled.
OneCallbackAtATime ==
    \A t, u \in Tickets : Running(t) /\ Running(u) => t = u

\* A run is never begun once the generation of its target has changed since it was
\* queued, nor after its caller was answered.  (What happens in the microtask between beginRun
\* and the callback is beyond this: the callback is then called regardless.)
NeverRunsLate ==
    [][\A t \in Tickets : Waiting(t) /\ Running(t)' =>
          t \notin crossed /\ ~Answered(t)]_laneVars

\* The chain of gates, with its generations and the tickets that leave it without having
\* run, is to its callers the lane that UiLane describes: an answer is given once, turns
\* come one at a time and in the order of `enqueue`, and none to a call that was answered.
\* A cancelled ticket is in the chain but not in line, and nobody in line is ahead of one.
Due(t)    == Waiting(t) /\ ~ticket[t].cancelled
DuePlaces == {i \in DOMAIN queue : Due(queue[i])}

Lane == INSTANCE UiLane WITH
    line <- SubSeq(queue, Len(queue) - Cardinality(DuePlaces) + 1, Len(queue)),
    turn <- {t \in Tickets : Running(t)},
    told <- [t \in Tickets |-> ticket[t].answer]

ImplementsLane == Lane!LaneSpec

\* Everyone who enqueues is answered, whatever the callbacks before it come to.
EveryoneIsAnswered == \A t \in Tickets : Waiting(t) ~> Answered(t)

================================================================================
