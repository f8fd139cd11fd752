------------------------------ MODULE SendQueue ------------------------------
(***************************************************************************)
(* The queue in front of Telegram's API (send-queue.ts).  A caller awaits  *)
(* one call at a time.  The queue runs one call at a time; a call limited  *)
(* by Telegram (429) is run again, up to MaxRetries times, before any      *)
(* other.  `running` is the item being run, which has left `queue`; the    *)
(* code's `processing` flag is  running # NoItem \/ queue # <<>>.          *)
(***************************************************************************)
EXTENDS Integers, Sequences, SequencesExt, FiniteSetsExt

CONSTANTS Callers, MaxQueueSize, MaxRetries, NoItem

Items == [by : Callers, priority : {"send", "edit"}, retries : Nat]

ASSUME QueueAssumption == NoItem \notin Items

VARIABLES queue, running, answer

queueVars == <<queue, running, answer>>

Results == {"ok", "failed", "gone"}
Item(c, p) == [by |-> c, priority |-> p, retries |-> 0]

QueueInit ==
    /\ queue = <<>>
    /\ running = NoItem
    /\ answer = [c \in Callers |-> "none"]

Processing == running # NoItem \/ queue # <<>>
Sends(q) == {i \in DOMAIN q : q[i].priority = "send"}

\* At the limit the oldest send leaves; a queue of edits only just grows.
Overflowing == Len(queue) >= MaxQueueSize /\ Sends(queue) # {}
Oldest == Min(Sends(queue))
Kept == IF Overflowing THEN RemoveAt(queue, Oldest) ELSE queue

\* Edits go before every send, behind the edits already there.
Placed(q, item) ==
    IF item.priority = "edit" /\ Sends(q) # {}
    THEN InsertAt(q, Min(Sends(q)), item)
    ELSE Append(q, item)

AnswersForgottenAtDrop(c) == [answer EXCEPT ![c] = "waiting"]

\* The caller of the call that was dropped is told so.
AnswersAfterDrop(c) ==
    [d \in Callers |-> CASE d = c -> "waiting"
                         [] d # c /\ Overflowing /\ queue[Oldest].by = d -> "failed"
                         [] OTHER -> answer[d]]

\* A call given to an idle queue begins at once.
Enqueue(c, p) ==
    /\ answer[c] = "none"
    /\ answer' = AnswersAfterDrop(c)
    /\ IF Processing
       THEN queue' = Placed(Kept, Item(c, p)) /\ UNCHANGED running
       ELSE running' = Item(c, p) /\ UNCHANGED queue

\* After the delay that follows an answer, the next call begins.
StartNext ==
    /\ running = NoItem
    /\ queue # <<>>
    /\ running' = Head(queue)
    /\ queue' = Tail(queue)
    /\ UNCHANGED answer

\* 429: the same call waits and begins again, or is given up.
RateLimited ==
    /\ running # NoItem
    /\ UNCHANGED queue
    /\ IF running.retries < MaxRetries
       THEN running' = [running EXCEPT !.retries = @ + 1] /\ UNCHANGED answer
       ELSE running' = NoItem /\ answer' = [answer EXCEPT ![running.by] = "failed"]

Finish(result) ==
    /\ running # NoItem
    /\ running' = NoItem
    /\ answer' = [answer EXCEPT ![running.by] = result]
    /\ UNCHANGED queue

\* The caller's await returns.
TakeAnswer(c) == answer[c] \in Results /\ answer' = [answer EXCEPT ![c] = "none"]

(***************************************************************************)
(* Whoever waits for Telegram is answered, also when the queue is full and *)
(* drops its oldest message, and when Telegram keeps answering 429: a      *)
(* caller left waiting would hold its window's turn for ever.              *)
(***************************************************************************)
EveryCallIsAnswered ==
    \A c \in Callers : answer[c] = "waiting" ~> answer[c] # "waiting"
=============================================================================
