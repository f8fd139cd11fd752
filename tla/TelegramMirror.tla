--------------------------- MODULE TelegramMirror ---------------------------
(***************************************************************************)
(* The Telegram transport (transports/telegram): what one Cursor window    *)
(* shows is mirrored into the topic of its conversation, as one message    *)
(* and one approval banner.  The jobs are the async functions under way:   *)
(* doProcessWindow, the approvals of a state patch, and the commands of    *)
(* the chat.  A job runs alone until its next await (Quiet), and takes its *)
(* answer before the queue begins another call.                            *)
(* Bounds: MaxThreads topics ever created, MaxPosts messages ever posted,  *)
(* MaxVersion contents of an element, MaxMoves changes, commands, faults   *)
(* and restarts together, and as many jobs at once as Jobs has.            *)
(***************************************************************************)
EXTENDS SendQueue, MessageTracker, FiniteSets

CONSTANTS Jobs, Other, MaxThreads, MaxPosts, MaxVersion, MaxMoves, NoSnapshot

Snapshots == [message : Nat, banner : Nat, no : Nat]

ASSUME MirrorAssumption ==
    /\ MaxThreads \in Nat /\ MaxVersion \in Nat /\ Threads = 1..MaxThreads
    /\ Elements = {"message", "banner"}
    /\ Callers = Jobs \union {Other}
    /\ Other \notin Jobs
    /\ NoSnapshot \notin Snapshots

VARIABLES
    on,                 \* syncEnabled, with the group's id
    topics,             \* the topics tracked (a later one has a higher id), and whether bound to the window; on disk too
    processing, pendingSnapshot, creating, inflight, graced,
    job,
    alive, created, chat, posts,        \* Telegram: live topics, topics and messages made
    win, arrived, told, taken,          \* the window, and which of its changes went where
    unsure,             \* history: where a second copy would be nobody's mistake
    moves

mirror == <<on, topics, processing, pendingSnapshot, creating, inflight, graced>>
telegram == <<alive, created, chat, posts>>
window == <<win, arrived, told, taken>>
mirrorVars == <<queueVars, trackVars, mirror, job, telegram, window, unsure, moves>>

Idle == [kind |-> "none", at |-> "idle", thread |-> 0, msg |-> 0, seen |-> NoSnapshot, todo |-> {}]
Synchronous == {"route", "sweep", "banner", "message", "next", "reset"}
Quiet == \A j \in Jobs : job[j].at \notin Synchronous /\ answer[j] \in {"none", "waiting"}
Move == moves < MaxMoves /\ moves' = moves + 1
Goes(j, at) == job' = [job EXCEPT ![j].at = at, ![j].msg = 0]
Free(j) == job[j] = Idle /\ j = CHOOSE k \in Jobs : job[k] = Idle
Ends(j) == job' = [job EXCEPT ![j] = Idle]

Tracked == {m.id : m \in topics}
Bound == {m.id : m \in {n \in topics : n.bound}}
Routed == IF Bound = {} THEN 0 ELSE Max(Bound)
MirrorJob(j) == job[j].kind \in {"window", "patch"}

MirrorInit ==
    /\ QueueInit /\ TrackInit
    /\ on = TRUE /\ topics = {}
    /\ processing = FALSE /\ pendingSnapshot = NoSnapshot /\ creating = FALSE
    /\ inflight = {} /\ graced = {}
    /\ job = [j \in Jobs |-> Idle]
    /\ alive = {} /\ created = 0 /\ chat = {} /\ posts = 0
    /\ win = [message |-> 1, banner |-> 0, no |-> 1]
    /\ arrived = 0 /\ told = 0 /\ taken = 0
    /\ unsure = {} /\ moves = 0

(***************************************************************************)
(* What the window shows, and how it is noticed.                           *)
(***************************************************************************)

\* The message, the approval, or something else that is not modelled changes.
CursorChanges ==
    /\ Quiet /\ Move
    /\ \/ \E m \in 1..MaxVersion : m = win.message + 1 /\ win' = [win EXCEPT !.message = m, !.no = @ + 1]
       \/ \E b \in {0, win.banner, win.banner + 1} \intersect 0..MaxVersion : win' = [win EXCEPT !.banner = b, !.no = @ + 1]
    /\ UNCHANGED <<queueVars, trackVars, mirror, job, telegram, arrived, told, taken, unsure>>

\* A window has one job at a time; what arrives meanwhile waits, the latest only.
WindowUpdate ==
    /\ Quiet /\ on /\ arrived # win.no
    /\ arrived' = win.no
    /\ UNCHANGED <<queueVars, trackVars, on, topics, creating, inflight, graced, telegram, win, told, unsure, moves>>
    /\ IF processing
       THEN pendingSnapshot' = win /\ UNCHANGED <<processing, job, taken>>
       ELSE /\ processing' = TRUE
            /\ taken' = win.no
            /\ \E j \in Jobs : /\ Free(j)
                               /\ job' = [job EXCEPT ![j] = [Idle EXCEPT !.kind = "window", !.at = "route", !.seen = win]]
            /\ UNCHANGED pendingSnapshot

StatePatch(j) ==
    /\ Quiet /\ on /\ told # win.banner
    /\ Free(j)
    /\ told' = win.banner
    /\ job' = [job EXCEPT ![j] = [Idle EXCEPT !.kind = "patch", !.at = "route", !.seen = win]]
    /\ UNCHANGED <<queueVars, trackVars, mirror, telegram, win, arrived, taken, unsure, moves>>

(***************************************************************************)
(* doProcessWindow and processApprovals: find the topic, or create it.     *)
(***************************************************************************)

RouteFrame == UNCHANGED <<queueVars, trackVars, on, topics, processing, pendingSnapshot, inflight, graced, telegram, window, unsure, moves>>
ToTopic(j, t) == job' = [job EXCEPT ![j].thread = t, ![j].at = "sweep"]

Route(j) ==
    /\ job[j].at = "route" /\ job[j].kind = "window"
    /\ RouteFrame
    /\ \/ on /\ Routed # 0 /\ ToTopic(j, Routed) /\ UNCHANGED creating
       \/ on /\ Routed = 0 /\ ~creating /\ creating' = TRUE /\ Goes(j, "creating")
       \/ (~on \/ (Routed = 0 /\ creating)) /\ Goes(j, "next") /\ UNCHANGED creating

\* Approvals of the window the server is connected to; they create no topic.
RouteApprovals(j) ==
    /\ job[j].at = "route" /\ job[j].kind = "patch"
    /\ RouteFrame
    /\ UNCHANGED creating
    /\ IF on /\ Routed # 0 THEN ToTopic(j, Routed) ELSE Goes(j, "next")

\* createForumTopic, not through the queue: done, done without our hearing of it, or failed.
Registered(t) == topics \union {[id |-> t, bound |-> TRUE]}
TopicMade(heard) ==
    /\ on /\ created < MaxThreads
    /\ created' = created + 1
    /\ alive' = alive \union {created + 1}
    /\ topics' = IF heard THEN Registered(created + 1) ELSE topics
    /\ IF heard THEN UNCHANGED moves ELSE Move
    /\ UNCHANGED <<chat, posts>>

TopicNotMade ==
    /\ IF on /\ created < MaxThreads THEN Move ELSE UNCHANGED moves
    /\ UNCHANGED <<topics, telegram>>

CreateTopic(j) ==
    /\ Quiet /\ job[j].at = "creating"
    /\ creating' = FALSE
    /\ \/ TopicMade(TRUE) /\ ToTopic(j, created + 1)
       \/ (TopicMade(FALSE) \/ TopicNotMade) /\ Goes(j, "next")
    /\ UNCHANGED <<queueVars, trackVars, on, processing, pendingSnapshot, inflight, graced, window, unsure>>

(***************************************************************************)
(* The banner of an approval: deleted once it has been gone for the grace  *)
(* period, sent or edited when new.                                        *)
(***************************************************************************)

Thread(j) == job[j].thread
Shown(j, e) == track[<<Thread(j), e>>].msg

After(j) == IF job[j].kind = "window" THEN "message" ELSE "next"

\* Banner gone: the first look sets the deadline, a later one past it deletes.
Sweep(j) ==
    /\ job[j].at = "sweep"
    /\ UNCHANGED <<trackVars, on, topics, processing, pendingSnapshot, creating, inflight, telegram, window, unsure, moves>>
    /\ IF ~on \/ ~IsTracked(Thread(j), "banner")
       THEN Goes(j, IF on THEN "banner" ELSE After(j)) /\ UNCHANGED <<queueVars, graced>>
       ELSE IF job[j].seen.banner # 0
       THEN /\ graced' = graced \ {Thread(j)}
            /\ Goes(j, "banner")
            /\ UNCHANGED queueVars
       ELSE \/ /\ graced' = graced \union {Thread(j)}
               /\ Goes(j, "banner")
               /\ UNCHANGED queueVars
            \/ /\ Thread(j) \in graced
               /\ Enqueue(j, "edit")
               /\ job' = [job EXCEPT ![j].at = "deleting", ![j].msg = Shown(j, "banner")]
               /\ UNCHANGED graced

BannerDeleted(j) ==
    /\ job[j].at = "deleting"
    /\ TakeAnswer(j)
    /\ Untrack(Thread(j), "banner")
    /\ graced' = graced \ {Thread(j)}
    /\ Goes(j, "banner")
    /\ UNCHANGED <<queue, running, on, topics, processing, pendingSnapshot, creating, inflight, telegram, window, unsure, moves>>

\* The race guard: two jobs that both found the tracker empty.
NothingInFlight(t) == FALSE
InFlight(t) == t \in inflight

Banner(j) ==
    /\ job[j].at = "banner"
    /\ UNCHANGED <<trackVars, on, topics, processing, pendingSnapshot, creating, graced, telegram, window, unsure, moves>>
    /\ LET b == job[j].seen.banner
           t == Thread(j)
       IN IF b # 0 /\ HasChanged(t, "banner", b) /\ ~InFlight(t)
          THEN /\ inflight' = inflight \union {t}
               /\ Enqueue(j, IF Shown(j, "banner") # 0 THEN "edit" ELSE "send")
               /\ job' = [job EXCEPT ![j].at = "bannerSent", ![j].msg = Shown(j, "banner")]
          ELSE Goes(j, After(j)) /\ UNCHANGED <<queueVars, inflight>>

BannerSent(j) ==
    /\ job[j].at = "bannerSent"
    /\ TakeAnswer(j)
    /\ inflight' = inflight \ {Thread(j)}
    /\ IF answer[j] = "ok"
       THEN Track(Thread(j), "banner", job[j].msg, job[j].seen.banner)
       ELSE UNCHANGED trackVars
    /\ Goes(j, After(j))
    /\ UNCHANGED <<queue, running, on, topics, processing, pendingSnapshot, creating, graced, telegram, window, unsure, moves>>

(***************************************************************************)
(* The conversation's message: sent when untracked, edited when changed.   *)
(* One whose topic or message is gone is tracked as dead, with no id.      *)
(***************************************************************************)

Message(j) ==
    /\ job[j].at = "message"
    /\ UNCHANGED <<trackVars, mirror, telegram, window, unsure, moves>>
    /\ LET t == Thread(j)
           known == IsTracked(t, "message")
       IN IF known => HasChanged(t, "message", job[j].seen.message) /\ Shown(j, "message") # 0
          THEN /\ Enqueue(j, IF known THEN "edit" ELSE "send")
               /\ job' = [job EXCEPT ![j].at = "messageSent", ![j].msg = Shown(j, "message")]
          ELSE Goes(j, "next") /\ UNCHANGED queueVars

Dead == MaxVersion + 1

MessageSent(j) ==
    /\ job[j].at = "messageSent"
    /\ TakeAnswer(j)
    /\ \/ answer[j] = "ok" /\ Track(Thread(j), "message", job[j].msg, job[j].seen.message)
       \/ answer[j] = "gone" /\ Track(Thread(j), "message", 0, Dead)
       \/ answer[j] = "failed" /\ UNCHANGED trackVars
    /\ Goes(j, "next")
    /\ UNCHANGED <<queue, running, mirror, telegram, window, unsure, moves>>

\* processNext: the snapshot that waited, if any, else the window's turn is over.
ForgetPending == NoSnapshot
NextSnapshot == pendingSnapshot

ProcessNext(j) ==
    /\ job[j].at = "next"
    /\ UNCHANGED <<queueVars, trackVars, on, topics, creating, inflight, graced, telegram, win, arrived, told, unsure, moves>>
    /\ IF job[j].kind # "window"
       THEN Ends(j) /\ UNCHANGED <<processing, pendingSnapshot, taken>>
       ELSE /\ pendingSnapshot' = NoSnapshot
            /\ IF NextSnapshot # NoSnapshot
               THEN /\ job' = [job EXCEPT ![j] = [Idle EXCEPT !.kind = "window", !.at = "route", !.seen = NextSnapshot]]
                    /\ taken' = NextSnapshot.no
                    /\ UNCHANGED processing
               ELSE Ends(j) /\ processing' = FALSE /\ UNCHANGED taken

(***************************************************************************)
(* Telegram's answers.  With sync off the group's id is gone and every     *)
(* call fails.  A post whose answer is lost stays in the chat unknown, and *)
(* so does a message whose deletion fails.                                 *)
(***************************************************************************)

Answering(j) == Quiet /\ running # NoItem /\ running.by = j
Asked(j) == <<Thread(j), IF job[j].at = "messageSent" THEN "message" ELSE "banner">>
Posting(j) == job[j].at # "deleting" /\ job[j].msg = 0
Live(j) == \E m \in chat : m.id = job[j].msg
UnknownCopy(j) == IF job[j].at = "deleting" /\ Live(j) THEN unsure \union {Asked(j)} ELSE unsure

Post(j, result) ==
    /\ Answering(j) /\ Posting(j) /\ on
    /\ Thread(j) \in alive /\ posts < MaxPosts
    /\ posts' = posts + 1
    /\ chat' = chat \union {[id |-> posts + 1, thread |-> Thread(j), element |-> Asked(j)[2]]}
    /\ Finish(result)
    /\ IF result = "ok"
       THEN job' = [job EXCEPT ![j].msg = posts + 1] /\ UNCHANGED <<unsure, moves>>
       ELSE unsure' = unsure \union {Asked(j)} /\ Move /\ UNCHANGED job
    /\ UNCHANGED <<trackVars, mirror, alive, created, window>>

Done(j) ==
    /\ Answering(j) /\ ~Posting(j) /\ on /\ Live(j)
    /\ chat' = IF job[j].at = "deleting" THEN {m \in chat : m.id # job[j].msg} ELSE chat
    /\ Finish("ok")
    /\ UNCHANGED <<trackVars, mirror, job, alive, created, posts, window, unsure, moves>>

\* The topic, or the message, no longer exists.
NotFound(j) ==
    /\ Answering(j) /\ on
    /\ IF Posting(j) THEN Thread(j) \notin alive ELSE ~Live(j)
    /\ Finish("gone")
    /\ UNCHANGED <<trackVars, mirror, job, telegram, window, unsure, moves>>

Refused(j) ==
    /\ Answering(j)
    /\ IF on /\ posts < MaxPosts THEN Move ELSE UNCHANGED moves
    /\ Finish("failed")
    /\ unsure' = UnknownCopy(j)
    /\ UNCHANGED <<trackVars, mirror, job, telegram, window>>

Limited(j) ==
    /\ Answering(j)
    /\ RateLimited
    /\ IF running.retries < MaxRetries THEN UNCHANGED <<unsure, moves>> ELSE Move /\ unsure' = UnknownCopy(j)
    /\ UNCHANGED <<trackVars, mirror, job, telegram, window>>

Answered(j) == Post(j, "ok") \/ Post(j, "failed") \/ Done(j) \/ NotFound(j) \/ Refused(j) \/ Limited(j)

\* What shares the queue with the mirror: a notice that a conversation has no topic, or
\* that Cursor came or went, and the activity line, the card of a questionnaire and the
\* list of queued prompts of other windows, sent at first and edited later.
RoutingNotice    == on /\ Enqueue(Other, "send")
ConnectionNotice == on /\ Enqueue(Other, "send")
ActivityLine(p)  == Enqueue(Other, p)
Questionnaire(p) == Enqueue(Other, p)
PromptQueue(p)   == Enqueue(Other, p)

OtherCalls ==
    /\ Quiet /\ Move
    /\ \/ RoutingNotice \/ ConnectionNotice
       \/ \E p \in {"send", "edit"} : ActivityLine(p) \/ Questionnaire(p) \/ PromptQueue(p)
    /\ UNCHANGED <<trackVars, mirror, job, telegram, window, unsure>>

OtherAnswered ==
    /\ Quiet
    /\ \/ running # NoItem /\ running.by = Other /\ Finish("ok")
       \/ TakeAnswer(Other) /\ UNCHANGED <<queue, running>>
    /\ UNCHANGED <<trackVars, mirror, job, telegram, window, unsure, moves>>

QueueGoesOn ==
    /\ Quiet /\ StartNext
    /\ UNCHANGED <<trackVars, mirror, job, telegram, window, unsure, moves>>

(***************************************************************************)
(* The commands of the chat.  The poll loop awaits each handler, and only  *)
(* /unsync does its work before it returns; the others go on by themselves.*)
(***************************************************************************)

PollLoopFree == \A k \in Jobs : job[k].kind # "unsync"
Command(j) == Quiet /\ Free(j) /\ PollLoopFree
Turns(value) == on' = value
Works(j, kind, at, todo) == job' = [job EXCEPT ![j] = [Idle EXCEPT !.kind = kind, !.at = at, !.todo = todo]]
CommandFrame == UNCHANGED <<queueVars, trackVars, topics, processing, pendingSnapshot, creating, inflight, graced, telegram, window, unsure>>

\* Done at once when the window was not seen yet, and when its topic exists.
Sync(j) ==
    /\ Command(j)
    /\ IF on THEN Move ELSE UNCHANGED moves
    /\ Turns(TRUE)
    /\ UNCHANGED job \/ (Routed = 0 /\ Works(j, "sync", "syncing", {}))
    /\ CommandFrame

SyncAll(j) ==
    /\ Command(j) /\ Move
    /\ on /\ UNCHANGED on
    /\ Routed = 0 /\ Works(j, "sync", "syncing", {})
    /\ CommandFrame

\* In the background; the excerpt posted into the new topic is neither queued nor tracked.
SyncTopic(j) ==
    /\ Quiet /\ job[j].at = "syncing"
    /\ TopicMade(TRUE) \/ TopicMade(FALSE) \/ TopicNotMade
    /\ Goes(j, "next")
    /\ UNCHANGED <<queueVars, trackVars, on, processing, pendingSnapshot, creating, inflight, graced, window, unsure>>

Unsync(j) ==
    /\ Command(j) /\ Move
    /\ Turns(FALSE)
    /\ IF topics = {} THEN UNCHANGED job ELSE Works(j, "unsync", "topics", Tracked)
    /\ CommandFrame

\* Every thread id up to well past the highest one known, whosever it is.
Purge(j) ==
    /\ Command(j) /\ Move
    /\ Turns(FALSE)
    /\ Works(j, "purge", "topics", Threads)
    /\ CommandFrame

\* Of the topics of one conversation all but the one last active, which is the one routed to.
Dedupe(j) ==
    /\ Command(j) /\ Move
    /\ Bound \ {Routed} # {}
    /\ Works(j, "dedupe", "topics", Bound \ {Routed})
    /\ UNCHANGED on
    /\ CommandFrame

\* The topics not tracked when the command came, also if they are by the time of their turn.
Cleanup(j) ==
    /\ Command(j) /\ Move
    /\ topics # {}
    /\ LET untracked == Threads \ Tracked
       IN IF untracked = {} THEN UNCHANGED job ELSE Works(j, "cleanup", "topics", untracked)
    /\ UNCHANGED on
    /\ CommandFrame

\* A topic is bound to the conversation now active: to another one, or to this one if it has none.
Rebound(t) == {IF m.id = t THEN [m EXCEPT !.bound = ~@] ELSE m : m \in topics}

Resync ==
    /\ Quiet /\ PollLoopFree /\ Move
    /\ \E t \in Tracked :
          /\ t \notin Bound => Routed = 0
          /\ topics' = Rebound(t)
    /\ UNCHANGED <<queueVars, trackVars, on, processing, pendingSnapshot, creating, inflight, graced, job, telegram, window, unsure>>

Unmapped(t) == {m \in topics : m.id # t}

\* One after the other, the oldest first.
DeleteTopic(j) ==
    /\ Quiet /\ job[j].at = "topics"
    /\ LET t    == Min(job[j].todo)
           left == job[j].todo \ {t}
       IN /\ \/ /\ t \in alive
                /\ alive' = alive \ {t}
                /\ chat' = {m \in chat : m.thread # t}
                /\ UNCHANGED moves
             \/ /\ IF t \in alive THEN Move ELSE UNCHANGED moves
                /\ UNCHANGED <<alive, chat>>
          /\ topics' = IF job[j].kind = "dedupe" THEN Unmapped(t) ELSE topics
          /\ job' = [job EXCEPT ![j].todo = left,
                                ![j].at = CASE left # {} -> "topics"
                                            [] left = {} /\ job[j].kind \in {"dedupe", "cleanup"} -> "next"
                                            [] OTHER -> "reset"]
    /\ UNCHANGED <<queueVars, trackVars, on, processing, pendingSnapshot, creating, inflight, graced, created, posts, window, unsure>>

\* resetAllState forgets the jobs under way, which go on all the same.
Reset(j) ==
    /\ job[j].at = "reset"
    /\ topics' = {} /\ processing' = FALSE /\ pendingSnapshot' = NoSnapshot /\ creating' = FALSE
    /\ ClearAll
    /\ taken' = arrived
    /\ unsure' = IF \E k \in Jobs : MirrorJob(k) THEN Threads \X Elements ELSE unsure
    /\ Ends(j)
    /\ UNCHANGED <<queueVars, on, inflight, graced, telegram, win, arrived, told, moves>>

(***************************************************************************)
(* The program ends, with or without its last flush, and is started again: *)
(* sync and topics are on disk, the tracker as far as it was saved.        *)
(***************************************************************************)

Stops == Reload(TRUE)    \* onStop
Dies  == Reload(FALSE)

\* What is in the chat and not on disk: the id was not known yet, was waiting for its
\* save, or the save had failed.
NotOnDisk(m) ==
    LET k == <<m.thread, m.element>>
    IN m.id # disk'[k].msg /\ (m.id # track[k].msg \/ dirty \/ unsaved)
Unremembered == {<<m.thread, m.element>> : m \in {c \in chat : NotOnDisk(c)}}

Restart ==
    /\ Quiet /\ Move
    /\ Stops \/ Dies
    /\ queue' = <<>> /\ running' = NoItem /\ answer' = [c \in Callers |-> "none"]
    /\ processing' = FALSE /\ pendingSnapshot' = NoSnapshot /\ creating' = FALSE
    /\ inflight' = {} /\ graced' = {}
    /\ job' = [j \in Jobs |-> Idle]
    /\ arrived' = 0 /\ told' = 0 /\ taken' = 0
    /\ unsure' = unsure \union Unremembered
    /\ UNCHANGED <<on, topics, telegram, win>>

TrackerSaves ==
    /\ Quiet /\ SaveTimer
    /\ IF disk' = track THEN UNCHANGED moves ELSE Move
    /\ UNCHANGED <<queueVars, mirror, job, telegram, window, unsure>>

JobStep(j) ==
    \/ Route(j) \/ RouteApprovals(j) \/ CreateTopic(j) \/ SyncTopic(j) \/ Sweep(j) \/ BannerDeleted(j) \/ Banner(j) \/ BannerSent(j)
    \/ Message(j) \/ MessageSent(j) \/ ProcessNext(j) \/ DeleteTopic(j) \/ Reset(j)

\* The program's own steps, and an answer of Telegram, or of the failing network, to each call.
Progress ==
    \/ QueueGoesOn \/ OtherAnswered
    \/ \E j \in Jobs : JobStep(j) \/ Answered(j)

MirrorNext ==
    \/ CursorChanges \/ WindowUpdate \/ TrackerSaves \/ Restart
    \/ OtherCalls \/ Resync \/ Progress
    \/ \E j \in Jobs : StatePatch(j) \/ Sync(j) \/ SyncAll(j) \/ Unsync(j) \/ Purge(j) \/ Dedupe(j) \/ Cleanup(j)

MirrorSpec == MirrorInit /\ [][MirrorNext]_mirrorVars /\ WF_mirrorVars(Progress)

(***************************************************************************)
(* No message, and no approval banner, stands twice in a topic, although a *)
(* window update and a state patch may send the same banner, a command may *)
(* run between two steps of either, and the program may end at any moment: *)
(* a restart goes on with the messages that the saved tracker knows        *)
(* (loadFromDisk; telegram_prd.md:390 says that it begins empty).          *)
(* Excused where the program could not know of a copy (a lost answer, a    *)
(* failed deletion, an end before its id was saved or after a save that    *)
(* failed), and where a reset has forgotten a job under way.               *)
(***************************************************************************)
OneCopy ==
    \A m, n \in chat :
        m.thread = n.thread /\ m.element = n.element /\ m # n => <<m.thread, m.element>> \in unsure

(***************************************************************************)
(* What last arrived of a window is taken up: a window's turn is never     *)
(* lost, whatever fails in it, also when a topic is created, the queue     *)
(* drops the job's message or a reset lets two jobs overlap.               *)
(***************************************************************************)
LatestSnapshotIsTaken == arrived # taken ~> arrived = taken
=============================================================================
