----------------------------- MODULE CommandProofs -----------------------------
(***************************************************************************)
(* For every number of tickets, envelopes and ids: the lane of a target    *)
(* runs one callback at a time, in order and none too late (UiLane), and a *)
(* command is done once and reported truly, from the user's button to the  *)
(* page and back.                                                          *)
(***************************************************************************)
EXTENDS CommandPath, FiniteSetTheorems, SequenceTheorems, TLAPS

--------------------------------------------------------------------------------
(* The lane.                                                               *)

Answers == {"none", "generation_changed", "cancelled", "timeout", "resolved", "failed"}

TicketRecords == [phase      : {"new", "queued", "begun", "running", "done"},
                  generation : Nat,
                  cancelled  : BOOLEAN,
                  answer     : Answers]

LaneTypeOK ==
    /\ generation \in Nat
    /\ queue \in Seq(Tickets)
    /\ ticket \in [Tickets -> TicketRecords]
    /\ crossed \subseteq Tickets

\* The running ticket holds the gate of the head; a waiting ticket that crossed a
\* change of generation, or whose caller was answered, is cancelled.
LaneInv ==
    /\ LaneTypeOK
    /\ \A t \in Tickets :
          /\ Running(t) => queue # << >> /\ t = Head(queue)
          /\ Waiting(t) /\ (t \in crossed \/ Answered(t)) => ticket[t].cancelled
          /\ ticket[t].phase = "new" => ticket[t] = NewTicket /\ t \notin crossed

\* What happens to a lane in one step.
LaneStep ==
    \/ \E t \in Tickets :
          \/ \E g \in Nat : Enqueue(t, g)
          \/ Skip(t) \/ Begin(t) \/ CallRun(t) \/ Timeout(t)
          \/ \E answer \in {"resolved", "failed"} : RunSettles(t, answer)
    \/ \E g \in Nat : SetGeneration(g)
    \/ Cancel

--------------------------------------------------------------------------------
(* Types of the rest.                                                      *)

Results   == {"none", "ok", "failed"}
Whats     == Texts \cup ActionIds \cup {None}
MaybeRun  == Tickets \cup {None}
MaybeEnv  == Envelopes \cup {None}

EnvRecords  == [kind : Kinds \cup {"none"}, what : Whats, intent : MaybeEnv]
BodyRecords == [env : MaybeEnv, authorised : BOOLEAN, tries : Nat, acted : BOOLEAN,
                result : {"none", "ok", "failed", "revalidation"}]
PageRecords == [button : BOOLEAN, ran : [Envelopes -> Nat], did : [Envelopes -> Nat],
                clicked : [ActionIds -> Nat]]
CallRecords == [env : MaybeEnv, run : MaybeRun, state : {"new", "running", "settled"},
                result : Results]
AskRecords  == [what : Whats, intent : MaybeEnv, told : Results \cup {"unknown"}]
ActionStates == {"unminted", "live", "reserved", "consumed", "removed"}

ServerTypeOK ==
    /\ registry \in [ActionIds -> [state : ActionStates, generation : Nat]]
    /\ env \in [Envelopes -> EnvRecords]
    /\ cache \in [Envelopes -> MaybeRun]
    /\ body \in [Tickets -> BodyRecords]
    /\ page \in PageRecords
    /\ bridgeGen \in Nat \ {0}
    /\ auth \in BOOLEAN
    /\ call \in [Tickets -> CallRecords]
    /\ rec \in [Envelopes -> MaybeRun]
    /\ listening \subseteq Envelopes
    /\ link \in BOOLEAN
    /\ toServer \subseteq Envelopes
    /\ inbox \in [Envelopes -> Results]
    /\ lapsed \subseteq Envelopes \X {"relay", "executor"}

ClientTypeOK ==
    /\ input \in Texts \cup {None}
    /\ slot \in [Kinds -> MaybeEnv]
    /\ pending \subseteq Envelopes
    /\ late \in [Envelopes -> Results]
    /\ asked \in [Kinds -> AskRecords]

--------------------------------------------------------------------------------
(* What the executor and the relay remember of an envelope.                *)

Lapsed(e, where) == <<e, where>> \in lapsed

RunOf(e, t) == body[t].env = e

\* A fresh ticket has no call, no callback and no envelope; what is remembered of an
\* envelope is about that envelope, and is there unless it lapsed.
MemoryInv ==
    /\ \A t \in Tickets :
          /\ call[t].state = "new" => call[t] = NewCall /\ body[t] = NewBody /\ ticket[t] = NewTicket
          /\ call[t].state # "new" => call[t].env \in Minted
          /\ ticket[t].phase # "new" => body[t].env \in Minted
          /\ body[t].env # None => call[t].env = body[t].env /\ call[t].run = t
          /\ call[t].run # None => body[call[t].run].env = call[t].env
          /\ call[t].state = "running" => call[t].run # None
    /\ \A e \in Envelopes :
          /\ cache[e] # None => RunOf(e, cache[e])
          /\ rec[e] # None => call[rec[e]].env = e /\ call[rec[e]].state # "new"
          /\ e \in toServer \cup listening => e \in Minted
    /\ \A e \in Envelopes, t \in Tickets : RunOf(e, t) =>
          /\ cache[e] # None \/ Lapsed(e, "executor")
          /\ rec[e] # None \/ Lapsed(e, "relay")
    /\ \A e \in Envelopes, t, u \in Tickets : RunOf(e, t) /\ RunOf(e, u) /\ t # u =>
          Lapsed(e, "executor") /\ Lapsed(e, "relay")

\* What a callback has done is counted for its envelope.
EffectInv ==
    /\ \A t \in Tickets :
          /\ ticket[t].phase \in {"new", "queued", "begun"} =>
                ~body[t].authorised /\ ~body[t].acted /\ body[t].result = "none"
          /\ body[t].acted => body[t].authorised /\ page.did[body[t].env] > 0
          /\ body[t].result = "ok" => body[t].acted
          /\ body[t].result = "revalidation" => ~body[t].acted
          /\ body[t].result # "none" => body[t].authorised /\ ticket[t].phase = "done"
          /\ body[t].authorised => page.ran[body[t].env] > 0
    /\ \A e \in Envelopes :
          /\ page.ran[e] > 0 => \E t \in Tickets : RunOf(e, t) /\ body[t].authorised
          /\ page.ran[e] > 1 => Lapsed(e, "executor") /\ Lapsed(e, "relay")

\* An "ok" on its way, or kept, is of something done.
ResultInv ==
    /\ \A k \in Tickets : call[k].result = "ok" => page.did[call[k].env] > 0
    /\ \A e \in Envelopes : "ok" \in {inbox[e], late[e]} => page.did[e] > 0

\* What the client keeps of what it asked for.
ClientInv ==
    /\ \A e \in Minted : env[e].kind \in Kinds /\ env[e].intent = e
                         /\ (env[e].kind = "click" => env[e].what \in ActionIds)
    /\ pending \subseteq Minted
    /\ \A e \in Envelopes : inbox[e] # "none" \/ late[e] # "none" => e \in Minted
    /\ \A e \in pending : slot[env[e].kind] = e /\ asked[env[e].kind].told = "none"
    /\ \A kind \in Kinds :
          /\ slot[kind] # None =>
                /\ slot[kind] \in Minted /\ env[slot[kind]].kind = kind
                /\ asked[kind].what = env[slot[kind]].what /\ asked[kind].intent = slot[kind]
                /\ \/ asked[kind].told = "unknown"
                   \/ asked[kind].told = "none" /\ slot[kind] \in pending
          /\ asked[kind].told = "unknown" => slot[kind] # None
          /\ asked[kind].told = "ok" =>
                /\ asked[kind].intent \in Minted
                /\ env[asked[kind].intent].what = asked[kind].what
                /\ page.did[asked[kind].intent] > 0

--------------------------------------------------------------------------------
(* The ids of buttons.                                                     *)

\* Ticket `t` is the run of a click on `a`,
Clicks(t, a) == body[t].env # None /\ env[body[t].env].kind = "click" /\ env[body[t].env].what = a

\* that may still be made,
Threat(t, a) ==
    /\ Clicks(t, a) /\ ~body[t].acted /\ body[t].result = "none"
    /\ \/ ticket[t].phase \in {"queued", "begun"}
       \/ ticket[t].phase = "running" /\ body[t].authorised

\* or has been,
Clicked(t, a) == Clicks(t, a) /\ body[t].acted

\* and a call that has it in hand.
Handles(k, a) ==
    call[k].state = "running" /\ env[call[k].env].kind = "click" /\ env[call[k].env].what = a

Over(a) == registry[a].state \in {"consumed", "removed"}

InTheLane(t) == ticket[t].phase \in {"queued", "begun", "running"}

\* Until an id is reserved nobody has a click of it in hand; while it is, one call has,
\* and the run that may click is that call's own; afterwards no other run begins to.  A
\* ticket that lost its caller to a change of generation lost its id with it.
IdInv(a) ==
    /\ registry[a].state # "unminted" => registry[a].generation # 0
    /\ registry[a].state \in {"unminted", "live"} =>
          \A t \in Tickets : ~Threat(t, a) /\ ~Clicked(t, a) /\ ~Handles(t, a)
    /\ registry[a].state = "reserved" => \A t, u \in Tickets :
          /\ Handles(t, a) /\ Handles(u, a) => t = u
          /\ Threat(t, a) \/ Clicked(t, a) => Handles(t, a)
    /\ \A t, u \in Tickets : Threat(t, a) /\ (Threat(u, a) \/ Clicked(u, a)) => t = u
    /\ page.clicked[a] <= 1
    /\ page.clicked[a] = 1 => \E t \in Tickets : Clicked(t, a)
    /\ \A t \in Tickets : Clicks(t, a) =>
          /\ registry[a].state # "unminted"
          /\ InTheLane(t) => /\ registry[a].generation = ticket[t].generation
                             /\ ticket[t].generation <= generation
          /\ ticket[t].answer \in {"generation_changed", "cancelled"} /\ (Threat(t, a) \/ Clicked(t, a))
             => Over(a)

\* What an answer tells of the callback.
AnswerInv ==
    \A t \in Tickets :
        /\ ticket[t].answer = "timeout" => ticket[t].phase \in {"running", "done"}
        /\ ticket[t].answer \in {"resolved", "failed"} => ticket[t].phase = "done"
        /\ ticket[t].answer = "resolved" => body[t].result # "none"
        /\ ticket[t].answer = "failed" => ~body[t].authorised

\* The user presses what he was shown.
ShownInv == \A e \in Minted : env[e].kind = "click" => registry[env[e].what].state # "unminted"

ActionInv == AnswerInv /\ ShownInv /\ \A a \in ActionIds : IdInv(a)

--------------------------------------------------------------------------------
(* The lane keeps its invariant.                                           *)

\* An answer is given once, and changes nothing else.
LEMMA GiveFacts ==
  ASSUME NEW r \in TicketRecords, NEW answer \in Answers
  PROVE  /\ Give(r, answer) \in TicketRecords
         /\ Give(r, answer).answer = IF r.answer = "none" THEN answer ELSE r.answer
         /\ Give(r, answer).phase = r.phase /\ Give(r, answer).generation = r.generation
         /\ Give(r, answer).cancelled = r.cancelled
  BY DEF Give, TicketRecords

LEMMA NewTicketTyped == NewTicket \in TicketRecords
  BY DEF NewTicket, TicketRecords, Answers

\* What a callback that settles leaves of its ticket, and a skipped ticket likewise.
LEMMA DoneTicket ==
  ASSUME NEW r \in TicketRecords, NEW answer \in Answers
  PROVE  LET d == Give([r EXCEPT !.phase = "done"], answer) IN
         /\ d \in TicketRecords /\ d.phase = "done" /\ d.generation = r.generation
         /\ d.answer = IF r.answer = "none" THEN answer ELSE r.answer
         /\ d.cancelled = r.cancelled
<1> DEFINE done == [r EXCEPT !.phase = "done"]
<1>1. /\ done \in TicketRecords /\ done.phase = "done" /\ done.answer = r.answer
      /\ done.generation = r.generation /\ done.cancelled = r.cancelled
  BY DEF TicketRecords
<1> HIDE DEF done
<1>2. LET d == Give(done, answer) IN
      /\ d \in TicketRecords /\ d.phase = "done" /\ d.generation = r.generation
      /\ d.answer = IF r.answer = "none" THEN answer ELSE r.answer
      /\ d.cancelled = r.cancelled
  BY <1>1, GiveFacts
<1> QED BY <1>2 DEF done

\* A change of generation cancels what waits and answers everyone in the lane.
LEMMA InvalidateTicket ==
  ASSUME LaneTypeOK, NEW code \in Answers \ {"none"}, Invalidate(code)
  PROVE  /\ ticket' \in [Tickets -> TicketRecords]
         /\ \A t \in Tickets :
               /\ ticket'[t].phase = ticket[t].phase
               /\ ticket'[t].generation = ticket[t].generation
               /\ IF Waiting(t) \/ Running(t)
                  THEN /\ ticket'[t].answer = IF Answered(t) THEN ticket[t].answer ELSE code
                       /\ Waiting(t) => ticket'[t].cancelled = TRUE
                  ELSE ticket'[t] = ticket[t]
<1> SUFFICES ASSUME NEW t \in Tickets
             PROVE  /\ ticket'[t] \in TicketRecords
                    /\ ticket'[t].phase = ticket[t].phase
                    /\ ticket'[t].generation = ticket[t].generation
                    /\ IF Waiting(t) \/ Running(t)
                       THEN /\ ticket'[t].answer = IF Answered(t) THEN ticket[t].answer ELSE code
                            /\ Waiting(t) => ticket'[t].cancelled = TRUE
                       ELSE ticket'[t] = ticket[t]
  <2>1. ticket' = [t \in Tickets |-> ticket'[t]]
    BY DEF Invalidate
  <2> QED BY <2>1
<1> DEFINE r == [ticket[t] EXCEPT !.cancelled = TRUE]
<1>1. ticket[t] \in TicketRecords /\ code \in Answers
  BY DEF LaneTypeOK
<1>2. /\ r \in TicketRecords /\ r.phase = ticket[t].phase /\ r.answer = ticket[t].answer
      /\ r.generation = ticket[t].generation /\ r.cancelled = TRUE
  BY <1>1 DEF TicketRecords
<1>3. ticket'[t] = IF Waiting(t) THEN Give(r, code)
                   ELSE IF Running(t) THEN Give(ticket[t], code) ELSE ticket[t]
  BY DEF Invalidate
<1> HIDE DEF r
<1>4. CASE Waiting(t)
  BY <1>1, <1>2, <1>3, <1>4, GiveFacts DEF Answered
<1>5. CASE ~Waiting(t) /\ Running(t)
  BY <1>1, <1>3, <1>5, GiveFacts DEF Answered
<1>6. CASE ~Waiting(t) /\ ~Running(t)
  BY <1>1, <1>3, <1>6
<1> QED BY <1>4, <1>5, <1>6

\* The head of the queue leaves, and no one runs any more.
LEMMA HeadLeaves ==
  ASSUME LaneInv, NEW t \in Tickets, NEW answer \in Answers \ {"none"},
         ticket' = [ticket EXCEPT ![t] = Give([@ EXCEPT !.phase = "done"], answer)],
         \/ ticket[t].phase = "running" /\ OpenGate(t)
         \/ queue # << >> /\ t = Head(queue) /\ Waiting(t) /\ queue' = Tail(queue),
         UNCHANGED <<generation, crossed>>
  PROVE  LaneInv'
<1>1. ticket \in [Tickets -> TicketRecords] /\ queue \in Seq(Tickets)
  BY DEF LaneInv, LaneTypeOK
<1> DEFINE d == Give([ticket[t] EXCEPT !.phase = "done"], answer)
<1>2. d \in TicketRecords /\ d.phase = "done"
  BY <1>1, DoneTicket
<1>3. ticket' = [ticket EXCEPT ![t] = d]
  OBVIOUS
<1> HIDE DEF d
<1>4. \A u \in Tickets : ticket'[u] = IF u = t THEN d ELSE ticket[u]
  BY <1>1, <1>3
<1>5. queue' \in Seq(Tickets)
  BY <1>1 DEF OpenGate
<1>6. \A u \in Tickets : ~Running(u)'
  BY <1>2, <1>4 DEF LaneInv, Running, Waiting
<1>7. LaneTypeOK'
  BY <1>1, <1>2, <1>3, <1>5 DEF LaneInv, LaneTypeOK
<1> QED BY <1>2, <1>4, <1>6, <1>7 DEF LaneInv, Waiting, Answered

\* One ticket goes on while its place in the queue stays.
LEMMA TicketGoesOn ==
  ASSUME LaneInv, NEW t \in Tickets, NEW r \in TicketRecords,
         ticket' = [ticket EXCEPT ![t] = r],
         r.phase \in {"begun", "running"}, queue # << >>, t = Head(queue),
         UNCHANGED <<generation, queue, crossed>>
  PROVE  LaneInv'
<1>1. ticket \in [Tickets -> TicketRecords] /\ queue \in Seq(Tickets)
  BY DEF LaneInv, LaneTypeOK
<1>2. \A u \in Tickets : ticket'[u] = IF u = t THEN r ELSE ticket[u]
  BY <1>1
<1>3. LaneTypeOK'
  BY <1>1 DEF LaneInv, LaneTypeOK
<1> QED BY <1>2, <1>3 DEF LaneInv, Waiting, Running, Answered

LEMMA EnqueueInv ==
  ASSUME LaneInv, NEW t \in Tickets, NEW g \in Nat, Enqueue(t, g)
  PROVE  LaneInv'
<1>1. /\ ticket \in [Tickets -> TicketRecords] /\ queue \in Seq(Tickets)
      /\ ticket[t] = NewTicket /\ t \notin crossed
  BY DEF LaneInv, LaneTypeOK, Enqueue
<1>2. CASE g = generation
  <2> DEFINE r == [NewTicket EXCEPT !.phase = "queued", !.generation = g]
  <2>1. r \in TicketRecords /\ r.phase = "queued" /\ r.answer = "none"
    BY DEF NewTicket, TicketRecords, Answers
  <2>2. ticket' = [ticket EXCEPT ![t] = r]
    BY <1>1, <1>2 DEF Enqueue
  <2> HIDE DEF r
  <2>3. \A u \in Tickets : ticket'[u] = IF u = t THEN r ELSE ticket[u]
    BY <1>1, <2>2
  <2>4. queue' \in Seq(Tickets) /\ (queue # << >> => queue' # << >> /\ Head(queue') = Head(queue))
    BY <1>1, <1>2 DEF Enqueue
  <2>5. LaneTypeOK'
    BY <1>1, <1>2, <2>1, <2>2, <2>4 DEF LaneInv, LaneTypeOK, Enqueue
  <2> QED BY <1>1, <1>2, <2>1, <2>3, <2>4, <2>5 DEF LaneInv, Waiting, Running, Answered, Enqueue
<1>3. CASE g # generation
  <2> DEFINE r == [NewTicket EXCEPT !.phase = "done", !.answer = "generation_changed"]
  <2>1. r \in TicketRecords /\ r.phase = "done"
    BY DEF NewTicket, TicketRecords, Answers
  <2>2. ticket' = [ticket EXCEPT ![t] = r]
    BY <1>1, <1>3 DEF Enqueue
  <2> HIDE DEF r
  <2>3. \A u \in Tickets : ticket'[u] = IF u = t THEN r ELSE ticket[u]
    BY <1>1, <2>2
  <2>4. LaneTypeOK'
    BY <1>1, <1>3, <2>1, <2>2 DEF LaneInv, LaneTypeOK, Enqueue
  <2> QED BY <1>3, <2>1, <2>3, <2>4 DEF LaneInv, Waiting, Running, Answered, Enqueue
<1> QED BY <1>2, <1>3

LEMMA InvalidateInv ==
  ASSUME LaneInv, NEW code \in Answers \ {"none"}, Invalidate(code),
         generation' \in Nat, crossed' = crossed \cup InLane, queue' = queue
  PROVE  LaneInv'
<1>1. LaneTypeOK /\ LaneTypeOK'
  BY InvalidateTicket DEF LaneInv, LaneTypeOK, InLane
<1>2. ASSUME NEW t \in Tickets
      PROVE  /\ Running(t)' => queue' # << >> /\ t = Head(queue')
             /\ Waiting(t)' /\ (t \in crossed' \/ Answered(t)') => ticket'[t].cancelled
             /\ ticket'[t].phase = "new" => ticket'[t] = NewTicket /\ t \notin crossed'
  <2>1. /\ ticket'[t].phase = ticket[t].phase
        /\ Waiting(t) => ticket'[t].cancelled = TRUE
        /\ ticket[t].phase = "new" => ticket'[t] = ticket[t] /\ t \notin InLane
    BY <1>1, InvalidateTicket DEF Waiting, Running, InLane
  <2> QED BY <2>1 DEF LaneInv, Waiting, Running
<1> QED BY <1>1, <1>2 DEF LaneInv

\* No step of the lane breaks its invariant.
LEMMA LaneStepInv == LaneInv /\ (LaneStep \/ UNCHANGED laneVars) => LaneInv'
<1> SUFFICES ASSUME LaneInv, LaneStep \/ UNCHANGED laneVars PROVE LaneInv'
  OBVIOUS
<1>1. ticket \in [Tickets -> TicketRecords]
  BY DEF LaneInv, LaneTypeOK
<1>2. ASSUME NEW t \in Tickets, Skip(t) \/ \E answer \in {"resolved", "failed"} : RunSettles(t, answer)
      PROVE  LaneInv'
  BY <1>2, HeadLeaves DEF Skip, RunSettles, Answers
<1>3. ASSUME NEW t \in Tickets, Begin(t) PROVE LaneInv'
  <2> DEFINE r == [ticket[t] EXCEPT !.phase = "begun"]
  <2>1. r \in TicketRecords /\ r.phase = "begun"
    BY <1>1 DEF TicketRecords
  <2>2. ticket' = [ticket EXCEPT ![t] = r]
    BY <1>3 DEF Begin
  <2> HIDE DEF r
  <2> QED BY <1>3, <2>1, <2>2, TicketGoesOn DEF Begin
<1>4. ASSUME NEW t \in Tickets, CallRun(t) PROVE LaneInv'
  <2> DEFINE r == [ticket[t] EXCEPT !.phase = "running"]
  <2>1. r \in TicketRecords /\ r.phase = "running"
    BY <1>1 DEF TicketRecords
  <2>2. ticket' = [ticket EXCEPT ![t] = r]
    BY <1>4 DEF CallRun
  <2>3. queue # << >> /\ t = Head(queue)
    BY <1>4 DEF CallRun, LaneInv, Running
  <2> HIDE DEF r
  <2> QED BY <1>4, <2>1, <2>2, <2>3, TicketGoesOn DEF CallRun
<1>5. ASSUME NEW t \in Tickets, Timeout(t) PROVE LaneInv'
  <2> DEFINE r == Give(ticket[t], "timeout")
  <2>1. r \in TicketRecords /\ r.phase = "running"
    BY <1>1, <1>5, GiveFacts DEF Timeout, Answers
  <2>2. ticket' = [ticket EXCEPT ![t] = r]
    BY <1>5 DEF Timeout
  <2>3. queue # << >> /\ t = Head(queue)
    BY <1>5 DEF Timeout, LaneInv, Running
  <2> HIDE DEF r
  <2> QED BY <1>5, <2>1, <2>2, <2>3, TicketGoesOn DEF Timeout
<1>6. ASSUME NEW g \in Nat, SetGeneration(g) PROVE LaneInv'
  BY <1>6, InvalidateInv DEF SetGeneration, Answers
<1>7. CASE Cancel
  <2>1. generation' \in Nat
    BY <1>7 DEF Cancel, LaneInv, LaneTypeOK
  <2> QED BY <1>7, <2>1, InvalidateInv DEF Cancel, Answers
<1>8. CASE UNCHANGED laneVars
  BY <1>8 DEF laneVars, LaneInv, LaneTypeOK, Waiting, Running, Answered
<1> QED BY <1>2, <1>3, <1>4, <1>5, <1>6, <1>7, <1>8, EnqueueInv DEF LaneStep

LEMMA LaneInitInv == LaneInit => LaneInv
<1> SUFFICES ASSUME LaneInit PROVE LaneInv
  OBVIOUS
<1>1. LaneTypeOK
  BY NewTicketTyped DEF LaneInit, LaneTypeOK
<1> QED BY <1>1 DEF LaneInit, LaneInv, NewTicket, Waiting, Running

--------------------------------------------------------------------------------
(* The steps, by who takes them.                                           *)

\* In the lane, in a callback, or in the registry: nobody is told.
TicketStep(t) ==
    \/ (Skip(t) \/ Begin(t) \/ Timeout(t)) /\ UNCHANGED RestOfCommands
    \/ CallbackStarts(t) \/ TakeoverThrows(t) \/ Act(t) \/ AttemptReturns(t) \/ AttemptThrows(t)

RegistryStep ==
    \/ Reconnected \/ ShutsDown \/ BridgeReconnects
    \/ \E a \in ActionIds : Forget(a) /\ UNCHANGED <<laneVars, env, cache, body, page, bridgeGen>>
    \/ Poll \/ ButtonChanges

\* In the relay.
RelayStep ==
    \/ \E e \in Envelopes : Receive(e) \/ RecordLapses(e) \/ CacheForgets(e)
    \/ \E k \in Tickets : Finish(k)
    \/ Reconnect

\* In the browser.
ClientStep ==
    \/ \E e \in Envelopes : GetAnswer(e) \/ GivesUp(e)
    \/ LosesSocket
    \/ \E text \in Texts : Types(text)
    \/ Asks

\* Every step is one of these.
LEMMA StepCases ==
  ASSUME [Next]_vars
  PROVE  \/ (\E t \in Tickets : TicketStep(t)) /\ UNCHANGED <<relayVars, clientVars>>
         \/ RegistryStep /\ UNCHANGED <<relayVars, clientVars>>
         \/ RelayStep /\ UNCHANGED clientVars
         \/ ClientStep
         \/ UNCHANGED <<commandVars, relayVars, clientVars>>
<1>1. CASE UNCHANGED vars
  BY <1>1 DEF vars
<1>2. CASE Arrives
  BY <1>2 DEF Arrives, RelayStep, ClientStep
<1>3. CASE ServerStep
  <2>1. ServerActs /\ UNCHANGED clientVars
    BY <1>3 DEF ServerStep
  <2>2. CASE \E k \in Tickets : Finish(k)
    BY <2>1, <2>2 DEF RelayStep
  <2>3. CASE LaneActs /\ UNCHANGED relayVars
    BY <2>1, <2>3 DEF LaneActs, TicketStep
  <2>4. CASE CallbackActs /\ UNCHANGED relayVars
    BY <2>1, <2>4 DEF CallbackActs, TicketStep
  <2>5. CASE Reconnected /\ UNCHANGED relayVars
    BY <2>1, <2>5 DEF RegistryStep
  <2> QED BY <2>1, <2>2, <2>3, <2>4, <2>5 DEF ServerActs
<1>4. CASE LosesSocket \/ \E e \in Envelopes : GivesUp(e)
  BY <1>4 DEF ClientStep
<1>5. CASE Moves
  <2>1. CASE \E text \in Texts : Types(text)
    BY <2>1 DEF ClientStep
  <2>2. CASE UNCHANGED clientVars /\ \E e \in Envelopes : RecordLapses(e) \/ CacheForgets(e)
    BY <2>2 DEF RelayStep
  <2>3. CASE UNCHANGED clientVars /\ ButtonChanges
    BY <2>3 DEF RegistryStep, ButtonChanges
  <2>4. CASE /\ UNCHANGED <<relayVars, clientVars>>
             /\ \E a \in ActionIds : Forget(a) /\ UNCHANGED <<laneVars, env, cache, body, page, bridgeGen>>
    BY <2>4 DEF RegistryStep
  <2>5. CASE /\ UNCHANGED <<relayVars, clientVars>>
             /\ \E t \in Tickets : Timeout(t) /\ UNCHANGED RestOfCommands
    BY <2>5 DEF TicketStep
  <2>6. CASE UNCHANGED <<relayVars, clientVars>> /\ (BridgeReconnects \/ ShutsDown)
    BY <2>6 DEF RegistryStep
  <2> QED BY <1>5, <2>1, <2>2, <2>3, <2>4, <2>5, <2>6 DEF Moves
<1>6. CASE Asks
  BY <1>6 DEF ClientStep
<1>7. CASE (Poll \/ Reconnect) /\ UNCHANGED clientVars
  BY <1>7 DEF RegistryStep, RelayStep, Poll
<1> QED BY <1>1, <1>2, <1>3, <1>4, <1>5, <1>6, <1>7 DEF Next

\* The rest of the program reaches the lane by its operations only.
LEMMA LaneIsUsed ==
  ASSUME bridgeGen \in Nat, [Next]_vars
  PROVE  LaneStep \/ UNCHANGED laneVars
<1>1. ASSUME NEW t \in Tickets, TicketStep(t) PROVE LaneStep \/ UNCHANGED laneVars
  BY <1>1 DEF TicketStep, CallbackStarts, TakeoverThrows, Act, AttemptReturns, AttemptThrows, Ends, LaneStep
<1>2. CASE RegistryStep
  BY <1>2 DEF RegistryStep, Reconnected, ShutsDown, BridgeReconnects, Poll, ButtonChanges, LaneStep
<1>3. CASE RelayStep
  <2>1. ASSUME NEW e \in Envelopes, Receive(e) PROVE LaneStep \/ UNCHANGED laneVars
    <3>1. ASSUME NEW k \in Tickets, Execute(e, k) PROVE LaneStep \/ UNCHANGED laneVars
      BY <3>1 DEF Execute, Dispatch, LaneStep
    <3>2. CASE Replay(e) \/ Limit(e) \/ \E k \in Tickets : Unauthorised(e, k)
      BY <3>2 DEF Replay, Limit, Unauthorised, commandVars
    <3> QED BY <2>1, <3>1, <3>2 DEF Receive
  <2> QED BY <1>3, <2>1 DEF RelayStep, RecordLapses, CacheForgets, Finish, Reconnect, commandVars
<1>4. CASE ClientStep
  BY <1>4 DEF ClientStep, GetAnswer, GivesUp, LosesSocket, Drop, Types, Asks, Submit, commandVars
<1>5. CASE UNCHANGED <<commandVars, relayVars, clientVars>>
  BY <1>5 DEF commandVars
<1> QED BY <1>1, <1>2, <1>3, <1>4, <1>5, StepCases

\* The lane's invariant, and the generation the bridge counts.
LaneFacts == LaneInv /\ bridgeGen \in Nat \ {0}

LEMMA LaneInduction ==
  /\ Init => LaneFacts
  /\ LaneFacts /\ [Next]_vars => LaneFacts'
<1>1. Init => LaneFacts
  BY LaneInitInv DEF Init, RelayInit, CommandsInit, LaneInit, LaneFacts
<1>2. ASSUME LaneInv, bridgeGen \in Nat \ {0}, [Next]_vars
      PROVE  LaneInv' /\ bridgeGen' \in Nat \ {0}
  <2>1. LaneInv'
    BY <1>2, LaneIsUsed, LaneStepInv
  <2>2. bridgeGen' = bridgeGen \/ bridgeGen' = bridgeGen + 1
    <3>1. ASSUME NEW t \in Tickets, TicketStep(t) PROVE bridgeGen' = bridgeGen
      BY <3>1 DEF TicketStep, RestOfCommands, CallbackStarts, TakeoverThrows, Act, AttemptReturns,
                  AttemptThrows, Ends
    <3>2. CASE RegistryStep
      BY <3>2 DEF RegistryStep, Reconnected, ShutsDown, BridgeReconnects, Poll, ButtonChanges
    <3>3. CASE RelayStep
      BY <3>3 DEF RelayStep, Receive, Replay, Limit, Unauthorised, Execute, RecordLapses, CacheForgets,
                  Finish, Reconnect, commandVars
    <3>4. CASE ClientStep
      BY <3>4 DEF ClientStep, GetAnswer, GivesUp, LosesSocket, Drop, Types, Asks, Submit, commandVars
    <3>5. CASE UNCHANGED <<commandVars, relayVars, clientVars>>
      BY <3>5 DEF commandVars
    <3> QED BY <1>2, <3>1, <3>2, <3>3, <3>4, <3>5, StepCases
  <2> QED BY <1>2, <2>1, <2>2
<1> QED BY <1>1, <1>2 DEF LaneFacts

\* No two callbacks of a target are ever under way together, whatever became of the
\* caller of the first (TargetUiCoordinator.enqueue).
THEOREM OneCallbackInTheLane == Spec => []OneCallbackAtATime
<1>1. LaneFacts => OneCallbackAtATime
  BY DEF LaneFacts, LaneInv, OneCallbackAtATime
<1> QED BY <1>1, LaneInduction, PTL DEF Spec

\* A run is begun neither after the generation of its target has changed since it was
\* queued, nor after its caller was answered (beginRun).
THEOREM NoLateRun == Spec => NeverRunsLate
<1>1. ASSUME LaneInv, bridgeGen \in Nat \ {0}, [Next]_vars, NEW t \in Tickets, Waiting(t), Running(t)'
      PROVE  t \notin crossed /\ ~Answered(t)
  <2>1. ticket \in [Tickets -> TicketRecords]
    BY <1>1 DEF LaneInv, LaneTypeOK
  <2>2. ~ticket[t].cancelled
    <3>1. ticket'[t].phase \in {"begun", "running"} /\ ticket[t].phase = "queued"
      BY <1>1 DEF Waiting, Running
    <3>2. CASE \E u \in Tickets : Begin(u)
      <4>1. PICK u \in Tickets : Begin(u)
        BY <3>2
      <4>2. t = u
        BY <2>1, <3>1, <4>1 DEF Begin
      <4> QED BY <4>1, <4>2 DEF Begin, Stopped
    <3>3. ASSUME NEW u \in Tickets, Skip(u) \/ CallRun(u) \/ Timeout(u) PROVE FALSE
      <4>1. CASE Skip(u)
        BY <2>1, <3>1, <4>1, DoneTicket DEF Skip, Answers
      <4>2. CASE CallRun(u)
        BY <2>1, <3>1, <4>2 DEF CallRun
      <4>3. CASE Timeout(u)
        BY <2>1, <3>1, <4>3, GiveFacts DEF Timeout, Answers
      <4> QED BY <3>3, <4>1, <4>2, <4>3
    <3>4. ASSUME NEW u \in Tickets, NEW answer \in {"resolved", "failed"}, RunSettles(u, answer) PROVE FALSE
      BY <2>1, <3>1, <3>4, DoneTicket DEF RunSettles, Answers
    <3>5. ASSUME NEW u \in Tickets, NEW g \in Nat, Enqueue(u, g) PROVE FALSE
      BY <2>1, <3>1, <3>5 DEF Enqueue
    <3>6. ASSUME NEW code \in Answers \ {"none"}, Invalidate(code) PROVE FALSE
      BY <1>1, <3>1, <3>6, InvalidateTicket DEF LaneInv
    <3>7. CASE UNCHANGED laneVars
      BY <3>1, <3>7 DEF laneVars
    <3> QED BY <1>1, LaneIsUsed, <3>2, <3>3, <3>4, <3>5, <3>6, <3>7 DEF LaneStep, SetGeneration, Cancel, Answers
  <2> QED BY <1>1, <2>2 DEF LaneInv
<1>2. LaneFacts /\ [Next]_vars
      => [\A t \in Tickets : Waiting(t) /\ Running(t)' => t \notin crossed /\ ~Answered(t)]_laneVars
  BY <1>1 DEF LaneFacts
<1> QED BY <1>2, LaneInduction, PTL DEF Spec, NeverRunsLate

--------------------------------------------------------------------------------
(***************************************************************************)
(* The lane is what UiLane promises (ImplementsLane).  The chain holds     *)
(* every waiting ticket once, behind the one that runs if any; those that  *)
(* may still run are its end, because an invalidation cancels all of them. *)
(***************************************************************************)

InChain == {queue[i] : i \in DOMAIN queue}

ChainInv ==
    /\ \A i, j \in DOMAIN queue : queue[i] = queue[j] => i = j
    /\ \A i \in DOMAIN queue : Waiting(queue[i]) \/ Running(queue[i])
    /\ \A t \in Tickets : Waiting(t) =>
          /\ t \in InChain
          /\ ticket[t].cancelled <=> Answered(t)
          /\ ticket[t].generation # generation => ticket[t].cancelled
    /\ \A t \in Tickets : ticket[t].phase = "done" => Answered(t)
    /\ \E k \in 0..Len(queue) : DuePlaces = (k+1)..Len(queue)

Turn == {t \in Tickets : Running(t)}
Line == SubSeq(queue, Len(queue) - Cardinality(DuePlaces) + 1, Len(queue))
Told == [t \in Tickets |-> ticket[t].answer]

\* What is at the end of a sequence, whatever is appended to it or leaves at its head.
LEMMA EndOfAppended ==
  ASSUME NEW q \in Seq(Tickets), NEW t \in Tickets, NEW k \in 0..Len(q)
  PROVE  SubSeq(Append(q, t), k+1, Len(q)+1) = Append(SubSeq(q, k+1, Len(q)), t)
<1> DEFINE a == Append(q, t)  s == SubSeq(a, k+1, Len(q)+1)  r == SubSeq(q, k+1, Len(q))  b == Append(r, t)
<1>1. a \in Seq(Tickets) /\ Len(a) = Len(q)+1 /\ a[Len(q)+1] = t /\ \A i \in 1..Len(q) : a[i] = q[i]
  OBVIOUS
<1> HIDE DEF a
<1>2. s \in Seq(Tickets) /\ Len(s) = Len(q)+1-k /\ \A i \in 1..Len(s) : s[i] = a[k+i]
  <2>1. /\ s \in Seq(Tickets) /\ Len(s) = Len(q)+1-k
        /\ \A i \in 1..(Len(q)+1-k) : s[i] = a[k+1+i-1]
    BY <1>1, SubSeqProperties
  <2>2. \A i \in 1..Len(s) : k+1+i-1 = k+i
    BY <2>1
  <2> QED BY <2>1, <2>2
<1>3. r \in Seq(Tickets) /\ Len(r) = Len(q)-k /\ \A i \in 1..Len(r) : r[i] = q[k+i]
  OBVIOUS
<1> HIDE DEF r
<1>4. b \in Seq(Tickets) /\ Len(b) = Len(r)+1 /\ b[Len(r)+1] = t /\ \A i \in 1..Len(r) : b[i] = r[i]
  BY <1>3
<1> HIDE DEF s, b
<1>5. Len(s) = Len(b)
  BY <1>2, <1>3, <1>4
<1>6. ASSUME NEW i \in 1..Len(s) PROVE s[i] = b[i]
  <2>1. CASE i \in 1..Len(r)
    <3>1. k+i \in 1..Len(q)
      BY <1>3, <2>1
    <3>2. s[i] = q[k+i]
      BY <1>1, <1>2, <3>1
    <3>3. b[i] = q[k+i]
      BY <1>3, <1>4, <2>1
    <3> QED BY <3>2, <3>3
  <2>2. CASE i = Len(r)+1
    <3>1. k+i = Len(q)+1
      BY <1>3, <2>2
    <3> QED BY <1>1, <1>2, <1>4, <2>2, <3>1
  <2> QED BY <1>2, <1>3, <2>1, <2>2
<1>7. s = b
  BY <1>2, <1>4, <1>5, <1>6, SeqEqual
<1> QED BY <1>7 DEF s, b, a, r

LEMMA EndOfTail ==
  ASSUME NEW q \in Seq(Tickets), q # << >>, NEW k \in 1..Len(q)
  PROVE  SubSeq(Tail(q), k, Len(q)-1) = SubSeq(q, k+1, Len(q))
<1> DEFINE a == Tail(q)  s == SubSeq(a, k, Len(q)-1)  r == SubSeq(q, k+1, Len(q))
<1>1. a \in Seq(Tickets) /\ Len(a) = Len(q)-1 /\ \A i \in 1..Len(a) : a[i] = q[i+1]
  OBVIOUS
<1> HIDE DEF a
<1>2. s \in Seq(Tickets) /\ Len(s) = Len(q)-k /\ \A i \in 1..Len(s) : s[i] = a[k+i-1]
  BY <1>1, SubSeqProperties
<1>3. r \in Seq(Tickets) /\ Len(r) = Len(q)-k /\ \A i \in 1..Len(r) : r[i] = q[k+i]
  OBVIOUS
<1> HIDE DEF s, r
<1>4. ASSUME NEW i \in 1..Len(s) PROVE s[i] = r[i]
  <2>1. i \in 1..Len(r) /\ k+i-1 \in 1..Len(a) /\ k+i-1+1 = k+i
    BY <1>1, <1>2, <1>3
  <2> QED BY <1>1, <1>2, <1>3, <2>1
<1>5. s = r
  BY <1>2, <1>3, <1>4, SeqEqual
<1> QED BY <1>5 DEF s, r, a

LEMMA EndIsAll ==
  ASSUME NEW q \in Seq(Tickets)
  PROVE  /\ SubSeq(q, 1, Len(q)) = q
         /\ q # << >> => SubSeq(q, 2, Len(q)) = Tail(q)
         /\ SubSeq(q, Len(q)+1, Len(q)) = << >>
  OBVIOUS

\* The line, wherever it begins in the chain.
LineFrom(k) == k \in 0..Len(queue) /\ DuePlaces = (k+1)..Len(queue)

LEMMA LineIs ==
  queue \in Seq(Tickets) => \A k \in Nat : LineFrom(k) => Line = SubSeq(queue, k+1, Len(queue))
<1> SUFFICES ASSUME queue \in Seq(Tickets), NEW k \in Nat, LineFrom(k)
             PROVE  Line = SubSeq(queue, k+1, Len(queue))
  OBVIOUS
<1>1. Len(queue) \in Nat /\ k \in 0..Len(queue)
  BY DEF LineFrom
<1> DEFINE n == Len(queue)
<1> HIDE DEF n
<1>2. Cardinality(DuePlaces) = n - k
  <2>1. n \in Nat /\ k \in 0..n /\ k+1 \in Int /\ DuePlaces = (k+1)..n
    BY <1>1 DEF n, LineFrom
  <2>2. Cardinality((k+1)..n) = IF k+1 > n THEN 0 ELSE n - (k+1) + 1
    BY <2>1, FS_Interval
  <2> QED BY <2>1, <2>2
<1>3. Len(queue) - Cardinality(DuePlaces) + 1 = k + 1
  BY <1>1, <1>2 DEF n
<1> QED BY <1>3 DEF Line

LEMMA LineIsNext ==
  (queue \in Seq(Tickets) => \A k \in Nat : LineFrom(k) => Line = SubSeq(queue, k+1, Len(queue)))'
BY LineIs, PTL

\* Those in it are those who may still run.
LEMMA LineHolds ==
  ASSUME LaneInv, ChainInv
  PROVE  {Line[i] : i \in DOMAIN Line} = {t \in Tickets : Due(t)}
<1>1. queue \in Seq(Tickets)
  BY DEF LaneInv, LaneTypeOK
<1>2. PICK k \in 0..Len(queue) : DuePlaces = (k+1)..Len(queue)
  BY DEF ChainInv
<1>3. Line = SubSeq(queue, k+1, Len(queue))
  BY <1>1, <1>2, LineIs DEF LineFrom
<1> DEFINE s == SubSeq(queue, k+1, Len(queue))
<1>4. Len(queue) \in Nat /\ DOMAIN queue = 1..Len(queue)
  BY <1>1
<1>5. DOMAIN s = 1..(Len(queue)-k) /\ \A i \in 1..(Len(queue)-k) : s[i] = queue[k+i]
  BY <1>1, <1>2
<1> HIDE DEF s
<1>6. ASSUME NEW i \in DOMAIN s PROVE s[i] \in Tickets /\ Due(s[i])
  <2>1. k+i \in DuePlaces /\ s[i] = queue[k+i]
    BY <1>2, <1>4, <1>5
  <2> QED BY <1>1, <2>1 DEF DuePlaces
<1>7. ASSUME NEW t \in Tickets, Due(t) PROVE \E i \in DOMAIN s : s[i] = t
  <2>1. PICK j \in DOMAIN queue : queue[j] = t
    BY <1>7 DEF ChainInv, InChain, Due
  <2>2. j \in (k+1)..Len(queue)
    BY <1>2, <1>7, <2>1 DEF DuePlaces
  <2>3. j - k \in DOMAIN s /\ s[j - k] = t
    BY <1>2, <1>4, <1>5, <2>1, <2>2
  <2> QED BY <2>3
<1> QED BY <1>3, <1>6, <1>7 DEF s

\* What the steps below start from.
LEMMA ChainFacts ==
  ASSUME LaneInv, ChainInv
  PROVE  /\ queue \in Seq(Tickets) /\ Len(queue) \in Nat /\ DOMAIN queue = 1..Len(queue)
         /\ ticket \in [Tickets -> TicketRecords]
         /\ \A i \in DOMAIN queue : queue[i] \in Tickets
         /\ \E k \in Nat : LineFrom(k) /\ Line = SubSeq(queue, k+1, Len(queue))
<1>1. queue \in Seq(Tickets)
  BY DEF LaneInv, LaneTypeOK
<1>2. PICK k \in 0..Len(queue) : DuePlaces = (k+1)..Len(queue)
  BY DEF ChainInv
<1>3. k \in Nat /\ LineFrom(k)
  BY <1>1, <1>2 DEF LineFrom
<1> QED BY <1>1, <1>3, LineIs DEF LaneInv, LaneTypeOK

\* The head leaves the chain, and was not in line.
LEMMA ChainMovesUp ==
  ASSUME LaneInv, ChainInv, NEW t \in Tickets, NEW d \in TicketRecords,
         queue # << >>, t = Head(queue), ~Due(t), d.phase = "done", d.answer # "none",
         ticket' = [ticket EXCEPT ![t] = d], queue' = Tail(queue), generation' = generation
  PROVE  ChainInv' /\ Line' = Line /\ Turn' = Turn \ {t}
<1> DEFINE n == Len(queue)
<1>1. /\ queue \in Seq(Tickets) /\ n \in Nat /\ n >= 1 /\ DOMAIN queue = 1..n /\ queue[1] = t
      /\ queue' \in Seq(Tickets) /\ Len(queue') = n-1 /\ DOMAIN queue' = 1..(n-1)
      /\ \A i \in 1..(n-1) : queue'[i] = queue[i+1] /\ queue[i+1] # t
  <2>1. queue \in Seq(Tickets) /\ queue # << >> /\ queue' = Tail(queue)
    BY ChainFacts
  <2>2. n \in Nat /\ n >= 1 /\ DOMAIN queue = 1..n /\ queue[1] = t
    BY <2>1
  <2>3. /\ queue' \in Seq(Tickets) /\ Len(queue') = n-1 /\ DOMAIN queue' = 1..(n-1)
        /\ \A i \in 1..(n-1) : queue'[i] = queue[i+1]
    BY <2>1
  <2>4. ASSUME NEW i \in 1..(n-1) PROVE queue[i+1] # t
    <3>1. i+1 \in DOMAIN queue /\ 1 \in DOMAIN queue /\ i+1 # 1
      BY <2>2
    <3> QED BY <2>2, <3>1 DEF ChainInv
  <2> QED BY <2>1, <2>2, <2>3, <2>4
<1>2. \A u \in Tickets : ticket'[u] = IF u = t THEN d ELSE ticket[u]
  BY ChainFacts
<1>3. PICK k \in Nat : LineFrom(k) /\ Line = SubSeq(queue, k+1, n)
  BY ChainFacts
<1> HIDE DEF n
<1>4. k \in 1..n /\ DuePlaces = (k+1)..n
  <2>1. 1 \notin DuePlaces
    BY <1>1 DEF DuePlaces
  <2>2. k \in 0..n /\ DuePlaces = (k+1)..n
    BY <1>3 DEF LineFrom, n
  <2> QED BY <1>1, <2>1, <2>2
<1>5. \A i \in 1..(n-1) : i \in DuePlaces' <=> i+1 \in DuePlaces
  BY <1>1, <1>2 DEF DuePlaces, Due, Waiting
<1>6. DuePlaces' = k..(n-1)
  <2>1. DuePlaces' \subseteq 1..(n-1)
    BY <1>1 DEF DuePlaces
  <2>2. \A i \in 1..(n-1) : i \in DuePlaces' <=> i+1 \in (k+1)..n
    BY <1>4, <1>5
  <2>3. \A i \in 1..(n-1) : i+1 \in (k+1)..n <=> i \in k..(n-1)
    BY <1>1, <1>4
  <2>4. k..(n-1) \subseteq 1..(n-1)
    BY <1>1, <1>4
  <2> QED BY <2>1, <2>2, <2>3, <2>4
<1>7. k-1 \in Nat /\ k-1 \in 0..Len(queue') /\ DuePlaces' = (k-1+1)..Len(queue')
  BY <1>1, <1>4, <1>6
<1>8. Line' = Line
  <2>1. LineFrom(k-1)'
    BY <1>7 DEF LineFrom
  <2>2. Line' = SubSeq(queue', k-1+1, Len(queue'))
    BY <1>1, <1>7, <2>1, LineIsNext
  <2>3. Line' = SubSeq(Tail(queue), k, n-1)
    BY <1>1, <1>4, <2>2
  <2>4. SubSeq(Tail(queue), k, n-1) = SubSeq(queue, k+1, n)
    BY <1>1, <1>4, EndOfTail DEF n
  <2> QED BY <1>3, <2>3, <2>4
<1>9. ChainInv'
  <2>1. \A i, j \in DOMAIN queue' : queue'[i] = queue'[j] => i = j
    BY <1>1 DEF ChainInv
  <2>2. \A i \in DOMAIN queue' : (Waiting(queue[i]) \/ Running(queue[i]))'
    <3> SUFFICES ASSUME NEW i \in DOMAIN queue' PROVE (Waiting(queue[i]) \/ Running(queue[i]))'
      OBVIOUS
    <3>1. i+1 \in DOMAIN queue /\ queue'[i] = queue[i+1] /\ queue[i+1] # t /\ queue[i+1] \in Tickets
      BY <1>1
    <3>2. ticket'[queue'[i]] = ticket[queue[i+1]]
      BY <1>2, <3>1
    <3>3. Waiting(queue[i+1]) \/ Running(queue[i+1])
      BY <3>1 DEF ChainInv
    <3> QED BY <3>2, <3>3 DEF Waiting, Running
  <2>3. ASSUME NEW u \in Tickets, Waiting(u)'
        PROVE  u \in InChain' /\ (ticket'[u].cancelled <=> Answered(u)')
               /\ (ticket'[u].generation # generation' => ticket'[u].cancelled)
    <3>1. u # t /\ ticket'[u] = ticket[u] /\ Waiting(u)
      BY <1>2, <2>3 DEF Waiting
    <3>2. PICK j \in DOMAIN queue : queue[j] = u
      BY <3>1 DEF ChainInv, InChain
    <3>3. j-1 \in DOMAIN queue' /\ queue'[j-1] = u
      BY <1>1, <3>1, <3>2
    <3> QED BY <3>1, <3>3 DEF ChainInv, InChain, Answered
  <2>4. \E m \in 0..Len(queue') : DuePlaces' = (m+1)..Len(queue')
    BY <1>7
  <2>5. \A u \in Tickets : ticket'[u].phase = "done" => Answered(u)'
    BY <1>2 DEF ChainInv, Answered
  <2> QED BY <2>1, <2>2, <2>3, <2>4, <2>5 DEF ChainInv
<1>10. Turn' = Turn \ {t}
  BY <1>2 DEF Turn, Running
<1> QED BY <1>8, <1>9, <1>10

\* The one whose turn it is goes on.
LEMMA ChainStays ==
  ASSUME LaneInv, ChainInv, NEW t \in Tickets, NEW r \in TicketRecords,
         Running(t), r.phase \in {"begun", "running"},
         ticket' = [ticket EXCEPT ![t] = r], queue' = queue, generation' = generation
  PROVE  ChainInv' /\ Line' = Line /\ Turn' = Turn
<1>1. \A u \in Tickets : ticket'[u] = IF u = t THEN r ELSE ticket[u]
  BY ChainFacts
<1>2. \A u \in Tickets : /\ Waiting(u)' <=> Waiting(u)
                         /\ Running(u)' <=> Running(u)
                         /\ Waiting(u) => ticket'[u] = ticket[u]
  BY <1>1 DEF Waiting, Running
<1>3. DuePlaces' = DuePlaces
  BY <1>2, ChainFacts DEF DuePlaces, Due
<1>4. ChainInv'
  <2>1. \A i \in DOMAIN queue' : (Waiting(queue[i]) \/ Running(queue[i]))'
    <3> SUFFICES ASSUME NEW i \in DOMAIN queue' PROVE (Waiting(queue[i]) \/ Running(queue[i]))'
      OBVIOUS
    <3>1. queue'[i] = queue[i] /\ queue[i] \in Tickets /\ i \in DOMAIN queue
      BY ChainFacts
    <3>2. Waiting(queue[i]) \/ Running(queue[i])
      BY <3>1 DEF ChainInv
    <3> QED BY <1>1, <3>1, <3>2 DEF Waiting, Running
  <2>2. \A u \in Tickets : Waiting(u)' => /\ u \in InChain'
                                          /\ ticket'[u].cancelled <=> Answered(u)'
                                          /\ ticket'[u].generation # generation' => ticket'[u].cancelled
    BY <1>2 DEF ChainInv, InChain, Answered
  <2>3. \A u \in Tickets : ticket'[u].phase = "done" => Answered(u)'
    BY <1>1 DEF ChainInv, Answered
  <2> QED BY <1>3, <2>1, <2>2, <2>3 DEF ChainInv
<1> QED BY <1>2, <1>3, <1>4 DEF Line, Turn

\* A call joins the chain at its end, and is the last in line.
LEMMA ChainGrows ==
  ASSUME LaneInv, ChainInv, NEW t \in Tickets, Enqueue(t, generation)
  PROVE  ChainInv' /\ Line' = Append(Line, t) /\ Turn' = Turn /\ Told' = Told
<1> DEFINE n == Len(queue)
           r == [NewTicket EXCEPT !.phase = "queued", !.generation = generation]
<1>1. /\ r \in TicketRecords /\ r.phase = "queued" /\ r.cancelled = FALSE /\ r.answer = "none"
      /\ r.generation = generation
  BY DEF NewTicket, TicketRecords, Answers, LaneInv, LaneTypeOK
<1>2. ticket[t] = NewTicket /\ ticket' = [ticket EXCEPT ![t] = r] /\ queue' = Append(queue, t)
      /\ generation' = generation
  <2>1. ticket[t] = NewTicket
    BY DEF Enqueue, LaneInv
  <2>2. ticket' = [ticket EXCEPT ![t].phase = "queued", ![t].generation = generation]
    BY DEF Enqueue
  <2>3. [ticket EXCEPT ![t].phase = "queued", ![t].generation = generation]
        = [ticket EXCEPT ![t] = [ticket[t] EXCEPT !.phase = "queued", !.generation = generation]]
    BY ChainFacts
  <2> QED BY <2>1, <2>2, <2>3 DEF Enqueue
<1> HIDE DEF r
<1>3. \A u \in Tickets : ticket'[u] = IF u = t THEN r ELSE ticket[u]
  BY <1>2, ChainFacts
<1>4. /\ queue \in Seq(Tickets) /\ n \in Nat /\ DOMAIN queue = 1..n /\ Len(queue') = n+1 /\ DOMAIN queue' = 1..(n+1)
      /\ queue' \in Seq(Tickets)
      /\ queue'[n+1] = t /\ \A i \in 1..n : queue'[i] = queue[i]
  BY <1>2, ChainFacts
<1>5. \A i \in 1..n : queue[i] \in Tickets /\ queue[i] # t
  <2> SUFFICES ASSUME NEW i \in 1..n PROVE queue[i] # t
    BY <1>4, ChainFacts
  <2>1. i \in DOMAIN queue
    BY <1>4
  <2>2. Waiting(queue[i]) \/ Running(queue[i])
    BY <2>1 DEF ChainInv
  <2> QED BY <1>2, <2>2 DEF Waiting, Running, NewTicket
<1>6. PICK k \in Nat : LineFrom(k) /\ Line = SubSeq(queue, k+1, n)
  BY ChainFacts
<1> HIDE DEF n
<1>7. k \in 0..n /\ DuePlaces = (k+1)..n
  BY <1>6 DEF LineFrom, n
<1>8. DuePlaces' = (k+1)..(n+1)
  <2>1. \A i \in 1..n : i \in DuePlaces' <=> i \in DuePlaces
    BY <1>3, <1>4, <1>5 DEF DuePlaces, Due, Waiting
  <2>2. n+1 \in DuePlaces'
    BY <1>1, <1>3, <1>4 DEF DuePlaces, Due, Waiting
  <2>3. DuePlaces' \subseteq 1..(n+1)
    BY <1>4 DEF DuePlaces
  <2>4. ASSUME NEW i \in 1..(n+1) PROVE i \in DuePlaces' <=> i \in (k+1)..(n+1)
    BY <1>4, <1>7, <2>1, <2>2
  <2>5. (k+1)..(n+1) \subseteq 1..(n+1)
    BY <1>4, <1>7
  <2> QED BY <2>3, <2>4, <2>5
<1>9. k \in 0..Len(queue') /\ DuePlaces' = (k+1)..Len(queue')
  BY <1>4, <1>7, <1>8
<1>10. Line' = Append(Line, t)
  <2>1. LineFrom(k)'
    BY <1>9 DEF LineFrom
  <2>2. Line' = SubSeq(Append(queue, t), k+1, n+1)
    BY <1>2, <1>4, <2>1, LineIsNext
  <2>3. SubSeq(Append(queue, t), k+1, n+1) = Append(SubSeq(queue, k+1, n), t)
    BY <1>4, <1>7, EndOfAppended DEF n
  <2> QED BY <1>6, <2>2, <2>3
<1>11. ChainInv'
  <2>1. ASSUME NEW i \in DOMAIN queue', NEW j \in DOMAIN queue', queue'[i] = queue'[j] PROVE i = j
    <3>1. CASE i \in 1..n /\ j \in 1..n
      BY <1>4, <2>1, <3>1 DEF ChainInv
    <3>2. CASE i = n+1 \/ j = n+1
      BY <1>4, <1>5, <2>1, <3>2
    <3> QED BY <1>4, <3>1, <3>2
  <2>2. \A i \in DOMAIN queue' : (Waiting(queue[i]) \/ Running(queue[i]))'
    <3> SUFFICES ASSUME NEW i \in DOMAIN queue' PROVE (Waiting(queue[i]) \/ Running(queue[i]))'
      OBVIOUS
    <3>1. CASE i \in 1..n
      <4>1. ticket'[queue'[i]] = ticket[queue[i]] /\ i \in DOMAIN queue
        BY <1>3, <1>4, <1>5, <3>1
      <4>2. Waiting(queue[i]) \/ Running(queue[i])
        BY <4>1 DEF ChainInv
      <4> QED BY <4>1, <4>2 DEF Waiting, Running
    <3>2. CASE i = n+1
      BY <1>1, <1>3, <1>4, <3>2 DEF Waiting
    <3> QED BY <1>4, <3>1, <3>2
  <2>3. ASSUME NEW u \in Tickets, Waiting(u)'
        PROVE  u \in InChain' /\ (ticket'[u].cancelled <=> Answered(u)')
               /\ (ticket'[u].generation # generation' => ticket'[u].cancelled)
    <3>1. CASE u = t
      <4>1. n+1 \in DOMAIN queue' /\ queue'[n+1] = u
        BY <1>4, <3>1
      <4> QED BY <1>1, <1>2, <1>3, <3>1, <4>1 DEF InChain, Answered
    <3>2. CASE u # t
      <4>1. ticket'[u] = ticket[u] /\ Waiting(u)
        BY <1>3, <2>3, <3>2 DEF Waiting
      <4>2. PICK j \in DOMAIN queue : queue[j] = u
        BY <4>1 DEF ChainInv, InChain
      <4>3. j \in DOMAIN queue' /\ queue'[j] = u
        BY <1>4, <4>2
      <4> QED BY <1>2, <4>1, <4>3 DEF ChainInv, InChain, Answered
    <3> QED BY <3>1, <3>2
  <2>4. \E m \in 0..Len(queue') : DuePlaces' = (m+1)..Len(queue')
    BY <1>9
  <2>5. \A u \in Tickets : ticket'[u].phase = "done" => Answered(u)'
    BY <1>1, <1>3 DEF ChainInv, Answered
  <2> QED BY <2>1, <2>2, <2>3, <2>4, <2>5 DEF ChainInv
<1>12. Turn' = Turn
  BY <1>1, <1>2, <1>3 DEF Turn, Running, NewTicket
<1>13. Told' = Told
  BY <1>1, <1>2, <1>3 DEF Told, NewTicket
<1> QED BY <1>10, <1>11, <1>12, <1>13

\* The head begins, which was the first in line.
LEMMA ChainBegins ==
  ASSUME LaneInv, ChainInv, NEW t \in Tickets, Begin(t)
  PROVE  /\ ChainInv'
         /\ Line # << >> /\ Line' = Tail(Line) /\ Turn = {} /\ Turn' = {Head(Line)} /\ Told' = Told
<1> DEFINE n == Len(queue)
           r == [ticket[t] EXCEPT !.phase = "begun"]
<1>1. r \in TicketRecords /\ r.phase = "begun" /\ r.answer = ticket[t].answer
  BY ChainFacts DEF TicketRecords
<1>2. ticket' = [ticket EXCEPT ![t] = r] /\ queue' = queue /\ generation' = generation
      /\ queue # << >> /\ t = Head(queue) /\ Due(t)
  <2>1. ticket' = [ticket EXCEPT ![t] = r]
    BY DEF Begin
  <2> QED BY <2>1 DEF Begin, Due, Stopped
<1> HIDE DEF r
<1>3. \A u \in Tickets : ticket'[u] = IF u = t THEN r ELSE ticket[u]
  BY <1>2, ChainFacts
<1>4. queue \in Seq(Tickets) /\ n \in Nat /\ n >= 1 /\ DOMAIN queue = 1..n /\ queue[1] = t
  BY <1>2, ChainFacts
<1>5. \A i \in 2..n : queue[i] # t
  <2> SUFFICES ASSUME NEW i \in 2..n PROVE queue[i] # t
    OBVIOUS
  <2>1. i \in DOMAIN queue /\ 1 \in DOMAIN queue /\ i # 1
    BY <1>4
  <2> QED BY <1>4, <2>1 DEF ChainInv
<1>6. DuePlaces = 1..n /\ Line = queue
  <2>1. PICK k \in Nat : LineFrom(k) /\ Line = SubSeq(queue, k+1, n)
    BY ChainFacts
  <2>2. k \in 0..n /\ DuePlaces = (k+1)..n
    BY <2>1 DEF LineFrom
  <2>3. 1 \in DuePlaces
    BY <1>2, <1>4 DEF DuePlaces
  <2>4. k = 0
    BY <1>4, <2>2, <2>3
  <2>5. k+1 = 1
    BY <2>4
  <2>6. Line = SubSeq(queue, 1, n)
    BY <2>1, <2>5
  <2> QED BY <1>4, <2>2, <2>5, <2>6, EndIsAll
<1> HIDE DEF n
<1>7. DuePlaces' = 2..n
  <2>1. \A i \in 2..n : i \in DuePlaces' <=> i \in DuePlaces
    BY <1>2, <1>3, <1>4, <1>5, ChainFacts DEF DuePlaces, Due, Waiting
  <2>2. 1 \notin DuePlaces'
    BY <1>1, <1>2, <1>3, <1>4 DEF DuePlaces, Due, Waiting
  <2>3. DuePlaces' \subseteq 1..n
    BY <1>2, <1>4 DEF DuePlaces
  <2>4. ASSUME NEW i \in 1..n PROVE i \in DuePlaces' <=> i \in 2..n
    BY <1>4, <1>6, <2>1, <2>2
  <2>5. 2..n \subseteq 1..n
    BY <1>4
  <2> QED BY <2>3, <2>4, <2>5
<1>8. 1 \in 0..Len(queue') /\ DuePlaces' = (1+1)..Len(queue')
  BY <1>2, <1>4, <1>7 DEF n
<1>9. Line' = Tail(Line)
  <2>1. LineFrom(1)'
    BY <1>8 DEF LineFrom
  <2>2. Line' = SubSeq(queue', 1+1, Len(queue'))
    BY <1>2, <1>4, <2>1, LineIsNext
  <2>3. Line' = SubSeq(queue, 2, Len(queue))
    BY <1>2, <2>2
  <2> QED BY <1>2, <1>4, <1>6, <2>3, EndIsAll
<1>10. \A u \in Tickets : ~Running(u)
  BY <1>2 DEF LaneInv, Running, Due, Waiting
<1>11. Turn = {} /\ Turn' = {t}
  BY <1>1, <1>3, <1>10 DEF Turn, Running
<1>12. ChainInv'
  <2>1. \A i \in DOMAIN queue' : (Waiting(queue[i]) \/ Running(queue[i]))'
    <3> SUFFICES ASSUME NEW i \in DOMAIN queue' PROVE (Waiting(queue[i]) \/ Running(queue[i]))'
      OBVIOUS
    <3>1. queue'[i] = queue[i] /\ queue[i] \in Tickets /\ i \in DOMAIN queue
      BY <1>2, ChainFacts
    <3>2. Waiting(queue[i]) \/ Running(queue[i])
      BY <3>1 DEF ChainInv
    <3> QED BY <1>1, <1>3, <3>1, <3>2 DEF Waiting, Running
  <2>2. \A u \in Tickets : Waiting(u)' => /\ u \in InChain'
                                          /\ ticket'[u].cancelled <=> Answered(u)'
                                          /\ ticket'[u].generation # generation' => ticket'[u].cancelled
    <3> SUFFICES ASSUME NEW u \in Tickets, Waiting(u)'
                 PROVE  /\ u \in InChain'
                        /\ ticket'[u].cancelled <=> Answered(u)'
                        /\ ticket'[u].generation # generation' => ticket'[u].cancelled
      OBVIOUS
    <3>1. u # t /\ ticket'[u] = ticket[u] /\ Waiting(u)
      BY <1>1, <1>3 DEF Waiting
    <3> QED BY <1>2, <3>1 DEF ChainInv, InChain, Answered
  <2>3. \E m \in 0..Len(queue') : DuePlaces' = (m+1)..Len(queue')
    BY <1>8
  <2>4. \A u \in Tickets : ticket'[u].phase = "done" => Answered(u)'
    BY <1>1, <1>3 DEF ChainInv, Answered
  <2> QED BY <1>2, <2>1, <2>2, <2>3, <2>4 DEF ChainInv
<1>13. Told' = Told
  BY <1>1, <1>3 DEF Told
<1> QED BY <1>2, <1>6, <1>9, <1>11, <1>12, <1>13

\* An invalidation leaves nobody in line.
LEMMA ChainIsCancelled ==
  ASSUME LaneInv, ChainInv, NEW code \in Answers \ {"none"}, Invalidate(code), queue' = queue
  PROVE  /\ ChainInv'
         /\ Line' = << >> /\ Turn' = Turn
         /\ Told' = [t \in Tickets |-> IF t \in Turn \cup {u \in Tickets : Due(u)} /\ Told[t] = "none"
                                       THEN code ELSE Told[t]]
<1>1. \A u \in Tickets :
          /\ ticket'[u].phase = ticket[u].phase
          /\ Waiting(u) => ticket'[u].cancelled = TRUE /\ ticket'[u].answer # "none"
          /\ IF Waiting(u) \/ Running(u)
             THEN ticket'[u].answer = IF Answered(u) THEN ticket[u].answer ELSE code
             ELSE ticket'[u] = ticket[u]
  BY InvalidateTicket DEF LaneInv, Answered
<1>2. \A u \in Tickets : (Waiting(u)' <=> Waiting(u)) /\ (Running(u)' <=> Running(u))
  BY <1>1 DEF Waiting, Running
<1>3. queue \in Seq(Tickets) /\ queue' \in Seq(Tickets) /\ Len(queue) \in Nat
  BY ChainFacts
<1>4. DuePlaces' = {}
  BY <1>1, <1>2, ChainFacts DEF DuePlaces, Due
<1>5. Len(queue) \in 0..Len(queue') /\ DuePlaces' = (Len(queue)+1)..Len(queue')
  BY <1>3, <1>4
<1>6. Line' = << >>
  <2>1. LineFrom(Len(queue))'
    <3> DEFINE n == Len(queue)
    <3>1. n \in 0..Len(queue') /\ DuePlaces' = (n+1)..Len(queue') /\ n \in Nat
      BY <1>3, <1>5
    <3>2. Len(queue') = n
      OBVIOUS
    <3> QED BY <3>1, <3>2 DEF LineFrom
  <2>2. Line' = SubSeq(queue', Len(queue')+1, Len(queue'))
    BY <1>3, <2>1, LineIsNext
  <2> QED BY <1>3, <2>2, EndIsAll
<1>7. Turn' = Turn
  BY <1>2 DEF Turn
<1>8. Told' = [t \in Tickets |-> IF t \in Turn \cup {u \in Tickets : Due(u)} /\ Told[t] = "none"
                                THEN code ELSE Told[t]]
  <2>1. ASSUME NEW u \in Tickets
        PROVE  ticket'[u].answer = IF u \in Turn \cup {v \in Tickets : Due(v)} /\ Told[u] = "none"
                                   THEN code ELSE Told[u]
    <3>1. Told[u] = ticket[u].answer /\ (u \in Turn <=> Running(u))
      BY DEF Told, Turn
    <3>2. Waiting(u) => (Due(u) <=> ticket[u].answer = "none")
      BY DEF ChainInv, Due, Answered
    <3>3. Due(u) => Waiting(u)
      BY DEF Due
    <3> QED BY <1>1, <3>1, <3>2, <3>3 DEF Answered
  <2> QED BY <2>1 DEF Told
<1>9. ChainInv'
  <2>1. \A i \in DOMAIN queue' : (Waiting(queue[i]) \/ Running(queue[i]))'
    <3> SUFFICES ASSUME NEW i \in DOMAIN queue' PROVE (Waiting(queue[i]) \/ Running(queue[i]))'
      OBVIOUS
    <3>1. queue'[i] = queue[i] /\ queue[i] \in Tickets /\ i \in DOMAIN queue
      BY ChainFacts
    <3>2. Waiting(queue[i]) \/ Running(queue[i])
      BY <3>1 DEF ChainInv
    <3> QED BY <1>1, <3>1, <3>2 DEF Waiting, Running
  <2>2. \A u \in Tickets : Waiting(u)' => /\ u \in InChain'
                                          /\ ticket'[u].cancelled <=> Answered(u)'
                                          /\ ticket'[u].generation # generation' => ticket'[u].cancelled
    BY <1>1, <1>2 DEF ChainInv, InChain, Answered
  <2>3. \E m \in 0..Len(queue') : DuePlaces' = (m+1)..Len(queue')
    BY <1>5
  <2>4. \A u \in Tickets : ticket'[u].phase = "done" => Answered(u)'
    BY <1>1 DEF ChainInv, Answered, Waiting, Running
  <2> QED BY <2>1, <2>2, <2>3, <2>4 DEF ChainInv
<1> QED BY <1>6, <1>7, <1>8, <1>9

LEMMA LaneInstance ==
  /\ Lane!lane = <<Line, Turn, Told>>
  /\ Lane!lane' = <<Line', Turn', Told'>>
  /\ Lane!InLine = {Line[i] : i \in DOMAIN Line}
BY DEF Lane!lane, Lane!InLine, Line, Turn, Told

\* Every operation of the lane is a step of the promise, or none at all.
LEMMA LaneStepMaps ==
  ASSUME LaneInv, ChainInv, LaneStep \/ UNCHANGED laneVars
  PROVE  ChainInv' /\ [Lane!LaneNext]_(Lane!lane)
<1>1. ticket \in [Tickets -> TicketRecords]
  BY ChainFacts
<1>2. ASSUME NEW t \in Tickets, NEW g \in Nat, Enqueue(t, g)
      PROVE  ChainInv' /\ [Lane!LaneNext]_(Lane!lane)
  <2>1. ticket[t] = NewTicket /\ ~Due(t) /\ t \notin Turn /\ Told[t] = "none"
    BY <1>2 DEF Enqueue, LaneInv, NewTicket, Due, Waiting, Turn, Running, Told
  <2>2. t \notin {Line[i] : i \in DOMAIN Line}
    BY <2>1, LineHolds
  <2>3. Lane!Unknown(t)
    BY <2>1, <2>2, LaneInstance DEF Lane!Unknown, Turn, Told
  <2>4. CASE g = generation
    <3>1. ChainInv' /\ Line' = Append(Line, t) /\ Turn' = Turn /\ Told' = Told
      BY <1>2, <2>4, ChainGrows
    <3>2. Lane!Call(t)
      BY <2>3, <3>1 DEF Lane!Call, Line, Turn, Told
    <3> QED BY <3>1, <3>2 DEF Lane!LaneNext
  <2>5. CASE g # generation
    <3> DEFINE r == [NewTicket EXCEPT !.phase = "done", !.answer = "generation_changed"]
    <3>1. /\ r.phase = "done" /\ r.answer = "generation_changed"
          /\ ticket' = [ticket EXCEPT ![t] = r] /\ queue' = queue /\ generation' = generation
      <4>1. ticket' = [ticket EXCEPT ![t].phase = "done", ![t].answer = "generation_changed"]
        BY <1>2, <2>5 DEF Enqueue
      <4>2. [ticket EXCEPT ![t].phase = "done", ![t].answer = "generation_changed"]
            = [ticket EXCEPT ![t] = [ticket[t] EXCEPT !.phase = "done", !.answer = "generation_changed"]]
        BY <1>1
      <4> QED BY <1>2, <2>1, <2>5, <4>1, <4>2 DEF Enqueue, NewTicket
    <3> HIDE DEF r
    <3>2. \A u \in Tickets : ticket'[u] = IF u = t THEN r ELSE ticket[u]
      BY <1>1, <3>1
    <3>3. \A u \in Tickets : /\ Waiting(u)' <=> Waiting(u)
                             /\ Running(u)' <=> Running(u)
                             /\ Waiting(u) => ticket'[u] = ticket[u]
      BY <2>1, <3>1, <3>2 DEF Waiting, Running, NewTicket
    <3>4. /\ queue \in Seq(Tickets) /\ \A i \in DOMAIN queue : queue[i] \in Tickets
      BY ChainFacts
    <3>5. DuePlaces' = DuePlaces
      BY <3>1, <3>3, <3>4 DEF DuePlaces, Due
    <3>6. ChainInv'
      <4>1. ASSUME NEW i \in DOMAIN queue' PROVE (Waiting(queue[i]) \/ Running(queue[i]))'
        <5>1. queue'[i] = queue[i] /\ i \in DOMAIN queue /\ queue[i] \in Tickets
          BY <3>1, <3>4
        <5>2. Waiting(queue[i]) \/ Running(queue[i])
          BY <5>1 DEF ChainInv
        <5>3. queue[i] # t
          BY <2>1, <5>2 DEF Waiting, Running, NewTicket
        <5> QED BY <3>2, <5>1, <5>2, <5>3 DEF Waiting, Running
      <4>2. \A u \in Tickets : Waiting(u)' => /\ u \in InChain'
                                              /\ ticket'[u].cancelled <=> Answered(u)'
                                              /\ ticket'[u].generation # generation' => ticket'[u].cancelled
        BY <3>1, <3>3 DEF ChainInv, InChain, Answered
      <4>3. \A u \in Tickets : ticket'[u].phase = "done" => Answered(u)'
        BY <3>1, <3>2 DEF ChainInv, Answered
      <4> QED BY <3>1, <3>5, <4>1, <4>2, <4>3 DEF ChainInv
    <3>7. Line' = Line /\ Turn' = Turn
      BY <3>1, <3>3, <3>5 DEF Line, Turn
    <3>8. Told' = [u \in Tickets |-> IF u \in {t} /\ Told[u] = "none" THEN "generation_changed" ELSE Told[u]]
      BY <2>1, <3>1, <3>2 DEF Told, NewTicket
    <3>9. Lane!Tell({t}, "generation_changed")
      BY <3>8 DEF Lane!Tell, Told
    <3>10. Lane!Call(t)
      BY <2>3, <3>7, <3>9 DEF Lane!Call, Line, Turn
    <3> QED BY <3>6, <3>10 DEF Lane!LaneNext
  <2> QED BY <2>4, <2>5
<1>3. ASSUME NEW t \in Tickets, Skip(t) PROVE ChainInv' /\ [Lane!LaneNext]_(Lane!lane)
  <2> DEFINE d == Give([ticket[t] EXCEPT !.phase = "done"], "generation_changed")
  <2>1. Answered(t) /\ ~Due(t) /\ ~Running(t)
    BY <1>3 DEF Skip, Stopped, ChainInv, Due, Waiting, Running
  <2>2. d \in TicketRecords /\ d.phase = "done" /\ d.answer = ticket[t].answer /\ d.answer # "none"
    BY <1>1, <2>1, DoneTicket DEF Answers, Answered
  <2>3. /\ ticket' = [ticket EXCEPT ![t] = d] /\ queue' = Tail(queue) /\ generation' = generation
        /\ queue # << >> /\ t = Head(queue)
    BY <1>3 DEF Skip
  <2> HIDE DEF d
  <2>4. ChainInv' /\ Line' = Line /\ Turn' = Turn \ {t}
    BY <2>1, <2>2, <2>3, ChainMovesUp
  <2>5. Turn' = Turn
    BY <2>1, <2>4 DEF Turn
  <2>6. Told' = Told
    BY <1>1, <2>2, <2>3 DEF Told
  <2> QED BY <2>4, <2>5, <2>6, LaneInstance
<1>4. ASSUME NEW t \in Tickets, Begin(t) PROVE ChainInv' /\ [Lane!LaneNext]_(Lane!lane)
  <2>1. /\ ChainInv'
        /\ Line # << >> /\ Line' = Tail(Line) /\ Turn = {} /\ Turn' = {Head(Line)} /\ Told' = Told
    BY <1>4, ChainBegins
  <2>2. Lane!TakeTurn
    BY <2>1 DEF Lane!TakeTurn, Line, Turn, Told
  <2> QED BY <2>1, <2>2 DEF Lane!LaneNext
<1>5. ASSUME NEW t \in Tickets, CallRun(t) PROVE ChainInv' /\ [Lane!LaneNext]_(Lane!lane)
  <2> DEFINE r == [ticket[t] EXCEPT !.phase = "running"]
  <2>1. r \in TicketRecords /\ r.phase = "running" /\ r.answer = ticket[t].answer
    BY <1>1 DEF TicketRecords
  <2>2. ticket' = [ticket EXCEPT ![t] = r] /\ queue' = queue /\ generation' = generation /\ Running(t)
    BY <1>5 DEF CallRun, Running
  <2> HIDE DEF r
  <2>3. ChainInv' /\ Line' = Line /\ Turn' = Turn
    BY <2>1, <2>2, ChainStays
  <2>4. Told' = Told
    BY <1>1, <2>1, <2>2 DEF Told
  <2> QED BY <2>3, <2>4, LaneInstance
<1>6. ASSUME NEW t \in Tickets, Running(t)
      PROVE  Turn = {t}
  BY <1>6 DEF Turn, LaneInv
<1>7. ASSUME NEW t \in Tickets, Timeout(t) PROVE ChainInv' /\ [Lane!LaneNext]_(Lane!lane)
  <2> DEFINE r == Give(ticket[t], "timeout")
  <2>1. r \in TicketRecords /\ r.phase = "running" /\ r.answer = "timeout" /\ ticket[t].answer = "none"
    BY <1>1, <1>7, GiveFacts DEF Timeout, Answers, Answered
  <2>2. ticket' = [ticket EXCEPT ![t] = r] /\ queue' = queue /\ generation' = generation /\ Running(t)
    BY <1>7 DEF Timeout, Running
  <2> HIDE DEF r
  <2>3. ChainInv' /\ Line' = Line /\ Turn' = Turn
    BY <2>1, <2>2, ChainStays
  <2>4. Told' = [u \in Tickets |-> IF u \in Turn /\ Told[u] = "none" THEN "timeout" ELSE Told[u]]
    BY <1>1, <1>6, <2>1, <2>2 DEF Told
  <2>5. Lane!Tell(Turn, "timeout")
    BY <2>4 DEF Lane!Tell, Told
  <2>6. Lane!Overrun
    BY <2>3, <2>5 DEF Lane!Overrun, Line, Turn
  <2> QED BY <2>3, <2>6 DEF Lane!LaneNext
<1>8. ASSUME NEW t \in Tickets, NEW answer \in {"resolved", "failed"}, RunSettles(t, answer)
      PROVE  ChainInv' /\ [Lane!LaneNext]_(Lane!lane)
  <2> DEFINE d == Give([ticket[t] EXCEPT !.phase = "done"], answer)
  <2>1. Running(t) /\ ~Due(t) /\ queue # << >> /\ t = Head(queue)
    BY <1>8 DEF RunSettles, Running, Waiting, Due, LaneInv
  <2>2. /\ d \in TicketRecords /\ d.phase = "done"
        /\ d.answer = IF ticket[t].answer = "none" THEN answer ELSE ticket[t].answer
        /\ d.answer # "none"
    BY <1>1, DoneTicket DEF Answers
  <2>3. ticket' = [ticket EXCEPT ![t] = d] /\ queue' = Tail(queue) /\ generation' = generation
    BY <1>8, <2>1 DEF RunSettles, OpenGate
  <2> HIDE DEF d
  <2>4. ChainInv' /\ Line' = Line /\ Turn' = Turn \ {t}
    BY <2>1, <2>2, <2>3, ChainMovesUp
  <2>5. Turn = {t} /\ Turn' = {}
    BY <1>6, <2>1, <2>4
  <2>6. Told' = [u \in Tickets |-> IF u \in Turn /\ Told[u] = "none" THEN answer ELSE Told[u]]
    BY <1>1, <2>2, <2>3, <2>5 DEF Told
  <2>7. Lane!Tell(Turn, answer)
    BY <2>6 DEF Lane!Tell, Told
  <2>8. Lane!EndTurn
    BY <2>4, <2>5, <2>7 DEF Lane!EndTurn, Line, Turn
  <2> QED BY <2>4, <2>8 DEF Lane!LaneNext
<1>9. ASSUME NEW code \in {"generation_changed", "cancelled"}, Invalidate(code), queue' = queue
      PROVE  ChainInv' /\ [Lane!LaneNext]_(Lane!lane)
  <2>1. /\ ChainInv' /\ Line' = << >> /\ Turn' = Turn
        /\ Told' = [t \in Tickets |-> IF t \in Turn \cup {u \in Tickets : Due(u)} /\ Told[t] = "none"
                                      THEN code ELSE Told[t]]
    BY <1>9, ChainIsCancelled DEF Answers
  <2>2. Lane!InLine = {u \in Tickets : Due(u)}
    BY LineHolds, LaneInstance
  <2>3. Lane!Tell(Turn \cup Lane!InLine, code)
    BY <2>1, <2>2 DEF Lane!Tell, Told
  <2>4. Lane!ClearLine
    BY <2>1, <2>3 DEF Lane!ClearLine, Line, Turn
  <2> QED BY <2>1, <2>4 DEF Lane!LaneNext
<1>10. ASSUME UNCHANGED laneVars PROVE ChainInv' /\ [Lane!LaneNext]_(Lane!lane)
  <2>1. generation' = generation /\ queue' = queue /\ ticket' = ticket
    BY <1>10 DEF laneVars
  <2>2. DuePlaces' = DuePlaces
    BY <2>1 DEF DuePlaces, Due, Waiting
  <2>3. ChainInv'
    BY <2>1, <2>2 DEF ChainInv, InChain, Waiting, Running, Answered
  <2>4. Line' = Line /\ Turn' = Turn /\ Told' = Told
    BY <2>1, <2>2 DEF Line, Turn, Told, Running
  <2> QED BY <2>3, <2>4, LaneInstance
<1> QED BY <1>2, <1>3, <1>4, <1>5, <1>7, <1>8, <1>9, <1>10 DEF LaneStep, SetGeneration, Cancel

LEMMA ChainInitInv == LaneInit => ChainInv /\ Lane!LaneInit
<1> SUFFICES ASSUME LaneInit PROVE ChainInv /\ Lane!LaneInit
  OBVIOUS
<1>1. queue = << >> /\ \A t \in Tickets : /\ ~Waiting(t) /\ ~Running(t)
                                          /\ ticket[t].phase = "new" /\ ticket[t].answer = "none"
  BY DEF LaneInit, NewTicket, Waiting, Running
<1>2. DuePlaces = {} /\ Len(queue) = 0 /\ DOMAIN queue = {}
  BY <1>1 DEF DuePlaces
<1>3. 0 \in 0..Len(queue) /\ DuePlaces = (0+1)..Len(queue)
  BY <1>2
<1>4. ChainInv
  BY <1>1, <1>2, <1>3 DEF ChainInv
<1>5. Line = << >>
  <2>1. queue \in Seq(Tickets) /\ LineFrom(0)
    BY <1>1, <1>3 DEF LineFrom
  <2>2. Line = SubSeq(queue, 0+1, Len(queue))
    BY <2>1, LineIs
  <2> QED BY <1>1, <2>2
<1>6. Turn = {} /\ Told = [t \in Tickets |-> "none"]
  BY <1>1 DEF Turn, Told
<1> QED BY <1>4, <1>5, <1>6 DEF Lane!LaneInit, Line, Turn, Told

LEMMA ChainInduction ==
  /\ Init => LaneFacts /\ ChainInv /\ Lane!LaneInit
  /\ LaneFacts /\ ChainInv /\ [Next]_vars => LaneFacts' /\ ChainInv' /\ [Lane!LaneNext]_(Lane!lane)
<1>1. Init => LaneFacts /\ ChainInv /\ Lane!LaneInit
  BY LaneInduction, ChainInitInv DEF Init, RelayInit, CommandsInit
<1>2. ASSUME LaneFacts, ChainInv, [Next]_vars
      PROVE  LaneFacts' /\ ChainInv' /\ [Lane!LaneNext]_(Lane!lane)
  <2>1. LaneStep \/ UNCHANGED laneVars
    BY <1>2, LaneIsUsed DEF LaneFacts
  <2> QED BY <1>2, <2>1, LaneInduction, LaneStepMaps DEF LaneFacts
<1> QED BY <1>1, <1>2

(***************************************************************************)
(* The chain of gates keeps the promise of the lane: for every number of   *)
(* calls, generations and moves, everyone is told one answer, turns come   *)
(* one at a time in the order of the calls, also after a timeout, and a    *)
(* call that was answered while it waited never has its turn (enqueue,     *)
(* beginRun, invalidateLane).                                              *)
(***************************************************************************)
THEOREM ChainImplementsLane == Spec => ImplementsLane
BY ChainInduction, PTL DEF Spec, ImplementsLane, Lane!LaneSpec

(***************************************************************************)
(* The safety half of EveryoneIsAnswered: a call without an answer is in   *)
(* the chain, and the gate at its head is held by a callback under way or  *)
(* by a ticket that waits for nothing but its turn: no invalidation,       *)
(* refusal or timeout leaves a gate that nobody will open.                 *)
(***************************************************************************)
NoGateIsLost ==
    /\ \A t \in Tickets : ticket[t].phase # "new" /\ ~Answered(t) => t \in InChain
    /\ \A i \in DOMAIN queue : Waiting(queue[i]) \/ (i = 1 /\ Running(queue[i]))

THEOREM NobodyIsStranded == Spec => []NoGateIsLost
<1>1. ASSUME LaneFacts, ChainInv PROVE NoGateIsLost
  <2>1. LaneInv /\ queue \in Seq(Tickets)
    BY <1>1 DEF LaneFacts, LaneInv, LaneTypeOK
  <2>2. ASSUME NEW t \in Tickets, ticket[t].phase # "new", ~Answered(t) PROVE t \in InChain
    <3>1. Waiting(t) \/ Running(t)
      BY <1>1, <2>1, <2>2 DEF ChainInv, LaneInv, LaneTypeOK, TicketRecords, Waiting, Running
    <3>2. CASE Running(t)
      <4>1. 1 \in DOMAIN queue /\ queue[1] = t
        BY <2>1, <3>2 DEF LaneInv
      <4> QED BY <4>1 DEF InChain
    <3> QED BY <1>1, <3>1, <3>2 DEF ChainInv
  <2>3. ASSUME NEW i \in DOMAIN queue PROVE Waiting(queue[i]) \/ (i = 1 /\ Running(queue[i]))
    <3>1. CASE Running(queue[i])
      <4>1. 1 \in DOMAIN queue /\ queue[1] = queue[i]
        BY <2>1, <3>1 DEF LaneInv
      <4> QED BY <1>1, <3>1, <4>1 DEF ChainInv
    <3> QED BY <1>1, <3>1 DEF ChainInv
  <2> QED BY <2>2, <2>3 DEF NoGateIsLost
<1> QED BY <1>1, ChainInduction, PTL DEF Spec

--------------------------------------------------------------------------------
(* Types are kept.                                                         *)

LEMMA MoreFacts == \A n \in Nat : More(n) \in Nat /\ More(n) > 0 /\ (n > 0 => More(n) > 1)
                                  /\ More(n) >= n
  BY DEF More

\* A callback whose takeover is written is counted for what was meant.
LEMMA RanFacts ==
  ASSUME page \in PageRecords, NEW i, page' = [page EXCEPT !.ran[i] = More(@)]
  PROVE  /\ page' \in PageRecords
         /\ \A e \in Envelopes : page'.ran[e] = IF e = i THEN More(page.ran[e]) ELSE page.ran[e]
         /\ page'.did = page.did /\ page'.clicked = page.clicked /\ page'.button = page.button
<1> DEFINE ran == [page.ran EXCEPT ![i] = More(@)]
<1>1. /\ page.ran \in [Envelopes -> Nat] /\ page.did \in [Envelopes -> Nat]
      /\ page.clicked \in [ActionIds -> Nat] /\ page.button \in BOOLEAN
  BY DEF PageRecords
<1>2. /\ ran \in [Envelopes -> Nat]
      /\ \A e \in Envelopes : ran[e] = IF e = i THEN More(page.ran[e]) ELSE page.ran[e]
  BY <1>1, MoreFacts
<1>3. page' = [page EXCEPT !.ran = ran]
  OBVIOUS
<1> HIDE DEF ran
<1>4. page'.ran = ran /\ page'.did = page.did /\ page'.clicked = page.clicked /\ page'.button = page.button
      /\ page' = [button |-> page.button, ran |-> ran, did |-> page.did, clicked |-> page.clicked]
  BY <1>3 DEF PageRecords
<1> QED BY <1>1, <1>2, <1>4 DEF PageRecords

\* What an attempt does to the page.
Acts(e, left) ==
    page' = [page EXCEPT
                !.button = left,
                !.did[e.intent] = More(@),
                !.clicked = IF e.kind = "click" THEN Pressed(e.what) ELSE @]

LEMMA ActsFacts ==
  ASSUME page \in PageRecords, NEW e \in EnvRecords, NEW left \in BOOLEAN, Acts(e, left)
  PROVE  /\ page' \in PageRecords
         /\ \A i \in Envelopes : page'.did[i] = IF i = e.intent THEN More(page.did[i]) ELSE page.did[i]
         /\ \A a \in ActionIds : page'.clicked[a] =
               IF e.kind = "click" /\ a = e.what THEN More(page.clicked[a]) ELSE page.clicked[a]
         /\ page'.ran = page.ran
<1> DEFINE did == [page.did EXCEPT ![e.intent] = More(@)]
           clicked == IF e.kind = "click" THEN Pressed(e.what) ELSE page.clicked
<1>1. /\ page.ran \in [Envelopes -> Nat] /\ page.did \in [Envelopes -> Nat]
      /\ page.clicked \in [ActionIds -> Nat] /\ page.button \in BOOLEAN
  BY DEF PageRecords
<1>2. /\ did \in [Envelopes -> Nat]
      /\ \A i \in Envelopes : did[i] = IF i = e.intent THEN More(page.did[i]) ELSE page.did[i]
  BY <1>1, MoreFacts
<1>3. /\ clicked \in [ActionIds -> Nat]
      /\ \A a \in ActionIds : clicked[a] =
               IF e.kind = "click" /\ a = e.what THEN More(page.clicked[a]) ELSE page.clicked[a]
  BY <1>1, MoreFacts DEF Pressed
<1>4. page' = [page EXCEPT !.button = left, !.did = did, !.clicked = clicked]
  BY DEF Acts
<1> HIDE DEF did, clicked
<1>5. page'.ran = page.ran /\ page'.did = did /\ page'.clicked = clicked
      /\ page' = [button |-> left, ran |-> page.ran, did |-> did, clicked |-> clicked]
  BY <1>4 DEF PageRecords
<1> QED BY <1>1, <1>2, <1>3, <1>5 DEF PageRecords

\* What the registry does to its ids keeps their types.
LEMMA RegistryTypes ==
  ASSUME registry \in [ActionIds -> [state : ActionStates, generation : Nat]]
  PROVE  /\ \A a \in ActionIds, s \in ActionStates :
               With(a, s) \in [ActionIds -> [state : ActionStates, generation : Nat]]
         /\ \A g \in Nat : Remaining(g) \in [ActionIds -> [state : ActionStates, generation : Nat]]
         /\ \A g \in Nat : RegisterObserved(g) =>
               registry' \in [ActionIds -> [state : ActionStates, generation : Nat]]
<1> DEFINE R == [state : ActionStates, generation : Nat]
<1>1. ASSUME NEW a \in ActionIds, NEW s \in ActionStates PROVE With(a, s) \in [ActionIds -> R]
  BY DEF With
<1>2. ASSUME NEW g \in Nat PROVE Remaining(g) \in [ActionIds -> R]
  <2>1. \A a \in ActionIds : registry[a] \in R /\ [registry[a] EXCEPT !.state = "removed"] \in R
    BY DEF ActionStates
  <2> HIDE DEF R
  <2> QED BY <2>1 DEF Remaining
<1>3. ASSUME NEW g \in Nat, RegisterObserved(g) PROVE registry' \in [ActionIds -> R]
  <2>1. [state |-> "live", generation |-> g] \in R
    BY DEF ActionStates
  <2>2. registry \in [ActionIds -> R]
    OBVIOUS
  <2> HIDE DEF R
  <2>3. registry' = registry \/ registry' = [registry EXCEPT ![Observed(g)] = [state |-> "live", generation |-> g]]
    BY <1>3 DEF RegisterObserved
  <2> QED BY <2>1, <2>2, <2>3
<1> QED BY <1>1, <1>2, <1>3

--------------------------------------------------------------------------------
(* What a step of a ticket comes to.                                       *)

SameElsewhere(t) ==
    /\ \A u \in Tickets \ {t} : ticket'[u] = ticket[u] /\ body'[u] = body[u]
    /\ UNCHANGED <<generation, crossed, registry, env, cache, bridgeGen>>

FirstAnswer(t, answer) ==
    ticket'[t].answer = IF Answered(t) THEN ticket[t].answer ELSE answer

\* From the queue, with its callback not called,
Leaves(t) ==
    /\ ticket[t].phase = "queued" /\ ticket'[t].phase \in {"begun", "done"}
    /\ \/ ticket'[t].answer = ticket[t].answer
       \/ (ticket'[t].phase = "done" /\ FirstAnswer(t, "generation_changed"))
    /\ UNCHANGED <<body, page>>

\* past its time,
TimesOut(t) ==
    /\ ticket[t].phase = "running" /\ ticket'[t].phase = "running"
    /\ ticket[t].answer = "none" /\ ticket'[t].answer = "timeout"
    /\ UNCHANGED <<body, page>>

\* with its callback called,
Starts(t) ==
    /\ ticket[t].phase = "begun" /\ ticket'[t].phase = "running" /\ ticket'[t].answer = ticket[t].answer
    /\ body'[t].acted = body[t].acted /\ body'[t].result = body[t].result
    /\ page'.did = page.did /\ page'.clicked = page.clicked
    /\ \/ body'[t].authorised = FALSE /\ UNCHANGED page
       \/ /\ body'[t].authorised = TRUE
          /\ \A e \in Envelopes : page'.ran[e] = IF e = env[body[t].env].intent THEN More(page.ran[e])
                                                 ELSE page.ran[e]

\* which fails before it attempts anything,
NotStarted(t) ==
    /\ ticket[t].phase = "running" /\ ticket'[t].phase = "done" /\ FirstAnswer(t, "failed")
    /\ ~body[t].authorised
    /\ UNCHANGED <<body, page>>

\* acts on the page,
Does(t) ==
    /\ InAttempt(t) /\ ~body[t].acted /\ ticket'[t] = ticket[t]
    /\ body'[t].acted = TRUE /\ body'[t].authorised = TRUE /\ body'[t].result = "none"
    /\ page'.ran = page.ran
    /\ \A i \in Envelopes : page'.did[i] = IF i = env[body[t].env].intent THEN More(page.did[i])
                                           ELSE page.did[i]
    /\ \A a \in ActionIds : page'.clicked[a] =
          IF env[body[t].env].kind = "click" /\ a = env[body[t].env].what THEN More(page.clicked[a])
          ELSE page.clicked[a]

\* tries again,
Retries(t) ==
    /\ InAttempt(t) /\ ticket'[t] = ticket[t] /\ env[body[t].env].kind = "send"
    /\ body'[t].acted = FALSE /\ body'[t].authorised = TRUE /\ body'[t].result = "none"
    /\ page' = page

\* or comes to its end.
EndsAttempts(t) ==
    /\ InAttempt(t) /\ ticket'[t].phase = "done" /\ FirstAnswer(t, "resolved")
    /\ body'[t].acted = body[t].acted /\ body'[t].authorised = TRUE
    /\ \/ body[t].acted /\ body'[t].result \in {"ok", "failed"}
       \/ ~body[t].acted /\ body'[t].result = "revalidation"
    /\ page' = page

LEMMA TicketShape ==
  ASSUME LaneInv, ServerTypeOK, MemoryInv, NEW t \in Tickets, TicketStep(t)
  PROVE  /\ body[t].env \in Minted /\ SameElsewhere(t)
         /\ ticket'[t].generation = ticket[t].generation /\ body'[t].env = body[t].env
         /\ body' \in [Tickets -> BodyRecords] /\ page' \in PageRecords
         /\ \/ Leaves(t) \/ TimesOut(t) \/ Starts(t) \/ NotStarted(t) \/ Does(t) \/ Retries(t)
            \/ EndsAttempts(t)
<1>1. /\ ticket \in [Tickets -> TicketRecords] /\ body \in [Tickets -> BodyRecords]
      /\ page \in PageRecords
  BY DEF LaneInv, LaneTypeOK, ServerTypeOK
<1>2. ticket[t].phase # "new" => body[t].env \in Minted /\ env[body[t].env] \in EnvRecords
  BY DEF MemoryInv, ServerTypeOK, Minted
<1>3. CASE Skip(t) /\ UNCHANGED RestOfCommands
  <2>1. /\ \A u \in Tickets \ {t} : ticket'[u] = ticket[u]
        /\ ticket[t].phase = "queued" /\ ticket'[t].phase = "done"
        /\ ticket'[t].generation = ticket[t].generation /\ FirstAnswer(t, "generation_changed")
    BY <1>1, <1>3, DoneTicket DEF Skip, Waiting, Answers, FirstAnswer, Answered
  <2> QED BY <1>1, <1>2, <1>3, <2>1 DEF Leaves, Skip, RestOfCommands, SameElsewhere
<1>4. CASE Begin(t) /\ UNCHANGED RestOfCommands
  <2>1. /\ \A u \in Tickets \ {t} : ticket'[u] = ticket[u]
        /\ ticket[t].phase = "queued" /\ ticket'[t].phase = "begun"
        /\ ticket'[t].generation = ticket[t].generation /\ ticket'[t].answer = ticket[t].answer
    BY <1>1, <1>4 DEF Begin, Waiting, TicketRecords
  <2> QED BY <1>1, <1>2, <1>4, <2>1 DEF Leaves, Begin, RestOfCommands, SameElsewhere
<1>5. CASE Timeout(t) /\ UNCHANGED RestOfCommands
  <2>1. /\ \A u \in Tickets \ {t} : ticket'[u] = ticket[u]
        /\ ticket[t].phase = "running" /\ ticket'[t].phase = "running"
        /\ ticket'[t].generation = ticket[t].generation
        /\ ticket[t].answer = "none" /\ ticket'[t].answer = "timeout"
    BY <1>1, <1>5, GiveFacts DEF Timeout, Answered, Answers
  <2> QED BY <1>1, <1>2, <1>5, <2>1 DEF TimesOut, Timeout, RestOfCommands, SameElsewhere
<1>6. CASE CallbackStarts(t)
  <2>1. /\ \A u \in Tickets \ {t} : ticket'[u] = ticket[u]
        /\ ticket[t].phase = "begun" /\ ticket'[t].phase = "running"
        /\ ticket'[t].generation = ticket[t].generation /\ ticket'[t].answer = ticket[t].answer
        /\ UNCHANGED <<generation, crossed, registry, env, cache, bridgeGen>>
    BY <1>1, <1>6 DEF CallbackStarts, CallRun, TicketRecords
  <2>2. PICK authorised \in BOOLEAN :
          /\ body' = [body EXCEPT ![t].authorised = authorised]
          /\ page' = IF authorised THEN [page EXCEPT !.ran[env[body[t].env].intent] = More(@)] ELSE page
    BY <1>6 DEF CallbackStarts
  <2>3. /\ body' \in [Tickets -> BodyRecords] /\ \A u \in Tickets \ {t} : body'[u] = body[u]
        /\ body'[t].env = body[t].env /\ body'[t].authorised = authorised
        /\ body'[t].acted = body[t].acted /\ body'[t].result = body[t].result
    BY <1>1, <2>2 DEF BodyRecords
  <2>4. CASE authorised = TRUE
    <3>1. page' = [page EXCEPT !.ran[env[body[t].env].intent] = More(@)]
      BY <2>2, <2>4
    <3>2. /\ page' \in PageRecords /\ page'.did = page.did /\ page'.clicked = page.clicked
          /\ \A e \in Envelopes : page'.ran[e] = IF e = env[body[t].env].intent THEN More(page.ran[e])
                                                 ELSE page.ran[e]
      BY <1>1, <3>1, RanFacts
    <3> QED BY <1>2, <2>1, <2>3, <2>4, <3>2 DEF Starts, SameElsewhere
  <2>5. CASE authorised = FALSE
    BY <1>1, <1>2, <2>1, <2>2, <2>3, <2>5 DEF Starts, SameElsewhere
  <2> QED BY <2>4, <2>5
<1>7. CASE TakeoverThrows(t)
  <2>1. /\ \A u \in Tickets \ {t} : ticket'[u] = ticket[u]
        /\ ticket[t].phase = "running" /\ ticket'[t].phase = "done"
        /\ ticket'[t].generation = ticket[t].generation /\ FirstAnswer(t, "failed")
    BY <1>1, <1>7, DoneTicket DEF TakeoverThrows, RunSettles, Answers, FirstAnswer, Answered
  <2> QED BY <1>1, <1>2, <1>7, <2>1 DEF NotStarted, TakeoverThrows, RunSettles, SameElsewhere
<1>8. CASE Act(t)
  <2>1. /\ InAttempt(t) /\ ~body[t].acted /\ ticket' = ticket
        /\ body' = [body EXCEPT ![t].acted = TRUE]
        /\ UNCHANGED <<generation, crossed, registry, env, cache, bridgeGen>>
    BY <1>8 DEF Act, laneVars
  <2>2. /\ body' \in [Tickets -> BodyRecords] /\ \A u \in Tickets \ {t} : body'[u] = body[u]
        /\ body'[t].env = body[t].env /\ body'[t].authorised = body[t].authorised
        /\ body'[t].acted = TRUE /\ body'[t].result = body[t].result
    BY <1>1, <2>1 DEF BodyRecords
  <2>3. PICK left \in BOOLEAN : Acts(env[body[t].env], left)
    BY <1>8 DEF Act, Acts
  <2>4. env[body[t].env] \in EnvRecords
    BY <1>2, <2>1 DEF InAttempt
  <2>5. /\ page' \in PageRecords /\ page'.ran = page.ran
        /\ \A i \in Envelopes : page'.did[i] = IF i = env[body[t].env].intent THEN More(page.did[i])
                                               ELSE page.did[i]
        /\ \A a \in ActionIds : page'.clicked[a] =
              IF env[body[t].env].kind = "click" /\ a = env[body[t].env].what THEN More(page.clicked[a])
              ELSE page.clicked[a]
    BY <1>1, <2>3, <2>4, ActsFacts
  <2>6. body[t].authorised = TRUE /\ body[t].result = "none"
    BY <1>1, <2>1 DEF InAttempt, BodyRecords
  <2> QED BY <1>2, <2>1, <2>2, <2>5, <2>6 DEF Does, SameElsewhere, InAttempt
<1>9. ASSUME NEW result \in {"ok", "failed", "revalidation"}, InAttempt(t), Ends(t, result),
             IF body[t].acted THEN result \in {"ok", "failed"} ELSE result = "revalidation"
      PROVE  /\ EndsAttempts(t) /\ SameElsewhere(t) /\ body' \in [Tickets -> BodyRecords]
             /\ ticket'[t].generation = ticket[t].generation /\ body'[t].env = body[t].env /\ page' = page
  <2>1. /\ \A u \in Tickets \ {t} : ticket'[u] = ticket[u]
        /\ ticket'[t].phase = "done"
        /\ ticket'[t].generation = ticket[t].generation /\ FirstAnswer(t, "resolved")
        /\ UNCHANGED <<generation, crossed, registry, env, cache, bridgeGen, page>>
    BY <1>1, <1>9, DoneTicket DEF Ends, RunSettles, Answers, FirstAnswer, Answered
  <2>2. /\ body' \in [Tickets -> BodyRecords] /\ \A u \in Tickets \ {t} : body'[u] = body[u]
        /\ body'[t].env = body[t].env /\ body'[t].authorised = body[t].authorised
        /\ body'[t].acted = body[t].acted /\ body'[t].result = result
    BY <1>1, <1>9 DEF Ends, BodyRecords
  <2>3. body[t].authorised = TRUE
    BY <1>1, <1>9 DEF InAttempt, BodyRecords
  <2> QED BY <1>9, <2>1, <2>2, <2>3 DEF EndsAttempts, SameElsewhere
<1>10. CASE AttemptReturns(t)
  BY <1>1, <1>2, <1>9, <1>10 DEF AttemptReturns, InAttempt
<1>11. CASE AttemptThrows(t)
  <2>1. CASE env[body[t].env].kind = "send" /\ body[t].tries < MaxRetries
    <3>1. /\ InAttempt(t) /\ ticket' = ticket
          /\ body' = [body EXCEPT ![t].tries = @ + 1, ![t].acted = FALSE]
          /\ UNCHANGED <<generation, crossed, registry, env, cache, bridgeGen, page>>
      BY <1>11, <2>1 DEF AttemptThrows, laneVars
    <3>2. /\ body' \in [Tickets -> BodyRecords] /\ \A u \in Tickets \ {t} : body'[u] = body[u]
          /\ body'[t].env = body[t].env /\ body'[t].authorised = body[t].authorised
          /\ body'[t].acted = FALSE /\ body'[t].result = body[t].result
      <4> DEFINE n == body[t].tries + 1
                 b == [body[t] EXCEPT !.tries = n, !.acted = FALSE]
      <4>0. n \in Nat
        BY <1>1 DEF BodyRecords
      <4>2. body' = [body EXCEPT ![t] = b]
        BY <3>1
      <4> HIDE DEF n
      <4>1. /\ b \in BodyRecords /\ b.env = body[t].env /\ b.authorised = body[t].authorised
            /\ b.acted = FALSE /\ b.result = body[t].result
        BY <1>1, <4>0 DEF BodyRecords
      <4> HIDE DEF b
      <4> QED BY <1>1, <4>1, <4>2
    <3>3. body[t].authorised = TRUE /\ body[t].result = "none"
      BY <1>1, <3>1 DEF InAttempt, BodyRecords
    <3> QED BY <1>1, <1>2, <2>1, <3>1, <3>2, <3>3 DEF Retries, SameElsewhere, InAttempt
  <2>2. CASE ~(env[body[t].env].kind = "send" /\ body[t].tries < MaxRetries)
    <3>1. InAttempt(t) /\ Ends(t, IF body[t].acted THEN "failed" ELSE "revalidation")
      BY <1>11, <2>2 DEF AttemptThrows
    <3>2. CASE body[t].acted
      BY <1>1, <1>2, <1>9, <3>1, <3>2 DEF InAttempt
    <3>3. CASE ~body[t].acted
      BY <1>1, <1>2, <1>9, <3>1, <3>3 DEF InAttempt
    <3> QED BY <3>2, <3>3
  <2> QED BY <2>1, <2>2
<1> QED BY <1>3, <1>4, <1>5, <1>6, <1>7, <1>8, <1>10, <1>11 DEF TicketStep

--------------------------------------------------------------------------------
(* What is remembered and told stays true: steps of tickets.               *)

Truth == ServerTypeOK /\ ClientTypeOK /\ MemoryInv /\ EffectInv /\ ResultInv /\ ClientInv

LEMMA TicketTruth ==
  ASSUME LaneInv, LaneInv', Truth, NEW t \in Tickets, TicketStep(t), UNCHANGED <<relayVars, clientVars>>
  PROVE  Truth'
<1>1. /\ body[t].env \in Minted /\ SameElsewhere(t)
      /\ ticket'[t].generation = ticket[t].generation /\ body'[t].env = body[t].env
      /\ body' \in [Tickets -> BodyRecords] /\ page' \in PageRecords
      /\ \/ Leaves(t) \/ TimesOut(t) \/ Starts(t) \/ NotStarted(t) \/ Does(t) \/ Retries(t)
         \/ EndsAttempts(t)
  BY TicketShape DEF Truth
<1>2. /\ UNCHANGED <<registry, env, cache, bridgeGen>>
      /\ UNCHANGED <<auth, call, rec, listening, link, toServer, inbox, lapsed>>
      /\ UNCHANGED <<input, slot, pending, late, asked>>
      /\ \A u \in Tickets : body'[u].env = body[u].env
      /\ \A u \in Tickets \ {t} : ticket'[u] = ticket[u] /\ body'[u] = body[u]
      /\ Minted' = Minted
  BY <1>1 DEF SameElsewhere, relayVars, clientVars, Minted
<1>3. /\ page \in PageRecords /\ body \in [Tickets -> BodyRecords]
      /\ \A e \in Envelopes : /\ page.did[e] \in Nat /\ page'.did[e] \in Nat
                              /\ page.ran[e] \in Nat /\ page'.ran[e] \in Nat
  BY <1>1 DEF Truth, ServerTypeOK, PageRecords
<1>4. ServerTypeOK' /\ ClientTypeOK'
  BY <1>1, <1>2 DEF Truth, ServerTypeOK, ClientTypeOK
<1>5. ticket[t].phase # "new" /\ ticket'[t].phase # "new"
  BY <1>1 DEF Leaves, TimesOut, Starts, NotStarted, Does, Retries, EndsAttempts, InAttempt
<1>6. MemoryInv'
  <2>1. call[t].state # "new"
    BY <1>5 DEF Truth, MemoryInv, NewTicket
  <2>2. ASSUME NEW u \in Tickets
        PROVE  /\ call'[u].state = "new" =>
                     call'[u] = NewCall /\ body'[u] = NewBody /\ ticket'[u] = NewTicket
               /\ call'[u].state # "new" => call'[u].env \in Minted'
               /\ ticket'[u].phase # "new" => body'[u].env \in Minted'
               /\ body'[u].env # None => call'[u].env = body'[u].env /\ call'[u].run = u
               /\ call'[u].run # None => body'[call'[u].run].env = call'[u].env
               /\ call'[u].state = "running" => call'[u].run # None
    <3>1. call[u].run \in Tickets \cup {None}
      BY DEF Truth, ServerTypeOK, CallRecords, MaybeRun
    <3> QED BY <1>1, <1>2, <1>5, <2>1, <3>1 DEF Truth, MemoryInv
  <2>3. \A e \in Envelopes :
          /\ cache[e] # None => cache[e] \in Tickets /\ body'[cache[e]].env = e
          /\ rec[e] # None => rec[e] \in Tickets /\ call[rec[e]].env = e /\ call[rec[e]].state # "new"
          /\ e \in toServer \cup listening => e \in Minted
    BY <1>2 DEF Truth, ServerTypeOK, MaybeRun, RunOf, MemoryInv
  <2>4. \A e \in Envelopes, u \in Tickets : body'[u].env = e =>
          /\ cache[e] # None \/ <<e, "executor">> \in lapsed
          /\ rec[e] # None \/ <<e, "relay">> \in lapsed
    BY <1>2 DEF Truth, MemoryInv, RunOf, Lapsed
  <2>5. \A e \in Envelopes, u, v \in Tickets : body'[u].env = e /\ body'[v].env = e /\ u # v =>
          <<e, "executor">> \in lapsed /\ <<e, "relay">> \in lapsed
    BY <1>2 DEF Truth, MemoryInv, RunOf, Lapsed
  <2> QED BY <1>2, <2>2, <2>3, <2>4, <2>5 DEF MemoryInv, RunOf, Lapsed
<1>7. /\ env[body[t].env].intent = body[t].env /\ body[t].env \in Envelopes
      /\ \A u \in Tickets : ticket[u].phase # "new" => body[u].env \in Envelopes
  BY <1>1 DEF Truth, ClientInv, MemoryInv, Minted
<1>8. \A e \in Envelopes : page.did[e] > 0 => page'.did[e] > 0
  BY <1>1, <1>3, MoreFacts DEF Leaves, TimesOut, Starts, NotStarted, Does, Retries, EndsAttempts
<1>9. \A e \in Envelopes :
         \/ page'.ran[e] = page.ran[e]
         \/ (Starts(t) /\ body'[t].authorised = TRUE /\ e = body[t].env /\ page'.ran[e] = More(page.ran[e]))
  BY <1>1, <1>3, <1>7 DEF Leaves, TimesOut, Starts, NotStarted, Does, Retries, EndsAttempts
<1>10. EffectInv'
  <2>1. ASSUME NEW u \in Tickets
        PROVE  /\ ticket'[u].phase \in {"new", "queued", "begun"} =>
                     ~body'[u].authorised /\ ~body'[u].acted /\ body'[u].result = "none"
               /\ body'[u].acted => body'[u].authorised /\ page'.did[body'[u].env] > 0
               /\ body'[u].result = "ok" => body'[u].acted
               /\ body'[u].result = "revalidation" => ~body'[u].acted
               /\ body'[u].result # "none" => body'[u].authorised /\ ticket'[u].phase = "done"
               /\ body'[u].authorised => page'.ran[body'[u].env] > 0
    <3>1. ticket[u].phase \in {"new", "queued", "begun", "running", "done"}
      BY DEF LaneInv, LaneTypeOK, TicketRecords
    <3>2. body[u].authorised => body[u].env \in Envelopes
      <4>1. ticket[u].phase = "new" => ~body[u].authorised
        BY DEF Truth, EffectInv
      <4> QED BY <1>7, <4>1
    <3>3. \A e \in Envelopes : page.ran[e] > 0 => page'.ran[e] > 0
      BY <1>3, <1>9, MoreFacts
    <3>4. CASE u # t
      BY <1>2, <1>8, <3>2, <3>3, <3>4 DEF Truth, EffectInv
    <3>5. CASE u = t
      <4>1. CASE Leaves(t) \/ TimesOut(t) \/ NotStarted(t)
        BY <1>2, <3>1, <3>5, <4>1 DEF Leaves, TimesOut, NotStarted, Truth, EffectInv
      <4>2. CASE Starts(t)
        BY <1>2, <1>3, <1>7, <1>8, <3>5, <4>2, MoreFacts DEF Starts, Truth, EffectInv
      <4>3. CASE Does(t)
        BY <1>2, <1>3, <1>7, <3>3, <3>5, <4>3, MoreFacts DEF Does, InAttempt, Truth, EffectInv
      <4>4. CASE Retries(t)
        BY <1>2, <1>3, <1>7, <3>3, <3>5, <4>4 DEF Retries, InAttempt, Truth, EffectInv
      <4>5. CASE EndsAttempts(t)
        BY <1>2, <1>3, <1>7, <1>8, <3>3, <3>5, <4>5 DEF EndsAttempts, InAttempt, Truth, EffectInv
      <4> QED BY <1>1, <4>1, <4>2, <4>3, <4>4, <4>5
    <3> QED BY <3>4, <3>5
  <2>2. ASSUME NEW e \in Envelopes
        PROVE  /\ page'.ran[e] > 0 => \E u \in Tickets : RunOf(e, u)' /\ body'[u].authorised
               /\ page'.ran[e] > 1 => Lapsed(e, "executor")' /\ Lapsed(e, "relay")'
    <3>1. Starts(t) => ~body[t].authorised
      BY DEF Starts, Truth, EffectInv
    <3>2. \A u \in Tickets : body[u].authorised => body'[u].authorised
      BY <1>1, <1>2, <3>1 DEF Leaves, TimesOut, Starts, NotStarted, Does, Retries, EndsAttempts
    <3>3. page.ran[e] > 0 => \E u \in Tickets : RunOf(e, u) /\ body[u].authorised
      BY DEF Truth, EffectInv
    <3>4. CASE page'.ran[e] = page.ran[e]
      BY <1>2, <3>2, <3>3, <3>4 DEF Truth, EffectInv, RunOf, Lapsed
    <3>5. CASE Starts(t) /\ body'[t].authorised = TRUE /\ e = body[t].env /\ page'.ran[e] = More(page.ran[e])
      <4>1. \E u \in Tickets : RunOf(e, u)' /\ body'[u].authorised
        BY <1>2, <3>5 DEF RunOf
      <4>2. page.ran[e] > 0 => Lapsed(e, "executor") /\ Lapsed(e, "relay")
        BY <3>1, <3>3, <3>5 DEF Truth, MemoryInv, RunOf
      <4>3. page'.ran[e] > 1 => page.ran[e] > 0
        BY <1>3, <3>5 DEF More
      <4> QED BY <1>2, <4>1, <4>2, <4>3 DEF Lapsed
    <3> QED BY <1>9, <3>4, <3>5
  <2> QED BY <2>1, <2>2 DEF EffectInv
<1>11. ResultInv'
  <2>1. \A k \in Tickets : call[k].result = "ok" => call[k].env \in Envelopes
    BY DEF Truth, MemoryInv, NewCall, Minted
  <2> QED BY <1>2, <1>8, <2>1 DEF Truth, ResultInv
<1>12. ClientInv'
  BY <1>2, <1>8 DEF Truth, ClientInv, Minted
<1> QED BY <1>4, <1>6, <1>10, <1>11, <1>12 DEF Truth

--------------------------------------------------------------------------------
(* Steps of the registry, the bridge and the page.                         *)

RegistryTyped == registry \in [ActionIds -> [state : ActionStates, generation : Nat]]

LEMMA RegistryShape ==
  ASSUME LaneInv, ServerTypeOK, RegistryStep
  PROVE  /\ RegistryTyped' /\ bridgeGen' \in Nat \ {0} /\ page' \in PageRecords
         /\ page'.ran = page.ran /\ page'.did = page.did /\ page'.clicked = page.clicked
         /\ \A t \in Tickets : /\ ticket'[t].phase = ticket[t].phase
                               /\ ticket[t].phase = "new" => ticket'[t] = ticket[t]
         /\ UNCHANGED <<env, cache, body>>
<1> USE DEF RegistryTyped
<1>1. /\ registry \in [ActionIds -> [state : ActionStates, generation : Nat]]
      /\ bridgeGen \in Nat \ {0} /\ page \in PageRecords /\ LaneTypeOK
  BY DEF LaneInv, ServerTypeOK
<1>2. ASSUME NEW code \in Answers \ {"none"}, Invalidate(code)
      PROVE  \A t \in Tickets : /\ ticket'[t].phase = ticket[t].phase
                                /\ ticket[t].phase = "new" => ticket'[t] = ticket[t]
  BY <1>1, <1>2, InvalidateTicket DEF Waiting, Running
<1>3. CASE Reconnected
  BY <1>1, <1>2, <1>3, RegistryTypes DEF Reconnected, SetGeneration, Answers
<1>4. CASE ShutsDown
  BY <1>1, <1>2, <1>4, RegistryTypes DEF ShutsDown, Cancel, Answers, None
<1>5. CASE BridgeReconnects
  BY <1>1, <1>5 DEF BridgeReconnects, laneVars
<1>6. ASSUME NEW a \in ActionIds, Forget(a), UNCHANGED <<laneVars, env, cache, body, page, bridgeGen>>
      PROVE  /\ RegistryTyped' /\ UNCHANGED <<ticket, env, cache, body, page, bridgeGen>>
  <2>1. "removed" \in ActionStates
    BY DEF ActionStates
  <2> QED BY <1>1, <1>6, <2>1, RegistryTypes DEF Forget, laneVars
<1>7. CASE Poll
  BY <1>1, <1>7, RegistryTypes DEF Poll, laneVars
<1>8. CASE ButtonChanges
  <2>1. /\ page' \in PageRecords
        /\ page'.ran = page.ran /\ page'.did = page.did /\ page'.clicked = page.clicked
    BY <1>1, <1>8 DEF ButtonChanges, PageRecords
  <2> QED BY <1>1, <1>8, <2>1 DEF ButtonChanges, laneVars
<1> QED BY <1>1, <1>3, <1>4, <1>5, <1>6, <1>7, <1>8 DEF RegistryStep

LEMMA RegistryTruth ==
  ASSUME LaneInv, Truth, RegistryStep, UNCHANGED <<relayVars, clientVars>>
  PROVE  Truth'
<1>1. /\ RegistryTyped' /\ bridgeGen' \in Nat \ {0} /\ page' \in PageRecords
      /\ page'.ran = page.ran /\ page'.did = page.did
      /\ \A t \in Tickets : /\ ticket'[t].phase = ticket[t].phase
                            /\ ticket[t].phase = "new" => ticket'[t] = ticket[t]
  BY RegistryShape DEF Truth
<1>2. /\ UNCHANGED <<env, cache, body>>
      /\ UNCHANGED <<auth, call, rec, listening, link, toServer, inbox, lapsed>>
      /\ UNCHANGED <<input, slot, pending, late, asked>>
      /\ Minted' = Minted
  BY RegistryShape DEF Truth, relayVars, clientVars, Minted
<1>3. ServerTypeOK' /\ ClientTypeOK'
  BY <1>1, <1>2 DEF Truth, ServerTypeOK, ClientTypeOK, RegistryTyped
<1>4. MemoryInv'
  <2>1. \A t \in Tickets : ticket[t] = NewTicket => ticket'[t] = NewTicket
    BY <1>1 DEF NewTicket
  <2> QED BY <1>1, <1>2, <2>1 DEF Truth, MemoryInv, RunOf, Lapsed
<1>5. EffectInv'
  BY <1>1, <1>2 DEF Truth, EffectInv, RunOf, Lapsed
<1>6. ResultInv' /\ ClientInv'
  BY <1>1, <1>2 DEF Truth, ResultInv, ClientInv
<1> QED BY <1>3, <1>4, <1>5, <1>6 DEF Truth

--------------------------------------------------------------------------------
(* Steps of the relay.                                                     *)

LEMMA TellFacts ==
  ASSUME inbox \in [Envelopes -> Results], NEW e \in Envelopes, NEW result \in Results, Tell(e, result)
  PROVE  /\ inbox' \in [Envelopes -> Results]
         /\ \A f \in Envelopes : inbox'[f] = inbox[f] \/ (f = e /\ inbox'[f] = result)
  BY DEF Tell

\* An execution not begun yet has nothing anywhere.
LEMMA UnusedFacts ==
  ASSUME ServerTypeOK, MemoryInv, NEW k \in Tickets, Unused(k)
  PROVE  /\ call[k] = NewCall /\ body[k] = NewBody /\ ticket[k] = NewTicket
         /\ \A f \in Envelopes : cache[f] # k /\ rec[f] # k
         /\ \A u \in Tickets : call[u].run # k
<1>1. None \notin Tickets /\ None \notin Envelopes
  BY CommandsAssumption DEF None
<1>2. call[k] = NewCall /\ body[k] = NewBody /\ ticket[k] = NewTicket
  BY DEF Unused, MemoryInv
<1>3. body[k].env = None /\ call[k].state = "new"
  BY <1>2 DEF NewBody, NewCall
<1>4. \A f \in Envelopes : cache[f] # k /\ rec[f] # k
  BY <1>1, <1>3 DEF MemoryInv, RunOf
<1>5. \A u \in Tickets : call[u].run # k
  BY <1>1, <1>3 DEF MemoryInv, Minted, NewCall
<1> QED BY <1>2, <1>4, <1>5

\* Answered at once, from the record or by the limits.
LEMMA ReplayTruth ==
  ASSUME Truth, NEW e \in Envelopes, Replay(e) \/ Limit(e),
         e \in toServer, toServer' = toServer \ {e}, UNCHANGED <<auth, link, lapsed, clientVars>>
  PROVE  Truth'
<1>1. /\ UNCHANGED <<ticket, registry, env, cache, body, page, bridgeGen>>
      /\ UNCHANGED <<auth, call, rec, link, lapsed, input, slot, pending, late, asked>>
      /\ Minted' = Minted
  BY DEF Replay, Limit, commandVars, laneVars, clientVars, Minted
<1>2. e \in Minted /\ (rec[e] # None => rec[e] \in Tickets /\ call[rec[e]].env = e)
  BY DEF Truth, MemoryInv, ServerTypeOK, MaybeRun
<1>3. \/ /\ \E result \in Results : Tell(e, result) /\ (result = "ok" => page.did[e] > 0)
         /\ listening' = listening
      \/ inbox' = inbox /\ listening' = listening \cup {e}
  <2>1. CASE Replay(e)
    <3>1. call[rec[e]].result \in Results /\ (call[rec[e]].result = "ok" => page.did[e] > 0)
      BY <1>2, <2>1 DEF Replay, Truth, ServerTypeOK, CallRecords, ResultInv
    <3> QED BY <2>1, <3>1 DEF Replay
  <2>2. CASE Limit(e)
    BY <2>2 DEF Limit, Results
  <2> QED BY <2>1, <2>2
<1>4. /\ inbox' \in [Envelopes -> Results]
      /\ \A f \in Envelopes : \/ inbox'[f] = inbox[f]
                              \/ (f = e /\ (inbox'[f] = "ok" => page.did[e] > 0))
      /\ listening' \subseteq listening \cup {e}
  BY <1>3, TellFacts DEF Truth, ServerTypeOK
<1>5. ServerTypeOK' /\ ClientTypeOK'
  BY <1>1, <1>4 DEF Truth, ServerTypeOK, ClientTypeOK
<1>6. MemoryInv'
  BY <1>1, <1>2, <1>4 DEF Truth, MemoryInv, RunOf, Lapsed
<1>7. EffectInv'
  BY <1>1 DEF Truth, EffectInv, RunOf, Lapsed
<1>8. ResultInv'
  BY <1>1, <1>4 DEF Truth, ResultInv
<1>9. ClientInv'
  BY <1>1, <1>2, <1>4 DEF Truth, ClientInv
<1> QED BY <1>5, <1>6, <1>7, <1>8, <1>9 DEF Truth

LEMMA UnauthorisedTruth ==
  ASSUME Truth, NEW e \in Envelopes, NEW k \in Tickets, Unauthorised(e, k),
         e \in toServer, toServer' = toServer \ {e}, UNCHANGED <<auth, link, lapsed, clientVars>>
  PROVE  Truth'
<1> DEFINE c == [env |-> e, run |-> None, state |-> "settled", result |-> "failed"]
<1>1. /\ UNCHANGED <<ticket, env, cache, body, page, bridgeGen, listening>>
      /\ UNCHANGED <<auth, link, lapsed, input, slot, pending, late, asked>>
      /\ Minted' = Minted
  BY DEF Unauthorised, laneVars, clientVars, Minted
<1>2. e \in Minted /\ Unused(k)
  BY DEF Truth, MemoryInv, Unauthorised
<1>3. call[k] = NewCall /\ body[k] = NewBody /\ \A f \in Envelopes : rec[f] # k
  BY <1>2, UnusedFacts DEF Truth
<1>4. /\ c \in CallRecords
      /\ call' \in [Tickets -> CallRecords] /\ call'[k] = c
      /\ \A u \in Tickets \ {k} : call'[u] = call[u]
  <2>1. c \in CallRecords
    BY DEF CallRecords, MaybeEnv, MaybeRun, Results
  <2> HIDE DEF c
  <2> QED BY <2>1 DEF Unauthorised, c, Truth, ServerTypeOK
<1>5. /\ rec' \in [Envelopes -> MaybeRun] /\ rec'[e] = k
      /\ \A f \in Envelopes \ {e} : rec'[f] = rec[f]
  BY DEF Unauthorised, Truth, ServerTypeOK, MaybeRun
<1>6. /\ inbox' \in [Envelopes -> Results]
      /\ \A f \in Envelopes : inbox'[f] = inbox[f] \/ (f = e /\ inbox'[f] = "failed")
  BY TellFacts DEF Unauthorised, Results, Truth, ServerTypeOK
<1>7. RegistryTyped'
  <2>1. \/ registry' = registry
        \/ env[e].what \in ActionIds /\ registry' = With(env[e].what, "removed")
    BY <1>2 DEF Unauthorised, Truth, ClientInv
  <2>2. registry \in [ActionIds -> [state : ActionStates, generation : Nat]] /\ "removed" \in ActionStates
    BY DEF Truth, ServerTypeOK, ActionStates
  <2> QED BY <2>1, <2>2, RegistryTypes DEF RegistryTyped
<1>8. ServerTypeOK' /\ ClientTypeOK'
  BY <1>1, <1>4, <1>5, <1>6, <1>7 DEF Truth, ServerTypeOK, ClientTypeOK, RegistryTyped
<1>9. MemoryInv'
  <2>1. ASSUME NEW u \in Tickets
        PROVE  /\ call'[u].state = "new" =>
                     call'[u] = NewCall /\ body'[u] = NewBody /\ ticket'[u] = NewTicket
               /\ call'[u].state # "new" => call'[u].env \in Minted'
               /\ ticket'[u].phase # "new" => body'[u].env \in Minted'
               /\ body'[u].env # None => call'[u].env = body'[u].env /\ call'[u].run = u
               /\ call'[u].run # None => body'[call'[u].run].env = call'[u].env
               /\ call'[u].state = "running" => call'[u].run # None
    <3>1. CASE u = k
      BY <1>1, <1>2, <1>3, <1>4, <3>1 DEF Truth, MemoryInv, NewBody
    <3>2. CASE u # k
      BY <1>1, <1>4, <3>2 DEF Truth, MemoryInv
    <3> QED BY <3>1, <3>2
  <2>2. \A f \in Envelopes :
          /\ cache'[f] # None => body'[cache'[f]].env = f
          /\ rec'[f] # None => call'[rec'[f]].env = f /\ call'[rec'[f]].state # "new"
          /\ f \in toServer' \cup listening' => f \in Minted'
    BY <1>1, <1>2, <1>3, <1>4, <1>5 DEF Truth, ServerTypeOK, MaybeRun, RunOf, MemoryInv
  <2>3. \A f \in Envelopes, u \in Tickets : body'[u].env = f =>
          /\ cache'[f] # None \/ <<f, "executor">> \in lapsed'
          /\ rec'[f] # None \/ <<f, "relay">> \in lapsed'
    <3>1. k # None
      BY CommandsAssumption DEF None
    <3> QED BY <1>1, <1>5, <3>1 DEF Truth, MemoryInv, RunOf, Lapsed
  <2>4. \A f \in Envelopes, u, v \in Tickets : body'[u].env = f /\ body'[v].env = f /\ u # v =>
          <<f, "executor">> \in lapsed' /\ <<f, "relay">> \in lapsed'
    BY <1>1 DEF Truth, MemoryInv, RunOf, Lapsed
  <2> QED BY <2>1, <2>2, <2>3, <2>4 DEF MemoryInv, RunOf, Lapsed
<1>10. EffectInv'
  BY <1>1 DEF Truth, EffectInv, RunOf, Lapsed
<1>11. ResultInv'
  BY <1>1, <1>4, <1>6 DEF Truth, ResultInv
<1>12. ClientInv'
  BY <1>1, <1>2, <1>6 DEF Truth, ClientInv
<1> QED BY <1>8, <1>9, <1>10, <1>11, <1>12 DEF Truth

\* What an execution that is let through leaves behind.
LEMMA ExecuteShape ==
  ASSUME LaneInv, ServerTypeOK, MemoryInv, NEW e \in Envelopes, NEW k \in Tickets, Execute(e, k)
  PROVE  LET run == Runner(e, k) IN
         /\ run \in Tickets
         /\ call' = [call EXCEPT ![k] = [env |-> e, run |-> run, state |-> "running", result |-> "none"]]
         /\ rec' = [rec EXCEPT ![e] = k]
         /\ \A u \in Tickets \ {k} : ticket'[u] = ticket[u] /\ body'[u] = body[u]
         /\ \/ /\ cache[e] = None /\ run = k
               /\ cache' = [cache EXCEPT ![e] = k]
               /\ body' = [body EXCEPT ![k] = [NewBody EXCEPT !.env = e]]
               /\ \/ /\ bridgeGen = generation
                     /\ ticket'[k].phase = "queued" /\ ticket'[k].generation = bridgeGen
                     /\ ticket'[k].answer = "none"
                  \/ /\ bridgeGen # generation
                     /\ ticket'[k].phase = "done" /\ ticket'[k].answer = "generation_changed"
            \/ /\ cache[e] # None /\ run = cache[e] /\ run # k /\ body[run].env = e
               /\ UNCHANGED <<ticket, cache, body>>
<1>1. Unused(k)
  BY DEF Execute
<1>2. /\ call[k] = NewCall /\ body[k] = NewBody /\ ticket[k] = NewTicket
      /\ cache[e] # k
  BY <1>1, UnusedFacts
<1>3. /\ ticket \in [Tickets -> TicketRecords] /\ body \in [Tickets -> BodyRecords]
      /\ cache \in [Envelopes -> MaybeRun]
  BY DEF LaneInv, LaneTypeOK, ServerTypeOK
<1>4. CASE cache[e] = None
  <2>1. /\ Runner(e, k) = k /\ Enqueue(k, bridgeGen)
        /\ cache' = [cache EXCEPT ![e] = k] /\ body' = [body EXCEPT ![k].env = e]
    BY <1>4 DEF Execute, Dispatch, Runner
  <2>2. body' = [body EXCEPT ![k] = [NewBody EXCEPT !.env = e]]
    BY <1>2, <2>1
  <2>3. /\ \A u \in Tickets \ {k} : ticket'[u] = ticket[u]
        /\ \/ /\ bridgeGen = generation
              /\ ticket'[k].phase = "queued" /\ ticket'[k].generation = bridgeGen
              /\ ticket'[k].answer = "none"
           \/ /\ bridgeGen # generation
              /\ ticket'[k].phase = "done" /\ ticket'[k].answer = "generation_changed"
    BY <1>2, <1>3, <2>1 DEF Enqueue, NewTicket, TicketRecords
  <2>4. \A u \in Tickets \ {k} : body'[u] = body[u]
    BY <1>3, <2>1
  <2> QED BY <1>4, <2>1, <2>2, <2>3, <2>4 DEF Execute
<1>5. CASE cache[e] # None
  <2>1. Runner(e, k) = cache[e] /\ cache[e] # k /\ cache[e] \in Tickets
    BY <1>2, <1>3, <1>5 DEF Runner, MaybeRun
  <2>2. UNCHANGED <<ticket, cache, body>>
    BY <2>1 DEF Execute, Dispatch, laneVars
  <2>3. body[cache[e]].env = e
    BY <1>5 DEF MemoryInv, RunOf
  <2> QED BY <1>5, <2>1, <2>2, <2>3 DEF Execute
<1> QED BY <1>4, <1>5

LEMMA ExecuteTruth ==
  ASSUME LaneInv, LaneInv', Truth, NEW e \in Envelopes, NEW k \in Tickets, Execute(e, k),
         e \in toServer, toServer' = toServer \ {e}, UNCHANGED <<auth, link, lapsed, clientVars>>
  PROVE  Truth'
<1> DEFINE run == Runner(e, k)
           c == [env |-> e, run |-> run, state |-> "running", result |-> "none"]
           b == [NewBody EXCEPT !.env = e]
<1>1. /\ UNCHANGED <<env, page, bridgeGen, inbox>>
      /\ UNCHANGED <<auth, link, lapsed, input, slot, pending, late, asked>>
      /\ Minted' = Minted /\ listening' = listening \cup {e}
      /\ rec[e] = None /\ k # None /\ e # None /\ None \notin Tickets
  BY CommandsAssumption DEF Execute, clientVars, Minted, None
<1>2. e \in Minted /\ Unused(k)
  BY DEF Truth, MemoryInv, Execute
<1>3. /\ call[k] = NewCall /\ body[k] = NewBody /\ ticket[k] = NewTicket
      /\ \A f \in Envelopes : cache[f] # k /\ rec[f] # k
      /\ \A u \in Tickets : call[u].run # k
  BY <1>2, UnusedFacts DEF Truth
<1>4. /\ run \in Tickets /\ call' = [call EXCEPT ![k] = c] /\ rec' = [rec EXCEPT ![e] = k]
      /\ \A u \in Tickets \ {k} : ticket'[u] = ticket[u] /\ body'[u] = body[u]
      /\ \/ /\ cache[e] = None /\ run = k /\ cache' = [cache EXCEPT ![e] = k]
            /\ body' = [body EXCEPT ![k] = b] /\ ticket'[k].phase \in {"queued", "done"}
         \/ /\ cache[e] # None /\ run = cache[e] /\ run # k /\ body[run].env = e
            /\ UNCHANGED <<ticket, cache, body>>
  BY ExecuteShape DEF Truth
<1>5. /\ c \in CallRecords /\ c.env = e /\ c.run = run /\ c.state = "running" /\ c.result = "none"
  BY <1>4 DEF CallRecords, MaybeEnv, MaybeRun, Results
<1>6. b \in BodyRecords /\ b.env = e /\ b.authorised = FALSE /\ b.acted = FALSE /\ b.result = "none"
  BY DEF NewBody, BodyRecords, MaybeEnv
<1> HIDE DEF run, c, b
<1>7. /\ call' \in [Tickets -> CallRecords] /\ rec' \in [Envelopes -> MaybeRun]
      /\ cache' \in [Envelopes -> MaybeRun] /\ body' \in [Tickets -> BodyRecords]
      /\ call'[k] = c /\ \A u \in Tickets \ {k} : call'[u] = call[u]
      /\ rec'[e] = k /\ \A f \in Envelopes \ {e} : rec'[f] = rec[f] /\ cache'[f] = cache[f]
  BY <1>4, <1>5, <1>6 DEF Truth, ServerTypeOK, MaybeRun
<1>8. RegistryTyped'
  <2>1. \/ registry' = registry
        \/ env[e].what \in ActionIds /\ registry' = With(env[e].what, "reserved")
    BY <1>2 DEF Execute, Truth, ClientInv
  <2>2. registry \in [ActionIds -> [state : ActionStates, generation : Nat]] /\ "reserved" \in ActionStates
    BY DEF Truth, ServerTypeOK, ActionStates
  <2> QED BY <2>1, <2>2, RegistryTypes DEF RegistryTyped
<1>9. ServerTypeOK' /\ ClientTypeOK'
  BY <1>1, <1>7, <1>8 DEF Truth, ServerTypeOK, ClientTypeOK, RegistryTyped
<1>10. MemoryInv'
  <2>1. ASSUME NEW u \in Tickets
        PROVE  /\ call'[u].state = "new" =>
                     call'[u] = NewCall /\ body'[u] = NewBody /\ ticket'[u] = NewTicket
               /\ call'[u].state # "new" => call'[u].env \in Minted'
               /\ ticket'[u].phase # "new" => body'[u].env \in Minted'
               /\ body'[u].env # None => call'[u].env = body'[u].env /\ call'[u].run = u
               /\ call'[u].run # None => body'[call'[u].run].env = call'[u].env
               /\ call'[u].state = "running" => call'[u].run # None
    <3>1. CASE u = k
      <4>1. /\ call'[u].env = e /\ call'[u].state = "running" /\ call'[u].run = run /\ run # None
        BY <1>1, <1>4, <1>5, <1>7, <3>1
      <4>2. body'[run].env = e
        BY <1>4, <1>6, <1>7 DEF Truth, ServerTypeOK
      <4>3. CASE run = k
        BY <1>1, <1>2, <3>1, <4>1, <4>2, <4>3
      <4>4. CASE run # k
        <5>1. ticket' = ticket /\ body' = body
          BY <1>4, <4>4
        <5>2. ticket'[k].phase = "new" /\ body'[k].env = None
          BY <1>3, <5>1 DEF NewBody, NewTicket
        <5> QED BY <1>1, <1>2, <3>1, <4>1, <4>2, <5>2
      <4> QED BY <4>3, <4>4
    <3>2. CASE u # k
      <4>1. call[u].run \in Tickets \cup {None} /\ call[u].run # k
        BY <1>3 DEF Truth, ServerTypeOK, CallRecords, MaybeRun
      <4> QED BY <1>1, <1>4, <1>7, <3>2, <4>1 DEF Truth, MemoryInv
    <3> QED BY <3>1, <3>2
  <2>2. ASSUME NEW f \in Envelopes
        PROVE  /\ cache'[f] # None => body'[cache'[f]].env = f
               /\ rec'[f] # None => call'[rec'[f]].env = f /\ call'[rec'[f]].state # "new"
               /\ f \in toServer' \cup listening' => f \in Minted'
    <3>1. cache[f] \in Tickets \cup {None} /\ rec[f] \in Tickets \cup {None} /\ cache[f] # k /\ rec[f] # k
      BY <1>3 DEF Truth, ServerTypeOK, MaybeRun
    <3>2. cache[f] # None => body'[cache[f]].env = f
      BY <1>4, <3>1 DEF Truth, MemoryInv, RunOf
    <3>3. cache'[f] # None => body'[cache'[f]].env = f
      BY <1>4, <1>6, <1>7, <3>2 DEF Truth, ServerTypeOK
    <3>4. rec'[f] # None => call'[rec'[f]].env = f /\ call'[rec'[f]].state # "new"
      BY <1>5, <1>7, <3>1 DEF Truth, MemoryInv
    <3> QED BY <1>1, <1>2, <3>3, <3>4 DEF Truth, MemoryInv
  <2>3. \A f \in Envelopes, u \in Tickets : body'[u].env = f =>
          \/ body[u].env = f
          \/ u = k /\ f = e /\ cache[e] = None
    BY <1>4, <1>6, <1>7
  <2>4. ASSUME NEW f \in Envelopes, NEW u \in Tickets, body'[u].env = f
        PROVE  /\ cache'[f] # None \/ <<f, "executor">> \in lapsed'
               /\ rec'[f] # None \/ <<f, "relay">> \in lapsed'
    <3>1. CASE f # e
      BY <1>1, <1>7, <2>3, <2>4, <3>1 DEF Truth, MemoryInv, RunOf, Lapsed
    <3>2. CASE f = e
      <4>1. cache'[e] # None
        BY <1>1, <1>4 DEF Truth, ServerTypeOK
      <4> QED BY <1>1, <1>7, <3>2, <4>1
    <3> QED BY <3>1, <3>2
  <2>5. ASSUME NEW f \in Envelopes, NEW u \in Tickets, NEW v \in Tickets,
               body'[u].env = f, body'[v].env = f, u # v
        PROVE  <<f, "executor">> \in lapsed' /\ <<f, "relay">> \in lapsed'
    <3>1. CASE body[u].env = f /\ body[v].env = f
      BY <1>1, <2>5, <3>1 DEF Truth, MemoryInv, RunOf, Lapsed
    <3>2. ASSUME NEW w \in Tickets, body[w].env = e, cache[e] = None
          PROVE  <<e, "executor">> \in lapsed' /\ <<e, "relay">> \in lapsed'
      BY <1>1, <3>2 DEF Truth, MemoryInv, RunOf, Lapsed
    <3> QED BY <2>3, <2>5, <3>1, <3>2
  <2> QED BY <2>1, <2>2, <2>4, <2>5 DEF MemoryInv, RunOf, Lapsed
<1>11. EffectInv'
  <2>1. ASSUME NEW u \in Tickets
        PROVE  /\ ticket'[u].phase \in {"new", "queued", "begun"} =>
                     ~body'[u].authorised /\ ~body'[u].acted /\ body'[u].result = "none"
               /\ body'[u].acted => body'[u].authorised /\ page'.did[body'[u].env] > 0
               /\ body'[u].result = "ok" => body'[u].acted
               /\ body'[u].result = "revalidation" => ~body'[u].acted
               /\ body'[u].result # "none" => body'[u].authorised /\ ticket'[u].phase = "done"
               /\ body'[u].authorised => page'.ran[body'[u].env] > 0
    <3>1. CASE u = k /\ cache[e] = None
      <4>1. body'[u] = b
        BY <1>4, <3>1 DEF Truth, ServerTypeOK
      <4> QED BY <1>6, <4>1
    <3>2. CASE ~(u = k /\ cache[e] = None)
      BY <1>1, <1>4, <3>2 DEF Truth, EffectInv
    <3> QED BY <3>1, <3>2
  <2>2. \A u \in Tickets : body[u].authorised =>
           u # k /\ body'[u].authorised /\ body'[u].env = body[u].env
    BY <1>3, <1>4 DEF NewBody
  <2>3. \A f \in Envelopes : /\ page'.ran[f] > 0 => \E u \in Tickets : body'[u].env = f /\ body'[u].authorised
                             /\ page'.ran[f] > 1 => <<f, "executor">> \in lapsed' /\ <<f, "relay">> \in lapsed'
    BY <1>1, <2>2 DEF Truth, EffectInv, RunOf, Lapsed
  <2> QED BY <2>1, <2>3 DEF EffectInv, RunOf, Lapsed
<1>12. ResultInv'
  BY <1>1, <1>5, <1>7 DEF Truth, ResultInv
<1>13. ClientInv'
  BY <1>1 DEF Truth, ClientInv
<1> QED BY <1>9, <1>10, <1>11, <1>12, <1>13 DEF Truth

\* What an execution that is answered comes to.
LEMMA FinishShape ==
  ASSUME ServerTypeOK, MemoryInv, NEW k \in Tickets, Finish(k)
  PROVE  /\ call[k].state = "running" /\ call[k].env \in Minted /\ call[k].run \in Tickets
         /\ body[call[k].run].env = call[k].env
         /\ call' \in [Tickets -> CallRecords] /\ \A u \in Tickets \ {k} : call'[u] = call[u]
         /\ call'[k].env = call[k].env /\ call'[k].run = call[k].run
         /\ call'[k].state = "settled" /\ call'[k].result = ResultOf(k)
         /\ ResultOf(k) \in {"ok", "failed"} /\ (ResultOf(k) = "ok" => body[call[k].run].result = "ok")
<1>1. call[k].state = "running" /\ call \in [Tickets -> CallRecords]
  BY DEF Finish, ServerTypeOK
<1>2. /\ call[k].env \in Minted /\ call[k].run # None /\ call[k].run \in Tickets
      /\ body[call[k].run].env = call[k].env
  BY <1>1 DEF MemoryInv, CallRecords, MaybeRun
<1>3. ResultOf(k) \in {"ok", "failed"} /\ (ResultOf(k) = "ok" => body[call[k].run].result = "ok")
  BY DEF ResultOf
<1> DEFINE c == [call[k] EXCEPT !.state = "settled", !.result = ResultOf(k)]
<1>4. /\ c \in CallRecords /\ c.env = call[k].env /\ c.run = call[k].run
      /\ c.state = "settled" /\ c.result = ResultOf(k)
  BY <1>1, <1>3 DEF CallRecords, Results
<1>5. call' = [call EXCEPT ![k] = c]
  BY DEF Finish
<1> HIDE DEF c
<1> QED BY <1>1, <1>2, <1>3, <1>4, <1>5

\* An id is used up, given back, or left as it is.
LEMMA SettledCases ==
  ASSUME NEW a, NEW authorised, NEW answer, NEW result
  PROVE  LET s == Settled(a, authorised, answer, result) IN
         s = registry \/ s = With(a, "consumed") \/ (s = With(a, "live") /\ registry[a].state = "reserved")
BY DEF Settled, Released

LEMMA FinishTruth ==
  ASSUME Truth, NEW k \in Tickets, Finish(k), UNCHANGED clientVars
  PROVE  Truth'
<1> DEFINE e == call[k].env
<1>1. /\ UNCHANGED <<ticket, env, cache, body, page, bridgeGen>>
      /\ UNCHANGED <<auth, rec, link, toServer, lapsed, input, slot, pending, late, asked>>
      /\ Minted' = Minted
  BY DEF Finish, laneVars, clientVars, Minted
<1>2. /\ call[k].state = "running" /\ e \in Minted /\ call[k].run \in Tickets
      /\ body[call[k].run].env = e
      /\ call' \in [Tickets -> CallRecords] /\ \A u \in Tickets \ {k} : call'[u] = call[u]
      /\ call'[k].env = e /\ call'[k].run = call[k].run
      /\ call'[k].state = "settled" /\ call'[k].result = ResultOf(k)
      /\ ResultOf(k) \in {"ok", "failed"} /\ (ResultOf(k) = "ok" => body[call[k].run].result = "ok")
  BY FinishShape DEF Truth
<1>3. ResultOf(k) = "ok" => page.did[e] > 0
  BY <1>2 DEF Truth, EffectInv
<1>4. /\ inbox' \in [Envelopes -> Results] /\ listening' \subseteq listening
      /\ \A f \in Envelopes : inbox'[f] = inbox[f] \/ (f = e /\ inbox'[f] = ResultOf(k))
  <2>1. e \in Envelopes /\ ResultOf(k) \in Results /\ inbox \in [Envelopes -> Results]
    BY <1>2 DEF Results, Truth, ServerTypeOK, Minted
  <2> QED BY <2>1, TellFacts DEF Finish
<1>5. RegistryTyped'
  <2>1. \/ registry' = registry
        \/ /\ env[e].what \in ActionIds
           /\ registry' = With(env[e].what, "consumed") \/ registry' = With(env[e].what, "live")
    <3>1. CASE env[e].kind = "click"
      BY <1>2, <3>1, SettledCases DEF Finish, Truth, ClientInv
    <3>2. CASE env[e].kind # "click"
      BY <3>2 DEF Finish
    <3> QED BY <3>1, <3>2
  <2>2. /\ registry \in [ActionIds -> [state : ActionStates, generation : Nat]]
        /\ "consumed" \in ActionStates /\ "live" \in ActionStates
    BY DEF Truth, ServerTypeOK, ActionStates
  <2>3. ASSUME NEW a \in ActionIds PROVE
           /\ With(a, "consumed") \in [ActionIds -> [state : ActionStates, generation : Nat]]
           /\ With(a, "live") \in [ActionIds -> [state : ActionStates, generation : Nat]]
    BY <2>2, RegistryTypes
  <2> QED BY <2>1, <2>2, <2>3 DEF RegistryTyped
<1> HIDE DEF e
<1>6. ServerTypeOK' /\ ClientTypeOK'
  <2>1. listening' \subseteq Envelopes
    BY <1>4 DEF Truth, ServerTypeOK
  <2> QED BY <1>1, <1>2, <1>4, <1>5, <2>1 DEF Truth, ServerTypeOK, ClientTypeOK, RegistryTyped
<1>7. MemoryInv'
  <2>1. ASSUME NEW u \in Tickets
        PROVE  /\ call'[u].state = "new" =>
                     call'[u] = NewCall /\ body'[u] = NewBody /\ ticket'[u] = NewTicket
               /\ call'[u].state # "new" => call'[u].env \in Minted'
               /\ ticket'[u].phase # "new" => body'[u].env \in Minted'
               /\ body'[u].env # None => call'[u].env = body'[u].env /\ call'[u].run = u
               /\ call'[u].run # None => body'[call'[u].run].env = call'[u].env
               /\ call'[u].state = "running" => call'[u].run # None
    <3>1. CASE u = k
      BY <1>1, <1>2, <3>1 DEF Truth, MemoryInv, e
    <3>2. CASE u # k
      BY <1>1, <1>2, <3>2 DEF Truth, MemoryInv
    <3> QED BY <3>1, <3>2
  <2>2. ASSUME NEW f \in Envelopes
        PROVE  /\ cache'[f] # None => body'[cache'[f]].env = f
               /\ rec'[f] # None => call'[rec'[f]].env = f /\ call'[rec'[f]].state # "new"
               /\ f \in toServer' \cup listening' => f \in Minted'
    <3>1. rec[f] \in Tickets \cup {None}
      BY DEF Truth, ServerTypeOK, MaybeRun
    <3> QED BY <1>1, <1>2, <1>4, <3>1 DEF Truth, RunOf, MemoryInv, e
  <2> QED BY <1>1, <2>1, <2>2 DEF Truth, MemoryInv, RunOf, Lapsed
<1>8. EffectInv'
  BY <1>1 DEF Truth, EffectInv, RunOf, Lapsed
<1>9. ResultInv'
  BY <1>1, <1>2, <1>3, <1>4 DEF Truth, ResultInv
<1>10. ClientInv'
  BY <1>1, <1>2, <1>4 DEF Truth, ClientInv
<1> QED BY <1>6, <1>7, <1>8, <1>9, <1>10 DEF Truth

\* A record is forgotten.
LEMMA ForgetTruth ==
  ASSUME Truth, NEW e \in Envelopes, RecordLapses(e) \/ CacheForgets(e), UNCHANGED clientVars
  PROVE  Truth'
<1>1. /\ UNCHANGED <<ticket, registry, env, body, page, bridgeGen>>
      /\ UNCHANGED <<auth, call, link, toServer, inbox, listening, input, slot, pending, late, asked>>
      /\ Minted' = Minted
  BY DEF RecordLapses, CacheForgets, commandVars, laneVars, clientVars, Minted
<1>2. /\ rec' \in [Envelopes -> MaybeRun] /\ cache' \in [Envelopes -> MaybeRun]
      /\ \A f \in Envelopes : /\ rec'[f] = rec[f] \/ (rec'[f] = None /\ <<f, "relay">> \in lapsed')
                              /\ cache'[f] = cache[f] \/ (cache'[f] = None /\ <<f, "executor">> \in lapsed')
      /\ lapsed \subseteq lapsed' /\ lapsed' \subseteq Envelopes \X {"relay", "executor"}
  BY DEF RecordLapses, CacheForgets, commandVars, Truth, ServerTypeOK, MaybeRun
<1>3. ServerTypeOK' /\ ClientTypeOK'
  BY <1>1, <1>2 DEF Truth, ServerTypeOK, ClientTypeOK
<1>4. MemoryInv'
  <2>1. \A u \in Tickets :
               /\ call'[u].state = "new" =>
                     call'[u] = NewCall /\ body'[u] = NewBody /\ ticket'[u] = NewTicket
               /\ call'[u].state # "new" => call'[u].env \in Minted'
               /\ ticket'[u].phase # "new" => body'[u].env \in Minted'
               /\ body'[u].env # None => call'[u].env = body'[u].env /\ call'[u].run = u
               /\ call'[u].run # None => body'[call'[u].run].env = call'[u].env
               /\ call'[u].state = "running" => call'[u].run # None
    BY <1>1 DEF Truth, MemoryInv
  <2>2. ASSUME NEW f \in Envelopes
        PROVE  /\ cache'[f] # None => body'[cache'[f]].env = f
               /\ rec'[f] # None => call'[rec'[f]].env = f /\ call'[rec'[f]].state # "new"
               /\ f \in toServer' \cup listening' => f \in Minted'
    BY <1>1, <1>2 DEF Truth, RunOf, MemoryInv
  <2>3. ASSUME NEW f \in Envelopes, NEW u \in Tickets, body'[u].env = f
        PROVE  /\ cache'[f] # None \/ <<f, "executor">> \in lapsed'
               /\ rec'[f] # None \/ <<f, "relay">> \in lapsed'
    BY <1>1, <1>2, <2>3 DEF Truth, MemoryInv, RunOf, Lapsed
  <2>4. ASSUME NEW f \in Envelopes, NEW u \in Tickets, NEW v \in Tickets,
               body'[u].env = f, body'[v].env = f, u # v
        PROVE  <<f, "executor">> \in lapsed' /\ <<f, "relay">> \in lapsed'
    BY <1>1, <1>2, <2>4 DEF Truth, MemoryInv, RunOf, Lapsed
  <2> QED BY <2>1, <2>2, <2>3, <2>4 DEF MemoryInv, RunOf, Lapsed
<1>5. EffectInv'
  BY <1>1, <1>2 DEF Truth, EffectInv, RunOf, Lapsed
<1>6. ResultInv' /\ ClientInv'
  BY <1>1 DEF Truth, ResultInv, ClientInv
<1> QED BY <1>3, <1>4, <1>5, <1>6 DEF Truth

LEMMA RelayTruth ==
  ASSUME LaneInv, LaneInv', Truth, RelayStep, UNCHANGED clientVars
  PROVE  Truth'
<1>1. ASSUME NEW e \in Envelopes, Receive(e) PROVE Truth'
  BY <1>1, ReplayTruth, UnauthorisedTruth, ExecuteTruth DEF Receive
<1>2. CASE Reconnect
  <2>1. /\ UNCHANGED <<ticket, registry, env, cache, body, page, bridgeGen>>
        /\ UNCHANGED <<auth, call, rec, lapsed, toServer, inbox, listening, input, slot, pending, late, asked>>
        /\ Minted' = Minted /\ link' = TRUE
    BY <1>2 DEF Reconnect, commandVars, laneVars, clientVars, Minted
  <2>2. ServerTypeOK' /\ ClientTypeOK' /\ MemoryInv'
    BY <2>1 DEF Truth, ServerTypeOK, ClientTypeOK, MemoryInv, RunOf, Lapsed
  <2>3. EffectInv' /\ ResultInv' /\ ClientInv'
    BY <2>1 DEF Truth, EffectInv, ResultInv, ClientInv, RunOf, Lapsed
  <2> QED BY <2>2, <2>3 DEF Truth
<1> QED BY <1>1, <1>2, FinishTruth, ForgetTruth DEF RelayStep

--------------------------------------------------------------------------------
(* Steps of the client.                                                    *)

\* The server's side of what is remembered, when nothing of it changes.
LEMMA ServerUntouched ==
  ASSUME Truth, UNCHANGED <<ticket, cache, body, page, call, rec, listening, lapsed>>,
         Minted \subseteq Minted', toServer' \subseteq Minted'
  PROVE  MemoryInv' /\ EffectInv'
<1>1. MemoryInv'
  BY DEF Truth, MemoryInv, RunOf, Lapsed
<1>2. EffectInv'
  BY DEF Truth, EffectInv, RunOf, Lapsed
<1> QED BY <1>1, <1>2

\* What the client keeps of a kind once its envelope `e` has come to `result`.
LEMMA ConcludesFacts ==
  ASSUME ClientTypeOK, NEW e \in Minted, NEW kind \in Kinds, NEW result \in {"ok", "failed", "unknown"},
         env[e].what \in Whats, input \in Texts \cup {None},
         Concludes(e, result, kind, env[e].what, e)
  PROVE  /\ slot' \in [Kinds -> MaybeEnv] /\ asked' \in [Kinds -> AskRecords]
         /\ input' \in Texts \cup {None}
         /\ slot'[kind] = Kept(result, e)
         /\ asked'[kind].what = env[e].what /\ asked'[kind].intent = e /\ asked'[kind].told = result
         /\ \A k \in Kinds \ {kind} : slot'[k] = slot[k] /\ asked'[k] = asked[k]
<1>1. e \in Envelopes
  BY DEF Minted
<1> DEFINE a == [what |-> env[e].what, intent |-> e, told |-> result]
<1>2. a \in AskRecords /\ a.what = env[e].what /\ a.intent = e /\ a.told = result
  BY <1>1 DEF AskRecords, MaybeEnv, Results
<1>3. asked' = [asked EXCEPT ![kind] = a]
  BY DEF Concludes
<1> HIDE DEF a
<1>4. Kept(result, e) \in MaybeEnv
  BY <1>1 DEF Kept, MaybeEnv
<1>5. slot' = [slot EXCEPT ![kind] = Kept(result, e)] /\ input' \in {None, input}
  BY DEF Concludes
<1> QED BY <1>2, <1>3, <1>4, <1>5 DEF ClientTypeOK

\* An answer, or the end of the patience, for an envelope that is waited for.
LEMMA ResolvesClient ==
  ASSUME ServerTypeOK, ClientTypeOK, ResultInv, ClientInv, NEW e \in pending,
         NEW result \in {"ok", "failed", "unknown"}, Resolves(e, result),
         result = "ok" => page.did[e] > 0,
         UNCHANGED <<env, page, late>>, inbox' \in [Envelopes -> Results],
         \A f \in Envelopes : inbox'[f] = inbox[f] \/ inbox'[f] = "none"
  PROVE  ClientTypeOK' /\ ClientInv'
<1> DEFINE kind == env[e].kind
<1>1. /\ e \in Minted /\ kind \in Kinds /\ e \in Envelopes /\ e # None
      /\ slot[kind] = e /\ asked[kind].intent = e
  BY CommandsAssumption DEF ClientInv, Minted, None
<1>2. env[e].what \in Whats /\ input \in Texts \cup {None}
  BY <1>1 DEF ServerTypeOK, EnvRecords, ClientTypeOK
<1>3. Concludes(e, result, kind, env[e].what, e)
  BY <1>1 DEF Resolves
<1> HIDE DEF kind
<1>4. /\ slot' \in [Kinds -> MaybeEnv] /\ asked' \in [Kinds -> AskRecords]
      /\ input' \in Texts \cup {None}
      /\ slot'[kind] = Kept(result, e)
      /\ asked'[kind].what = env[e].what /\ asked'[kind].intent = e /\ asked'[kind].told = result
      /\ \A k \in Kinds \ {kind} : slot'[k] = slot[k] /\ asked'[k] = asked[k]
  BY <1>1, <1>2, <1>3, ConcludesFacts
<1>5. pending' = pending \ {e} /\ pending' \subseteq Minted /\ Minted' = Minted
  BY DEF Resolves, ClientInv, Minted
<1>6. ClientTypeOK'
  BY <1>4, <1>5 DEF ClientTypeOK, Minted
<1>7. ASSUME NEW d \in pending' PROVE slot'[env[d].kind] = d /\ asked'[env[d].kind].told = "none"
  <2>1. d \in pending /\ d # e /\ env[d].kind \in Kinds /\ slot[env[d].kind] = d
    BY <1>5 DEF ClientInv
  <2>2. env[d].kind # kind
    BY <1>1, <2>1
  <2> QED BY <1>4, <2>1, <2>2 DEF ClientInv
<1>8. ASSUME NEW k \in Kinds
      PROVE  /\ slot'[k] # None =>
                   /\ slot'[k] \in Minted /\ env[slot'[k]].kind = k
                   /\ asked'[k].what = env[slot'[k]].what /\ asked'[k].intent = slot'[k]
                   /\ \/ asked'[k].told = "unknown"
                      \/ asked'[k].told = "none" /\ slot'[k] \in pending'
             /\ asked'[k].told = "unknown" => slot'[k] # None
             /\ asked'[k].told = "ok" =>
                   /\ asked'[k].intent \in Minted
                   /\ env[asked'[k].intent].what = asked'[k].what
                   /\ page.did[asked'[k].intent] > 0
  <2>1. CASE k = kind
    BY <1>1, <1>4, <2>1 DEF Kept, kind
  <2>2. CASE k # kind
    <3>1. slot'[k] = slot[k] /\ asked'[k] = asked[k]
      BY <1>4, <2>2
    <3>2. slot[k] # e
      BY <1>1, <2>2 DEF ClientInv, kind
    <3> QED BY <1>5, <3>1, <3>2 DEF ClientInv
  <2> QED BY <2>1, <2>2
<1>9. \A f \in Envelopes : inbox'[f] # "none" \/ late'[f] # "none" => f \in Minted
  BY DEF ClientInv
<1>10. ClientInv'
  BY <1>5, <1>7, <1>8, <1>9 DEF ClientInv
<1> QED BY <1>6, <1>10

LEMMA GetAnswerTruth == ASSUME Truth, NEW e \in Envelopes, GetAnswer(e) PROVE Truth'
<1>1. /\ UNCHANGED <<ticket, registry, env, cache, body, page, bridgeGen>>
      /\ UNCHANGED <<auth, call, rec, listening, link, toServer, lapsed>>
      /\ Minted' = Minted
  BY DEF GetAnswer, commandVars, laneVars, Minted
<1>2. /\ inbox' \in [Envelopes -> Results] /\ inbox[e] \in {"ok", "failed"}
      /\ \A f \in Envelopes : inbox'[f] = inbox[f] \/ inbox'[f] = "none"
      /\ e \in Minted /\ (inbox[e] = "ok" => page.did[e] > 0)
  BY DEF GetAnswer, Truth, ServerTypeOK, Results, ClientInv, ResultInv
<1>3. ServerTypeOK'
  BY <1>1, <1>2 DEF Truth, ServerTypeOK
<1>4. MemoryInv' /\ EffectInv'
  BY <1>1, ServerUntouched DEF Truth, MemoryInv, Minted, ServerTypeOK
<1>5. CASE e \in pending
  <2>1. ClientTypeOK' /\ ClientInv' /\ late' = late
    BY <1>1, <1>2, <1>5, ResolvesClient DEF GetAnswer, Truth
  <2>2. ResultInv'
    BY <1>1, <1>2, <2>1 DEF Truth, ResultInv
  <2> QED BY <1>3, <1>4, <2>1, <2>2 DEF Truth
<1>6. CASE e \notin pending
  <2>1. /\ UNCHANGED <<input, slot, pending, asked>>
        /\ late' = late \/ late' = [late EXCEPT ![e] = inbox[e]]
    BY <1>6 DEF GetAnswer
  <2>2. /\ late' \in [Envelopes -> Results]
        /\ \A f \in Envelopes : late'[f] = late[f] \/ (f = e /\ late'[f] = inbox[e])
    BY <1>2, <2>1 DEF Truth, ClientTypeOK, Results
  <2>3. ClientTypeOK'
    BY <2>1, <2>2 DEF Truth, ClientTypeOK
  <2>4. ResultInv'
    BY <1>1, <1>2, <2>2 DEF Truth, ResultInv
  <2>5. ClientInv'
    BY <1>1, <1>2, <2>1, <2>2 DEF Truth, ClientInv
  <2> QED BY <1>3, <1>4, <2>3, <2>4, <2>5 DEF Truth
<1> QED BY <1>5, <1>6

LEMMA GivesUpTruth == ASSUME Truth, NEW e \in Envelopes, GivesUp(e) PROVE Truth'
<1>1. /\ UNCHANGED <<ticket, registry, env, cache, body, page, bridgeGen>>
      /\ UNCHANGED <<auth, call, rec, listening, link, toServer, inbox, lapsed, late>>
      /\ Minted' = Minted
  BY DEF GivesUp, commandVars, laneVars, relayVars, Minted
<1>2. ServerTypeOK'
  BY <1>1 DEF Truth, ServerTypeOK
<1>3. MemoryInv' /\ EffectInv'
  BY <1>1, ServerUntouched DEF Truth, MemoryInv, Minted, ServerTypeOK
<1>4. ClientTypeOK' /\ ClientInv'
  <2>1. inbox' \in [Envelopes -> Results]
    BY <1>1 DEF Truth, ServerTypeOK
  <2> QED BY <1>1, <2>1, ResolvesClient DEF GivesUp, Truth
<1>5. ResultInv'
  BY <1>1 DEF Truth, ResultInv
<1> QED BY <1>2, <1>3, <1>4, <1>5 DEF Truth

LEMMA LosesSocketTruth == ASSUME Truth, LosesSocket PROVE Truth'
<1>1. /\ UNCHANGED <<ticket, registry, env, cache, body, page, bridgeGen, auth, call, input, slot>>
      /\ Minted' = Minted /\ link' = FALSE /\ listening' = {} /\ toServer' = {} /\ pending' = {}
      /\ inbox' = [e \in Envelopes |-> "none"] /\ late' = [e \in Envelopes |-> "none"]
  BY DEF LosesSocket, Drop, commandVars, laneVars, Minted
<1>2. /\ rec' \in [Envelopes -> MaybeRun]
      /\ \A f \in Envelopes : rec'[f] = rec[f] \/ (rec'[f] = None /\ <<f, "relay">> \in lapsed')
      /\ lapsed \subseteq lapsed' /\ lapsed' \subseteq Envelopes \X {"relay", "executor"}
  BY DEF LosesSocket, Drop, KeyOf, Truth, ServerTypeOK, MaybeRun
<1>3. /\ asked' \in [Kinds -> AskRecords]
      /\ \A kind \in Kinds :
            /\ asked'[kind].what = asked[kind].what /\ asked'[kind].intent = asked[kind].intent
            /\ asked'[kind].told = IF \E e \in pending : env[e].kind = kind THEN "unknown" ELSE asked[kind].told
  <2>1. \A kind \in Kinds : asked[kind] \in AskRecords
    BY DEF Truth, ClientTypeOK
  <2>2. ASSUME NEW a \in AskRecords
        PROVE  LET u == [a EXCEPT !.told = "unknown"] IN
               u \in AskRecords /\ u.what = a.what /\ u.intent = a.intent /\ u.told = "unknown"
    BY DEF AskRecords
  <2>3. asked' = [kind \in Kinds |-> IF \E e \in pending : env[e].kind = kind
                                     THEN [asked[kind] EXCEPT !.told = "unknown"] ELSE asked[kind]]
    BY DEF LosesSocket
  <2> QED BY <2>1, <2>2, <2>3
<1>4. ServerTypeOK' /\ ClientTypeOK'
  BY <1>1, <1>2, <1>3 DEF Truth, ServerTypeOK, ClientTypeOK, Results
<1>5. MemoryInv'
  <2>1. \A u \in Tickets :
               /\ call'[u].state = "new" =>
                     call'[u] = NewCall /\ body'[u] = NewBody /\ ticket'[u] = NewTicket
               /\ call'[u].state # "new" => call'[u].env \in Minted'
               /\ ticket'[u].phase # "new" => body'[u].env \in Minted'
               /\ body'[u].env # None => call'[u].env = body'[u].env /\ call'[u].run = u
               /\ call'[u].run # None => body'[call'[u].run].env = call'[u].env
               /\ call'[u].state = "running" => call'[u].run # None
    BY <1>1 DEF Truth, MemoryInv
  <2>2. ASSUME NEW f \in Envelopes
        PROVE  /\ cache'[f] # None => body'[cache'[f]].env = f
               /\ rec'[f] # None => call'[rec'[f]].env = f /\ call'[rec'[f]].state # "new"
               /\ f \in toServer' \cup listening' => f \in Minted'
    BY <1>1, <1>2 DEF Truth, RunOf, MemoryInv
  <2>3. ASSUME NEW f \in Envelopes, NEW u \in Tickets, body'[u].env = f
        PROVE  /\ cache'[f] # None \/ <<f, "executor">> \in lapsed'
               /\ rec'[f] # None \/ <<f, "relay">> \in lapsed'
    BY <1>1, <1>2, <2>3 DEF Truth, MemoryInv, RunOf, Lapsed
  <2>4. ASSUME NEW f \in Envelopes, NEW u \in Tickets, NEW v \in Tickets,
               body'[u].env = f, body'[v].env = f, u # v
        PROVE  <<f, "executor">> \in lapsed' /\ <<f, "relay">> \in lapsed'
    BY <1>1, <1>2, <2>4 DEF Truth, MemoryInv, RunOf, Lapsed
  <2> QED BY <2>1, <2>2, <2>3, <2>4 DEF MemoryInv, RunOf, Lapsed
<1>6. EffectInv'
  BY <1>1, <1>2 DEF Truth, EffectInv, RunOf, Lapsed
<1>7. ResultInv'
  BY <1>1 DEF Truth, ResultInv
<1>8. ClientInv'
  <2>1. ASSUME NEW k \in Kinds
        PROVE  /\ slot[k] # None =>
                     /\ slot[k] \in Minted /\ env[slot[k]].kind = k
                     /\ asked'[k].what = env[slot[k]].what /\ asked'[k].intent = slot[k]
                     /\ asked'[k].told = "unknown"
               /\ asked'[k].told = "unknown" => slot[k] # None
               /\ asked'[k].told = "ok" => asked[k].told = "ok"
    <3>1. \A e \in pending : e # None
      BY CommandsAssumption DEF Truth, ClientInv, Minted, None
    <3> QED BY <1>3, <3>1 DEF Truth, ClientInv
  <2> QED BY <1>1, <1>3, <2>1 DEF Truth, ClientInv
<1> QED BY <1>4, <1>5, <1>6, <1>7, <1>8 DEF Truth

\* To ask again while the outcome is unknown is to use the same envelope; what is asked
\* for with a fresh one has not been asked for before.
LEMMA SubmitShape ==
  ASSUME Truth, NEW kind \in Kinds, NEW what \in Whats, NEW e \in Envelopes, Submit(kind, what, e)
  PROVE  /\ Intent(kind, what, e) = e
         /\ \A d \in pending : env[d].kind # kind
         /\ Minted' = Minted \cup {e} /\ env' \in [Envelopes -> EnvRecords]
         /\ \A d \in Minted : env'[d] = env[d]
         /\ env'[e].kind = kind /\ env'[e].what = what /\ env'[e].intent = e
         /\ \A d \in Envelopes \ {e} : env'[d] = env[d]
<1>1. /\ None \notin Envelopes /\ slot[kind] \in Envelopes \cup {None}
      /\ env \in [Envelopes -> EnvRecords]
  BY CommandsAssumption DEF None, Truth, ClientTypeOK, ServerTypeOK, MaybeEnv
<1>2. \A d \in pending : env[d].kind # kind
  BY DEF Submit
<1>3. CASE slot[kind] # None /\ env[slot[kind]].what = what
  <2>1. e = slot[kind] /\ e \in Minted /\ env[e].kind = kind
    BY <1>3 DEF Submit, Enveloped, Truth, ClientInv
  <2>2. asked[kind].intent = e /\ asked[kind].what = what /\ asked[kind].told = "unknown"
    BY <1>2, <1>3, <2>1 DEF Truth, ClientInv
  <2>3. env' = env /\ Intent(kind, what, e) = e
    BY <2>1, <2>2 DEF Submit, Intent
  <2>4. env[e].intent = e /\ Minted' = Minted
    BY <2>1, <2>3 DEF Truth, ClientInv, Minted
  <2> QED BY <1>1, <1>2, <1>3, <2>1, <2>3, <2>4
<1>4. CASE ~(slot[kind] # None /\ env[slot[kind]].what = what)
  <2>1. e \notin Minted
    BY <1>4 DEF Submit, Enveloped, Fresh
  <2>2. Intent(kind, what, e) = e
    BY <1>4 DEF Intent, Truth, ClientInv
  <2> DEFINE r == [kind |-> kind, what |-> what, intent |-> e]
  <2>3. env' = [env EXCEPT ![e] = r]
    BY <2>1, <2>2 DEF Submit
  <2>4. r \in EnvRecords /\ r.kind = kind /\ r.what = what /\ r.intent = e /\ r # NoEnv
    BY DEF EnvRecords, MaybeEnv, NoEnv, Kinds
  <2> HIDE DEF r
  <2>5. env' \in [Envelopes -> EnvRecords] /\ env'[e] = r /\ \A d \in Envelopes \ {e} : env'[d] = env[d]
    BY <1>1, <2>3, <2>4
  <2>6. Minted' = Minted \cup {e}
    BY <2>4, <2>5 DEF Minted
  <2>7. \A d \in Minted : env'[d] = env[d]
    BY <2>1, <2>5 DEF Minted
  <2> QED BY <1>2, <2>2, <2>4, <2>5, <2>6, <2>7
<1> QED BY <1>3, <1>4

LEMMA SubmitTruth ==
  ASSUME Truth, NEW kind \in Kinds, NEW what \in Whats, NEW e \in Envelopes, Submit(kind, what, e),
         kind = "click" => what \in ActionIds
  PROVE  Truth'
<1>1. /\ UNCHANGED <<ticket, registry, cache, body, page, bridgeGen>>
      /\ UNCHANGED <<auth, call, rec, listening, link, inbox, lapsed>>
  BY DEF Submit, laneVars
<1>2. /\ Intent(kind, what, e) = e
      /\ \A d \in pending : env[d].kind # kind
      /\ Minted' = Minted \cup {e} /\ env' \in [Envelopes -> EnvRecords]
      /\ \A d \in Minted : env'[d] = env[d]
      /\ env'[e].kind = kind /\ env'[e].what = what /\ env'[e].intent = e
      /\ e # None
  BY SubmitShape, CommandsAssumption DEF None
<1>3. ServerTypeOK' /\ toServer' \subseteq Minted'
  <2>1. toServer' \subseteq toServer \cup {e} /\ toServer \subseteq Minted /\ Minted' \subseteq Envelopes
    BY DEF Submit, Truth, MemoryInv, ServerTypeOK, Minted
  <2> QED BY <1>1, <1>2, <2>1 DEF Truth, ServerTypeOK
<1>4. MemoryInv' /\ EffectInv'
  BY <1>1, <1>2, <1>3, ServerUntouched
<1>5. \A d \in Minted' : env'[d].kind \in Kinds /\ env'[d].intent = d
                         /\ (env'[d].kind = "click" => env'[d].what \in ActionIds)
  BY <1>2 DEF Truth, ClientInv
<1>6. CASE late[e] # "none"
  <2>1. e \in Minted /\ late[e] \in {"ok", "failed"} /\ (late[e] = "ok" => page.did[e] > 0)
    BY <1>6 DEF Truth, ClientTypeOK, Results, ClientInv, ResultInv
  <2>2. env'[e] = env[e] /\ env[e].what = what /\ Minted' = Minted /\ \A d \in Minted : env'[d] = env[d]
    BY <1>2, <2>1
  <2>3. Concludes(e, late[e], kind, env[e].what, e) /\ late' = [late EXCEPT ![e] = "none"] /\ pending' = pending
    BY <1>2, <1>6, <2>2 DEF Submit
  <2>4. /\ slot' \in [Kinds -> MaybeEnv] /\ asked' \in [Kinds -> AskRecords]
        /\ input' \in Texts \cup {None}
        /\ slot'[kind] = Kept(late[e], e)
        /\ asked'[kind].what = env[e].what /\ asked'[kind].intent = e /\ asked'[kind].told = late[e]
        /\ \A k \in Kinds \ {kind} : slot'[k] = slot[k] /\ asked'[k] = asked[k]
    <3>1. ClientTypeOK /\ env[e].what \in Whats /\ input \in Texts \cup {None}
      BY <2>2 DEF Truth, ClientTypeOK
    <3> QED BY <2>1, <2>3, <3>1, ConcludesFacts
  <2>5. slot'[kind] = None
    BY <2>1, <2>4 DEF Kept
  <2>6. late' \in [Envelopes -> Results] /\ \A f \in Envelopes : late'[f] = late[f] \/ late'[f] = "none"
    BY <2>3 DEF Truth, ClientTypeOK, Results
  <2>7. ClientTypeOK'
    BY <2>3, <2>4, <2>6 DEF Truth, ClientTypeOK
  <2>8. ResultInv'
    BY <1>1, <2>6 DEF Truth, ResultInv
  <2>9. ClientInv'
    <3>1. \A d \in pending : d \in Minted /\ env[d].kind \in Kinds \ {kind}
      BY <1>2 DEF Truth, ClientInv
    <3>2. \A d \in pending' : slot'[env'[d].kind] = d /\ asked'[env'[d].kind].told = "none"
      BY <2>2, <2>3, <2>4, <3>1 DEF Truth, ClientInv
    <3>3. ASSUME NEW k \in Kinds
          PROVE  /\ slot'[k] # None =>
                       /\ slot'[k] \in Minted' /\ env'[slot'[k]].kind = k
                       /\ asked'[k].what = env'[slot'[k]].what /\ asked'[k].intent = slot'[k]
                       /\ \/ asked'[k].told = "unknown"
                          \/ asked'[k].told = "none" /\ slot'[k] \in pending'
                 /\ asked'[k].told = "unknown" => slot'[k] # None
                 /\ asked'[k].told = "ok" =>
                       /\ asked'[k].intent \in Minted'
                       /\ env'[asked'[k].intent].what = asked'[k].what
                       /\ page'.did[asked'[k].intent] > 0
      <4>1. CASE k = kind
        BY <1>1, <2>1, <2>2, <2>4, <2>5, <4>1
      <4>2. CASE k # kind
        BY <1>1, <2>2, <2>3, <2>4, <4>2 DEF Truth, ClientInv
      <4> QED BY <4>1, <4>2
    <3>4. pending' \subseteq Minted' /\ \A f \in Envelopes : inbox'[f] # "none" \/ late'[f] # "none" => f \in Minted'
      BY <1>1, <2>2, <2>3, <2>6 DEF Truth, ClientInv
    <3> QED BY <1>5, <3>2, <3>3, <3>4 DEF ClientInv
  <2> QED BY <1>3, <1>4, <2>7, <2>8, <2>9 DEF Truth
<1>7. CASE late[e] = "none"
  <2> DEFINE a == [what |-> what, intent |-> e, told |-> "none"]
  <2>1. /\ pending' = pending \cup {e} /\ slot' = [slot EXCEPT ![kind] = e]
        /\ asked' = [asked EXCEPT ![kind] = a] /\ UNCHANGED <<input, late>>
    BY <1>2, <1>7 DEF Submit
  <2>2. a \in AskRecords /\ a.what = what /\ a.intent = e /\ a.told = "none"
    BY DEF AskRecords, MaybeEnv, Results
  <2> HIDE DEF a
  <2>3. /\ slot' \in [Kinds -> MaybeEnv] /\ asked' \in [Kinds -> AskRecords]
        /\ slot'[kind] = e /\ asked'[kind] = a
        /\ \A k \in Kinds \ {kind} : slot'[k] = slot[k] /\ asked'[k] = asked[k]
    BY <2>1, <2>2 DEF Truth, ClientTypeOK, MaybeEnv
  <2>4. ClientTypeOK'
    BY <2>1, <2>3 DEF Truth, ClientTypeOK
  <2>5. ResultInv'
    BY <1>1, <2>1 DEF Truth, ResultInv
  <2>6. ClientInv'
    <3>1. \A d \in pending : d \in Minted /\ env[d].kind \in Kinds \ {kind}
      BY <1>2 DEF Truth, ClientInv
    <3>2. \A d \in pending' : slot'[env'[d].kind] = d /\ asked'[env'[d].kind].told = "none"
      BY <1>2, <2>1, <2>2, <2>3, <3>1 DEF Truth, ClientInv
    <3>3. ASSUME NEW k \in Kinds
          PROVE  /\ slot'[k] # None =>
                       /\ slot'[k] \in Minted' /\ env'[slot'[k]].kind = k
                       /\ asked'[k].what = env'[slot'[k]].what /\ asked'[k].intent = slot'[k]
                       /\ \/ asked'[k].told = "unknown"
                          \/ asked'[k].told = "none" /\ slot'[k] \in pending'
                 /\ asked'[k].told = "unknown" => slot'[k] # None
                 /\ asked'[k].told = "ok" =>
                       /\ asked'[k].intent \in Minted'
                       /\ env'[asked'[k].intent].what = asked'[k].what
                       /\ page'.did[asked'[k].intent] > 0
      <4>1. CASE k = kind
        BY <1>2, <2>1, <2>2, <2>3, <4>1
      <4>2. CASE k # kind
        BY <1>1, <1>2, <2>1, <2>3, <4>2 DEF Truth, ClientInv
      <4> QED BY <4>1, <4>2
    <3>4. pending' \subseteq Minted' /\ \A f \in Envelopes : inbox'[f] # "none" \/ late'[f] # "none" => f \in Minted'
      BY <1>1, <1>2, <2>1 DEF Truth, ClientInv
    <3> QED BY <1>5, <3>2, <3>3, <3>4 DEF ClientInv
  <2> QED BY <1>3, <1>4, <2>4, <2>5, <2>6 DEF Truth
<1> QED BY <1>6, <1>7

LEMMA ClientTruth == ASSUME Truth, ClientStep PROVE Truth'
<1>1. ASSUME NEW text \in Texts, Types(text) PROVE Truth'
  <2>1. /\ UNCHANGED <<ticket, registry, env, cache, body, page, bridgeGen>>
        /\ UNCHANGED <<auth, call, rec, listening, link, toServer, inbox, lapsed>>
        /\ UNCHANGED <<slot, pending, late, asked>> /\ input' \in Texts /\ Minted' = Minted
    BY <1>1 DEF Types, commandVars, laneVars, relayVars, Minted
  <2>2. ServerTypeOK' /\ ClientTypeOK'
    BY <2>1 DEF Truth, ServerTypeOK, ClientTypeOK
  <2>3. MemoryInv' /\ EffectInv'
    BY <2>1, ServerUntouched DEF Truth, MemoryInv, Minted, ServerTypeOK
  <2>4. ResultInv' /\ ClientInv'
    BY <2>1 DEF Truth, ResultInv, ClientInv
  <2> QED BY <2>2, <2>3, <2>4 DEF Truth
<1>2. ASSUME NEW e \in Envelopes, Submit("send", input, e) PROVE Truth'
  BY <1>2, SubmitTruth DEF Kinds, Whats, Truth, ClientTypeOK
<1>3. ASSUME NEW e \in Envelopes, Observed(bridgeGen) \in Unsettled(bridgeGen),
             Submit("click", Observed(bridgeGen), e)
      PROVE  Truth'
  <2>1. Observed(bridgeGen) \in ActionIds
    BY <1>3 DEF Unsettled
  <2> QED BY <1>3, <2>1, SubmitTruth DEF Kinds, Whats
<1> QED BY <1>1, <1>2, <1>3, GetAnswerTruth, GivesUpTruth, LosesSocketTruth DEF ClientStep, Asks

\* Everything that is remembered and told, with the lane under it.
TruthFacts == LaneFacts /\ Truth

LEMMA InitTruth == Init => TruthFacts
<1> SUFFICES ASSUME Init PROVE TruthFacts
  OBVIOUS
<1>1. LaneFacts
  BY LaneInduction
<1>2. /\ RegistryInit /\ env = [e \in Envelopes |-> NoEnv] /\ cache = [e \in Envelopes |-> None]
      /\ body = [t \in Tickets |-> NewBody] /\ ticket = [t \in Tickets |-> NewTicket]
      /\ page = [button |-> TRUE, ran |-> [i \in Envelopes |-> 0], did |-> [i \in Envelopes |-> 0],
                 clicked |-> [a \in ActionIds |-> 0]]
      /\ auth \in BOOLEAN /\ call = [k \in Tickets |-> NewCall] /\ rec = [e \in Envelopes |-> None]
      /\ listening = {} /\ link = TRUE /\ toServer = {} /\ inbox = [e \in Envelopes |-> "none"] /\ lapsed = {}
      /\ input \in Texts /\ slot = [kind \in Kinds |-> None] /\ pending = {}
      /\ late = [e \in Envelopes |-> "none"] /\ asked = [kind \in Kinds |-> NoAsk]
  BY DEF Init, RelayInit, CommandsInit, LaneInit
<1>3. /\ NoEnv \in EnvRecords /\ NewBody \in BodyRecords /\ NewCall \in CallRecords /\ NoAsk \in AskRecords
      /\ NewBody.env = None /\ NewCall.run = None /\ NewCall.state = "new" /\ NewTicket.phase = "new"
      /\ ~NewBody.authorised /\ ~NewBody.acted /\ NewBody.result = "none"
      /\ NewCall.result = "none" /\ NoAsk.told = "none"
  BY DEF NoEnv, EnvRecords, NewBody, BodyRecords, NewCall, CallRecords, NoAsk, AskRecords, MaybeEnv,
         MaybeRun, Results, Whats, NewTicket
<1>4. Unminted \in [state : ActionStates, generation : Nat] /\ page \in PageRecords
  BY <1>2 DEF Unminted, ActionStates, PageRecords
<1>5. Minted = {}
  BY <1>2 DEF Minted
<1>6. ServerTypeOK
  BY <1>1, <1>2, <1>3, <1>4 DEF ServerTypeOK, RegistryInit, MaybeRun, Results, LaneFacts
<1>7. ClientTypeOK
  BY <1>2, <1>3 DEF ClientTypeOK, MaybeEnv, Results
<1>8. MemoryInv
  BY <1>2, <1>3, CommandsAssumption DEF MemoryInv, RunOf, None
<1>9. EffectInv
  BY <1>2, <1>3 DEF EffectInv
<1>10. ResultInv /\ ClientInv
  BY <1>2, <1>3, <1>5 DEF ResultInv, ClientInv
<1> QED BY <1>1, <1>6, <1>7, <1>8, <1>9, <1>10 DEF TruthFacts, Truth

LEMMA StepTruth == TruthFacts /\ [Next]_vars => TruthFacts'
<1> SUFFICES ASSUME TruthFacts, [Next]_vars PROVE TruthFacts'
  OBVIOUS
<1>1. LaneInv /\ Truth /\ LaneFacts' /\ LaneInv'
  BY LaneInduction DEF TruthFacts, LaneFacts
<1>2. CASE UNCHANGED <<commandVars, relayVars, clientVars>>
  <2>1. /\ UNCHANGED <<ticket, registry, env, cache, body, page, bridgeGen>>
        /\ UNCHANGED <<auth, call, rec, listening, link, toServer, inbox, lapsed>>
        /\ UNCHANGED <<input, slot, pending, late, asked>> /\ Minted' = Minted
    BY <1>2 DEF commandVars, laneVars, relayVars, clientVars, Minted
  <2>2. ServerTypeOK' /\ ClientTypeOK'
    BY <1>1, <2>1 DEF Truth, ServerTypeOK, ClientTypeOK
  <2>3. MemoryInv' /\ EffectInv'
    BY <1>1, <2>1, ServerUntouched DEF Truth, MemoryInv, Minted, ServerTypeOK
  <2>4. ResultInv' /\ ClientInv'
    BY <1>1, <2>1 DEF Truth, ResultInv, ClientInv
  <2> QED BY <1>1, <2>2, <2>3, <2>4 DEF TruthFacts, Truth
<1> QED BY <1>1, <1>2, StepCases, TicketTruth, RegistryTruth, RelayTruth, ClientTruth DEF TruthFacts

\* "Message sent" and "Approved" are never said of something Cursor has not been made to
\* do, nor of another message or button than the one asked for (commandResultCache,
\* socketOperationCache, lateCommandResults).
THEOREM NothingIsFalselyReported == Spec => []ToldOkMeansDone
<1>1. TruthFacts => ToldOkMeansDone
  BY DEF TruthFacts, Truth, ClientInv, ToldOkMeansDone
<1> QED BY <1>1, InitTruth, StepTruth, PTL DEF Spec

--------------------------------------------------------------------------------
(* The ids of buttons are used once.                                       *)

\* What keeps an id's invariant: no click of it comes into hand, none is made, and the id
\* stays as it is unless it is used up.
LEMMA IdKept ==
  ASSUME NEW a \in ActionIds, IdInv(a), LaneTypeOK, generation' \in Nat, generation <= generation',
         registry'[a].generation = registry[a].generation,
         \/ registry'[a].state = registry[a].state
         \/ Over(a)' /\ registry[a].state # "unminted",
         page'.clicked[a] = page.clicked[a],
         \A t \in Tickets :
            /\ Clicks(t, a)' <=> Clicks(t, a)
            /\ Threat(t, a)' => Threat(t, a)
            /\ Clicked(t, a)' <=> Clicked(t, a)
            /\ Handles(t, a)' => Handles(t, a)
            /\ Handles(t, a) => Handles(t, a)' \/ registry'[a].state # "reserved"
            /\ Clicks(t, a) /\ InTheLane(t)' =>
                  InTheLane(t) /\ ticket'[t].generation = ticket[t].generation
            /\ /\ ticket'[t].answer \in {"generation_changed", "cancelled"}
               /\ Threat(t, a)' \/ Clicked(t, a)'
               => ticket[t].answer \in {"generation_changed", "cancelled"} \/ Over(a)'
  PROVE  IdInv(a)'
<1>1. \A t \in Tickets : Clicked(t, a) => Clicks(t, a)
  BY DEF Clicked
<1>2. \A t \in Tickets : Threat(t, a) => Clicks(t, a)
  BY DEF Threat
<1>3. Over(a) => registry[a].state # "unminted" /\ (Over(a)' \/ registry'[a].state = registry[a].state)
  BY DEF Over
<1>4. /\ registry'[a].state # "unminted" => registry'[a].generation # 0
      /\ registry'[a].state = "unminted" <=> registry[a].state = "unminted"
  BY DEF IdInv, Over
<1>5. registry'[a].state \in {"unminted", "live"} =>
          \A t \in Tickets : ~Threat(t, a)' /\ ~Clicked(t, a)' /\ ~Handles(t, a)'
  BY DEF IdInv, Over
<1>6. registry'[a].state = "reserved" => \A t, u \in Tickets :
          /\ Handles(t, a)' /\ Handles(u, a)' => t = u
          /\ Threat(t, a)' \/ Clicked(t, a)' => Handles(t, a)'
  BY DEF IdInv, Over
<1>7. \A t, u \in Tickets : Threat(t, a)' /\ (Threat(u, a)' \/ Clicked(u, a)') => t = u
  BY DEF IdInv
<1>8. /\ page'.clicked[a] <= 1
      /\ page'.clicked[a] = 1 => \E t \in Tickets : Clicked(t, a)'
  BY DEF IdInv
<1>9. ASSUME NEW t \in Tickets, Clicks(t, a)'
      PROVE  /\ registry'[a].state # "unminted"
             /\ InTheLane(t)' => /\ registry'[a].generation = ticket'[t].generation
                                 /\ ticket'[t].generation <= generation'
             /\ ticket'[t].answer \in {"generation_changed", "cancelled"} /\ (Threat(t, a)' \/ Clicked(t, a)')
                => Over(a)'
  <2>1. Clicks(t, a)
    BY <1>9
  <2>2. registry'[a].state # "unminted"
    BY <1>4, <2>1 DEF IdInv
  <2>3. InTheLane(t)' => /\ registry'[a].generation = ticket'[t].generation
                         /\ ticket'[t].generation <= generation'
    <3>1. ticket[t].generation \in Nat /\ generation \in Nat
      BY DEF LaneTypeOK, TicketRecords
    <3> QED BY <2>1, <3>1 DEF IdInv
  <2>4. ticket'[t].answer \in {"generation_changed", "cancelled"} /\ (Threat(t, a)' \/ Clicked(t, a)')
                => Over(a)'
    <3>1. Over(a) => Over(a)'
      BY <1>3 DEF Over
    <3> QED BY <2>1, <3>1 DEF IdInv
  <2> QED BY <2>2, <2>3, <2>4
<1> QED BY <1>4, <1>5, <1>6, <1>7, <1>8, <1>9 DEF IdInv

\* An id that was handed out is never as if it had not been.
LEMMA ShownStays ==
  ASSUME ShownInv, ClientInv, env' = env,
         \A a \in ActionIds : registry'[a].state = "unminted" => registry[a].state = "unminted"
  PROVE  ShownInv'
BY DEF ShownInv, ClientInv, Minted

LEMMA TicketAction ==
  ASSUME LaneInv, LaneInv', Truth, ActionInv, NEW t \in Tickets, TicketStep(t), UNCHANGED relayVars
  PROVE  ActionInv'
<1>1. /\ body[t].env \in Minted /\ SameElsewhere(t)
      /\ ticket'[t].generation = ticket[t].generation /\ body'[t].env = body[t].env
      /\ body' \in [Tickets -> BodyRecords] /\ page' \in PageRecords
      /\ \/ Leaves(t) \/ TimesOut(t) \/ Starts(t) \/ NotStarted(t) \/ Does(t) \/ Retries(t)
         \/ EndsAttempts(t)
  BY TicketShape DEF Truth
<1>2. /\ UNCHANGED <<generation, registry, env, call>>
      /\ \A u \in Tickets : body'[u].env = body[u].env
      /\ \A u \in Tickets \ {t} : ticket'[u] = ticket[u] /\ body'[u] = body[u]
      /\ generation \in Nat /\ generation' \in Nat /\ generation <= generation' /\ LaneTypeOK
  BY <1>1 DEF SameElsewhere, relayVars, LaneInv, LaneTypeOK
<1>3. \A a \in ActionIds, u \in Tickets : /\ Clicks(u, a)' <=> Clicks(u, a)
                                          /\ Handles(u, a)' <=> Handles(u, a)
  BY <1>2 DEF Clicks, Handles
<1>4. \A a \in ActionIds, u \in Tickets \ {t} : /\ Threat(u, a)' <=> Threat(u, a)
                                                /\ Clicked(u, a)' <=> Clicked(u, a)
  BY <1>2, <1>3 DEF Threat, Clicked
<1>5. \A a \in ActionIds : Threat(t, a)' => Threat(t, a)
  BY <1>1, <1>2, <1>3 DEF Threat, Clicks, Leaves, TimesOut, Starts, NotStarted, Does, Retries, EndsAttempts,
       InAttempt, Truth, EffectInv
<1>6. \A a \in ActionIds : \/ Clicked(t, a)' <=> Clicked(t, a)
                           \/ Does(t) /\ Clicks(t, a) /\ Threat(t, a) /\ ~Clicked(t, a) /\ Clicked(t, a)'
  BY <1>1, <1>2, <1>3 DEF Threat, Clicked, Clicks, Leaves, TimesOut, Starts, NotStarted, Does, Retries,
       EndsAttempts, InAttempt
<1>7. InTheLane(t)' => InTheLane(t)
  BY <1>1 DEF InTheLane, Leaves, TimesOut, Starts, NotStarted, Does, Retries, EndsAttempts, InAttempt
<1>8. \A a \in ActionIds : /\ ticket'[t].answer \in {"generation_changed", "cancelled"}
                           /\ Threat(t, a)' \/ Clicked(t, a)'
                           => ticket[t].answer \in {"generation_changed", "cancelled"}
  BY <1>1 DEF Threat, Clicked, Leaves, TimesOut, Starts, NotStarted, Does, Retries, EndsAttempts, FirstAnswer,
       Answered, Truth, EffectInv
<1>9. AnswerInv'
  <2>1. ASSUME NEW u \in Tickets
        PROVE  /\ ticket'[u].answer = "timeout" => ticket'[u].phase \in {"running", "done"}
               /\ ticket'[u].answer \in {"resolved", "failed"} => ticket'[u].phase = "done"
               /\ ticket'[u].answer = "resolved" => body'[u].result # "none"
               /\ ticket'[u].answer = "failed" => ~body'[u].authorised
    <3>1. CASE u # t
      BY <1>2, <3>1 DEF ActionInv, AnswerInv
    <3>2. CASE u = t /\ (Leaves(t) \/ TimesOut(t) \/ NotStarted(t))
      BY <1>2, <3>2 DEF ActionInv, AnswerInv, Leaves, TimesOut, NotStarted, FirstAnswer, Answered
    <3>3. CASE u = t /\ (Starts(t) \/ Does(t) \/ Retries(t) \/ EndsAttempts(t))
      BY <1>2, <3>3 DEF ActionInv, AnswerInv, Starts, Does, Retries, EndsAttempts, InAttempt, FirstAnswer, Answered
    <3> QED BY <1>1, <3>1, <3>2, <3>3
  <2> QED BY <2>1 DEF AnswerInv
<1>10. ASSUME NEW a \in ActionIds PROVE IdInv(a)'
  <2>1. IdInv(a)
    BY DEF ActionInv
  <2>2. CASE Does(t) /\ Clicks(t, a)
    <3>1. /\ env[body[t].env].kind = "click" /\ a = env[body[t].env].what
          /\ Threat(t, a) /\ ~Clicked(t, a) /\ Clicked(t, a)'
      BY <1>1, <1>3, <2>2 DEF Clicks, Does, InAttempt, Threat, Clicked
    <3>2. \A u \in Tickets : ~Clicked(u, a)
      BY <2>1, <3>1 DEF IdInv
    <3>3. page.clicked[a] = 0 /\ page'.clicked[a] = 1
      <4>1. page.clicked[a] \in Nat
        BY DEF Truth, ServerTypeOK, PageRecords
      <4>2. page.clicked[a] = 0
        BY <2>1, <3>2, <4>1 DEF IdInv
      <4>3. page'.clicked[a] = More(page.clicked[a])
        BY <2>2, <3>1 DEF Does
      <4> QED BY <4>2, <4>3 DEF More
    <3>4. \A u \in Tickets \ {t} : ~Threat(u, a) /\ ~Threat(u, a)' /\ ~Clicked(u, a)'
      BY <1>4, <2>1, <3>1, <3>2 DEF IdInv
    <3>5. ~Threat(t, a)'
      BY <2>2 DEF Does, Threat
    <3>6. registry[a].state \notin {"unminted", "live"}
          /\ (registry[a].state = "reserved" => Handles(t, a))
      BY <2>1, <3>1 DEF IdInv
    <3>7. \A u \in Tickets : Clicks(u, a) =>
             /\ InTheLane(u)' => InTheLane(u)
             /\ ticket'[u].answer = ticket[u].answer /\ ticket'[u].generation = ticket[u].generation
      BY <1>1, <1>2, <1>7, <2>2 DEF Does, InTheLane
    <3>8. ASSUME NEW u \in Tickets, Clicks(u, a)'
          PROVE  /\ registry'[a].state # "unminted"
                 /\ InTheLane(u)' => /\ registry'[a].generation = ticket'[u].generation
                                     /\ ticket'[u].generation <= generation'
                 /\ ticket'[u].answer \in {"generation_changed", "cancelled"} /\ (Threat(u, a)' \/ Clicked(u, a)')
                    => Over(a)'
      <4>1. Clicks(u, a) /\ (Over(a)' <=> Over(a))
        BY <1>2, <1>3, <3>8 DEF Over
      <4>2. CASE u = t
        BY <1>2, <2>1, <3>1, <3>7, <4>1, <4>2 DEF IdInv
      <4>3. CASE u # t
        BY <1>2, <2>1, <3>4, <3>7, <4>1, <4>3 DEF IdInv
      <4> QED BY <4>2, <4>3
    <3>9. registry'[a].state # "unminted" => registry'[a].generation # 0
      BY <1>2, <2>1 DEF IdInv
    <3>10. registry'[a].state = "reserved" => \A v, u \in Tickets :
              /\ Handles(v, a)' /\ Handles(u, a)' => v = u
              /\ Threat(v, a)' \/ Clicked(v, a)' => Handles(v, a)'
      BY <1>2, <1>3, <2>1, <3>4, <3>5, <3>6 DEF IdInv
    <3>11. registry'[a].state \notin {"unminted", "live"}
      BY <1>2, <3>6
    <3>12. \A v, u \in Tickets : Threat(v, a)' /\ (Threat(u, a)' \/ Clicked(u, a)') => v = u
      BY <3>4, <3>5
    <3>13. page'.clicked[a] <= 1 /\ (page'.clicked[a] = 1 => \E u \in Tickets : Clicked(u, a)')
      BY <3>1, <3>3
    <3> QED BY <3>8, <3>9, <3>10, <3>11, <3>12, <3>13 DEF IdInv
  <2>3. CASE ~(Does(t) /\ Clicks(t, a))
    <3>1. page'.clicked[a] = page.clicked[a]
      <4>1. body[t].env # None
        BY <1>1, CommandsAssumption DEF Minted, None
      <4>2. CASE Does(t)
        BY <2>3, <4>1, <4>2 DEF Clicks, Does
      <4>3. CASE ~Does(t)
        BY <1>1, <4>3 DEF Leaves, TimesOut, Starts, NotStarted, Retries, EndsAttempts
      <4> QED BY <4>2, <4>3
    <3>2. \A u \in Tickets :
            /\ Clicks(u, a)' <=> Clicks(u, a)
            /\ Threat(u, a)' => Threat(u, a)
            /\ Clicked(u, a)' <=> Clicked(u, a)
            /\ Handles(u, a)' => Handles(u, a)
            /\ Handles(u, a) => Handles(u, a)' \/ registry'[a].state # "reserved"
      BY <1>3, <1>4, <1>5, <1>6, <2>3
    <3>3. \A u \in Tickets :
            /\ Clicks(u, a) /\ InTheLane(u)' =>
                  InTheLane(u) /\ ticket'[u].generation = ticket[u].generation
            /\ /\ ticket'[u].answer \in {"generation_changed", "cancelled"}
               /\ Threat(u, a)' \/ Clicked(u, a)'
               => ticket[u].answer \in {"generation_changed", "cancelled"} \/ Over(a)'
      BY <1>1, <1>2, <1>7, <1>8 DEF InTheLane
    <3>4. registry'[a].generation = registry[a].generation /\ registry'[a].state = registry[a].state
      BY <1>2
    <3> HIDE <2>3
    <3> QED BY <1>2, <2>1, <3>1, <3>2, <3>3, <3>4, IdKept
  <2> QED BY <2>2, <2>3
<1>11. ShownInv'
  BY <1>2, ShownStays DEF ActionInv, Truth
<1> QED BY <1>9, <1>10, <1>11 DEF ActionInv

\* When nothing happens to tickets, callbacks, calls and envelopes, nothing happens to what
\* is made of them.
LEMMA HandsSame ==
  ASSUME UNCHANGED <<body, env, call>>, \A t \in Tickets : ticket'[t].phase = ticket[t].phase
  PROVE  \A a \in ActionIds, t \in Tickets :
           /\ Clicks(t, a)' <=> Clicks(t, a)
           /\ Threat(t, a)' <=> Threat(t, a)
           /\ Clicked(t, a)' <=> Clicked(t, a)
           /\ Handles(t, a)' <=> Handles(t, a)
           /\ InTheLane(t)' <=> InTheLane(t)
BY DEF Clicks, Threat, Clicked, Handles, InTheLane

\* Nobody has an id that was not handed out.
LEMMA UnmintedIsFree ==
  ASSUME NEW a \in ActionIds, IdInv(a), registry[a].state = "unminted"
  PROVE  \A t \in Tickets : ~Clicks(t, a) /\ ~Threat(t, a) /\ ~Clicked(t, a) /\ ~Handles(t, a)
BY DEF IdInv

LEMMA RegistryAction ==
  ASSUME LaneInv, Truth, ActionInv, RegistryStep, UNCHANGED relayVars
  PROVE  ActionInv'
<1>1. /\ page'.clicked = page.clicked /\ UNCHANGED <<env, body, call>>
      /\ \A t \in Tickets : ticket'[t].phase = ticket[t].phase
  BY RegistryShape DEF Truth, relayVars
<1>2. \A a \in ActionIds, t \in Tickets :
           /\ Clicks(t, a)' <=> Clicks(t, a)
           /\ Threat(t, a)' <=> Threat(t, a)
           /\ Clicked(t, a)' <=> Clicked(t, a)
           /\ Handles(t, a)' <=> Handles(t, a)
           /\ InTheLane(t)' <=> InTheLane(t)
  BY <1>1, HandsSame
<1>3. /\ LaneTypeOK /\ generation \in Nat /\ bridgeGen \in Nat
      /\ registry \in [ActionIds -> [state : ActionStates, generation : Nat]]
  BY DEF LaneInv, LaneTypeOK, Truth, ServerTypeOK
<1>9. (\A a \in ActionIds : registry'[a].state = "unminted" => registry[a].state = "unminted") => ShownInv'
  BY <1>1, ShownStays DEF ActionInv, Truth
<1>4. CASE ticket' = ticket /\ generation' = generation
  <2>1. AnswerInv'
    BY <1>1, <1>4 DEF ActionInv, AnswerInv
  <2>2. ASSUME NEW a \in ActionIds, registry'[a].generation = registry[a].generation,
               \/ registry'[a].state = registry[a].state
               \/ Over(a)' /\ registry[a].state # "unminted"
        PROVE  IdInv(a)'
    BY <1>1, <1>2, <1>3, <1>4, <2>2, IdKept DEF ActionInv
  <2>3. CASE UNCHANGED registry
    BY <1>9, <2>1, <2>2, <2>3 DEF ActionInv
  <2>4. ASSUME NEW b \in ActionIds, Forget(b) PROVE ActionInv'
    <3>1. \A a \in ActionIds :
             /\ registry'[a].generation = registry[a].generation
             /\ \/ registry'[a].state = registry[a].state
                \/ registry'[a].state = "removed" /\ registry[a].state # "unminted"
      BY <1>3, <2>4 DEF Forget, With
    <3> QED BY <1>9, <2>1, <2>2, <3>1 DEF ActionInv, Over
  <2>5. CASE RegisterObserved(bridgeGen)
    <3>1. CASE registry' = registry
      BY <2>3, <3>1
    <3>2. CASE registry' # registry
      <4> DEFINE r == [state |-> "live", generation |-> bridgeGen]
      <4>1. /\ Observed(bridgeGen) \notin Unsettled(bridgeGen) /\ Observed(bridgeGen) # NoAction
            /\ registry' = [registry EXCEPT ![Observed(bridgeGen)] = r]
        BY <2>5, <3>2 DEF RegisterObserved
      <4>2. PICK b \in ActionIds : registry[b].state = "unminted" /\ registry' = [registry EXCEPT ![b] = r]
        BY <4>1 DEF Observed
      <4>3. /\ \A a \in ActionIds \ {b} : registry'[a] = registry[a]
            /\ registry'[b].state = "live" /\ registry'[b].generation = bridgeGen
        BY <1>3, <4>2
      <4>4. IdInv(b) /\ bridgeGen # 0
        BY <4>2 DEF ActionInv, Truth, ServerTypeOK
      <4>5. \A t \in Tickets : ~Clicks(t, b)' /\ ~Threat(t, b)' /\ ~Clicked(t, b)' /\ ~Handles(t, b)'
        BY <1>2, <4>2, <4>4, UnmintedIsFree
      <4>6. page'.clicked[b] <= 1 /\ (page'.clicked[b] = 1 => \E t \in Tickets : Clicked(t, b)')
        BY <1>1, <1>2, <4>2, <4>4 DEF IdInv
      <4>7. IdInv(b)'
        BY <4>3, <4>4, <4>5, <4>6 DEF IdInv
      <4>8. ShownInv'
        BY <1>9, <4>3
      <4> QED BY <2>1, <2>2, <4>3, <4>7, <4>8 DEF ActionInv
    <3> QED BY <3>1, <3>2
  <2> QED
    <3>1. \/ UNCHANGED registry \/ (\E b \in ActionIds : Forget(b)) \/ RegisterObserved(bridgeGen)
          \/ Reconnected \/ ShutsDown
      BY DEF RegistryStep, BridgeReconnects, Poll, ButtonChanges
    <3>2. ~Reconnected /\ ~ShutsDown
      BY <1>3, <1>4 DEF Reconnected, SetGeneration, ShutsDown, Cancel
    <3> QED BY <2>3, <2>4, <2>5, <3>1, <3>2
<1>5. ASSUME NEW code \in {"generation_changed", "cancelled"}, Invalidate(code), NEW g \in Nat,
             registry' = Remaining(g), generation' \in Nat, generation < generation',
             \A a \in ActionIds : registry[a].state # "unminted" /\ registry[a].generation <= generation
                => registry[a].generation # g
      PROVE  ActionInv'
  <2>1. code \in Answers \ {"none"}
    BY DEF Answers
  <2>2. \A t \in Tickets :
               /\ ticket'[t].phase = ticket[t].phase
               /\ ticket'[t].generation = ticket[t].generation
               /\ ticket'[t].answer = ticket[t].answer \/ (InTheLane(t) /\ ticket'[t].answer = code)
    BY <1>3, <1>5, <2>1, InvalidateTicket DEF Waiting, Running, InTheLane
  <2>3. AnswerInv'
    BY <1>1, <2>2 DEF ActionInv, AnswerInv
  <2>4. \A a \in ActionIds : registry'[a] =
           IF registry[a].state # "unminted" /\ registry[a].generation # g
           THEN [registry[a] EXCEPT !.state = "removed"] ELSE registry[a]
    BY <1>5 DEF Remaining
  <2>5. \A a \in ActionIds : /\ registry'[a].generation = registry[a].generation
                             /\ IF registry[a].state # "unminted" /\ registry[a].generation # g
                                THEN registry'[a].state = "removed" ELSE registry'[a].state = registry[a].state
    BY <1>3, <2>4
  <2>6. ASSUME NEW a \in ActionIds PROVE IdInv(a)'
    <3>1. IdInv(a)
      BY DEF ActionInv
    <3>2. \/ registry'[a].state = registry[a].state
          \/ Over(a)' /\ registry[a].state # "unminted"
      BY <2>5 DEF Over
    <3>3. ASSUME NEW t \in Tickets, InTheLane(t), Clicks(t, a) PROVE Over(a)'
      <4>1. registry[a].state # "unminted" /\ registry[a].generation <= generation
        BY <3>1, <3>3 DEF IdInv
      <4> QED BY <1>5, <2>5, <4>1 DEF Over
    <3>4. \A t \in Tickets :
            /\ ticket'[t].answer \in {"generation_changed", "cancelled"}
            /\ Threat(t, a)' \/ Clicked(t, a)'
            => ticket[t].answer \in {"generation_changed", "cancelled"} \/ Over(a)'
      BY <1>2, <2>2, <3>3 DEF Threat, Clicked
    <3>5. page'.clicked[a] = page.clicked[a] /\ generation <= generation'
      BY <1>1, <1>3, <1>5
    <3> QED BY <1>2, <1>3, <1>5, <2>2, <2>5, <3>1, <3>2, <3>4, <3>5, IdKept
  <2>7. ShownInv'
    BY <1>9, <2>5
  <2> QED BY <2>3, <2>6, <2>7 DEF ActionInv
<1>6. CASE Reconnected
  <2>1. /\ Invalidate("generation_changed") /\ registry' = Remaining(bridgeGen)
        /\ generation' = bridgeGen /\ generation < bridgeGen
    BY <1>6 DEF Reconnected, SetGeneration
  <2>2. \A a \in ActionIds : registry[a].generation <= generation => registry[a].generation # bridgeGen
    BY <1>3, <2>1
  <2> QED BY <1>3, <1>5, <2>1, <2>2
<1>7. CASE ShutsDown
  <2>1. Invalidate("cancelled") /\ registry' = Remaining(0) /\ generation' = generation + 1
    BY <1>7 DEF ShutsDown, Cancel, None
  <2>2. \A a \in ActionIds : registry[a].state # "unminted" => registry[a].generation # 0
    BY DEF ActionInv, IdInv
  <2>3. generation' \in Nat /\ generation < generation' /\ 0 \in Nat
    BY <1>3, <2>1
  <2> QED BY <1>5, <2>1, <2>2, <2>3
<1>8. Reconnected \/ ShutsDown \/ (ticket' = ticket /\ generation' = generation)
  BY DEF RegistryStep, BridgeReconnects, Poll, ButtonChanges, laneVars
<1> QED BY <1>4, <1>6, <1>7, <1>8

\* Nothing happens to the ids, nor to what is made of them.
LEMMA ActionUntouched ==
  ASSUME LaneInv, Truth, ActionInv, UNCHANGED <<ticket, generation, registry, env, body, page, call>>
  PROVE  ActionInv'
<1>1. AnswerInv'
  BY DEF ActionInv, AnswerInv
<1>2. ASSUME NEW a \in ActionIds PROVE IdInv(a)'
  <2>1. \A t \in Tickets :
           /\ Clicks(t, a)' <=> Clicks(t, a)
           /\ Threat(t, a)' <=> Threat(t, a)
           /\ Clicked(t, a)' <=> Clicked(t, a)
           /\ Handles(t, a)' <=> Handles(t, a)
           /\ InTheLane(t)' <=> InTheLane(t)
    BY HandsSame
  <2>2. generation \in Nat /\ generation' \in Nat /\ generation <= generation' /\ LaneTypeOK
    BY DEF LaneInv, LaneTypeOK
  <2>3. IdInv(a)
    BY DEF ActionInv
  <2> QED BY <2>1, <2>2, <2>3, IdKept
<1>3. ShownInv'
  BY ShownStays DEF ActionInv, Truth
<1> QED BY <1>1, <1>2, <1>3 DEF ActionInv

\* An id that was shown and may not be clicked.
LEMMA UnauthorisedAction ==
  ASSUME LaneInv, Truth, ActionInv, NEW e \in Envelopes, NEW k \in Tickets, Unauthorised(e, k),
         e \in toServer
  PROVE  ActionInv'
<1>1. /\ UNCHANGED <<ticket, generation, env, body, page>>
      /\ generation \in Nat /\ generation' \in Nat /\ generation <= generation' /\ LaneTypeOK
  BY DEF Unauthorised, laneVars, LaneInv, LaneTypeOK
<1>2. /\ \A u \in Tickets \ {k} : call'[u] = call[u]
      /\ call[k].state = "new" /\ call'[k].state = "settled"
  BY DEF Unauthorised, Unused, Truth, ServerTypeOK
<1>3. AnswerInv'
  BY <1>1 DEF ActionInv, AnswerInv
<1>4. env[e].what \in ActionIds /\ registry[env[e].what].state # "unminted"
  BY DEF Unauthorised, ActionInv, ShownInv, Truth, ClientInv, MemoryInv
<1>5. \A a \in ActionIds :
         /\ registry'[a].generation = registry[a].generation
         /\ \/ registry'[a].state = registry[a].state
            \/ registry'[a].state = "removed" /\ registry[a].state # "unminted"
  <2>1. registry \in [ActionIds -> [state : ActionStates, generation : Nat]]
    BY DEF Truth, ServerTypeOK
  <2> QED BY <1>4, <2>1 DEF Unauthorised, With
<1>6. ASSUME NEW a \in ActionIds PROVE IdInv(a)'
  <2>1. \A t \in Tickets :
           /\ Clicks(t, a)' <=> Clicks(t, a)
           /\ Threat(t, a)' <=> Threat(t, a)
           /\ Clicked(t, a)' <=> Clicked(t, a)
           /\ Handles(t, a)' <=> Handles(t, a)
           /\ InTheLane(t)' <=> InTheLane(t)
    BY <1>1, <1>2 DEF Clicks, Threat, Clicked, Handles, InTheLane
  <2>2. IdInv(a)
    BY DEF ActionInv
  <2> QED BY <1>1, <1>5, <2>1, <2>2, IdKept DEF Over
<1>7. ShownInv'
  BY <1>1, <1>5, ShownStays DEF ActionInv, Truth
<1> QED BY <1>3, <1>6, <1>7 DEF ActionInv

\* An id that is reserved for a call.
LEMMA ExecuteAction ==
  ASSUME LaneInv, LaneInv', Truth, ActionInv, NEW e \in Envelopes, NEW k \in Tickets, Execute(e, k),
         e \in toServer
  PROVE  ActionInv'
<1> DEFINE run == Runner(e, k)
<1>1. /\ UNCHANGED <<env, page, bridgeGen>> /\ e \in Minted /\ env[e].kind \in Kinds
      /\ Unused(k) /\ e # None /\ k # None
  BY CommandsAssumption DEF Execute, Truth, MemoryInv, ClientInv, None
<1>2. call[k] = NewCall /\ body[k] = NewBody /\ ticket[k] = NewTicket
  BY <1>1, UnusedFacts DEF Truth
<1>3. /\ run \in Tickets
      /\ call' = [call EXCEPT ![k] = [env |-> e, run |-> run, state |-> "running", result |-> "none"]]
      /\ \A u \in Tickets \ {k} : ticket'[u] = ticket[u] /\ body'[u] = body[u]
      /\ \/ /\ cache[e] = None /\ body' = [body EXCEPT ![k] = [NewBody EXCEPT !.env = e]]
            /\ \/ /\ bridgeGen = generation
                  /\ ticket'[k].phase = "queued" /\ ticket'[k].generation = bridgeGen
                  /\ ticket'[k].answer = "none"
               \/ /\ bridgeGen # generation
                  /\ ticket'[k].phase = "done" /\ ticket'[k].answer = "generation_changed"
         \/ UNCHANGED <<ticket, body>>
  BY ExecuteShape DEF Truth
<1> HIDE DEF run
<1>4. /\ call'[k].env = e /\ call'[k].state = "running" /\ \A u \in Tickets \ {k} : call'[u] = call[u]
      /\ body'[k].env \in {None, e} /\ ~body'[k].acted /\ ~body'[k].authorised /\ body'[k].result = "none"
  BY <1>2, <1>3 DEF Truth, ServerTypeOK, NewBody
<1>5. /\ generation' = generation /\ generation \in Nat /\ LaneTypeOK
      /\ registry \in [ActionIds -> [state : ActionStates, generation : Nat]]
  BY DEF Execute, Dispatch, Enqueue, laneVars, LaneInv, LaneTypeOK, Truth, ServerTypeOK
<1>6. AnswerInv'
  <2>1. ASSUME NEW u \in Tickets
        PROVE  /\ ticket'[u].answer = "timeout" => ticket'[u].phase \in {"running", "done"}
               /\ ticket'[u].answer \in {"resolved", "failed"} => ticket'[u].phase = "done"
               /\ ticket'[u].answer = "resolved" => body'[u].result # "none"
               /\ ticket'[u].answer = "failed" => ~body'[u].authorised
    <3>1. CASE u = k
      BY <1>2, <1>3, <3>1 DEF NewTicket
    <3>2. CASE u # k
      BY <1>3, <3>2 DEF ActionInv, AnswerInv
    <3> QED BY <3>1, <3>2
  <2> QED BY <2>1 DEF AnswerInv
<1>7. \A a \in ActionIds, u \in Tickets \ {k} :
           /\ Clicks(u, a)' <=> Clicks(u, a)
           /\ Threat(u, a)' <=> Threat(u, a)
           /\ Clicked(u, a)' <=> Clicked(u, a)
           /\ Handles(u, a)' <=> Handles(u, a)
           /\ InTheLane(u)' <=> InTheLane(u)
  BY <1>1, <1>3, <1>4 DEF Clicks, Threat, Clicked, Handles, InTheLane
<1>8. \A a \in ActionIds : ~Clicks(k, a) /\ ~Threat(k, a) /\ ~Clicked(k, a) /\ ~Handles(k, a) /\ ~Clicked(k, a)'
  BY <1>2, <1>4 DEF Clicks, Threat, Clicked, Handles, NewBody, NewCall
<1>9. ASSUME NEW a \in ActionIds, ~(env[e].kind = "click" /\ env[e].what = a) PROVE IdInv(a)'
  <2>1. ~Clicks(k, a)' /\ ~Threat(k, a)' /\ ~Handles(k, a)'
    BY <1>1, <1>4, <1>9 DEF Clicks, Threat, Handles
  <2>2. registry'[a] = registry[a] /\ page' = page
    BY <1>1, <1>5, <1>9 DEF Execute, With
  <2>3. IdInv(a)
    BY DEF ActionInv
  <2>4. \A t \in Tickets :
            /\ Clicks(t, a)' <=> Clicks(t, a)
            /\ Threat(t, a)' => Threat(t, a)
            /\ Clicked(t, a)' <=> Clicked(t, a)
            /\ Handles(t, a)' <=> Handles(t, a)
            /\ Clicks(t, a) /\ InTheLane(t)' =>
                  InTheLane(t) /\ ticket'[t].generation = ticket[t].generation
            /\ Threat(t, a)' \/ Clicked(t, a)' => ticket'[t] = ticket[t]
    BY <1>3, <1>7, <1>8, <2>1
  <2> QED BY <1>5, <2>2, <2>3, <2>4, IdKept
<1>10. ASSUME NEW a \in ActionIds, env[e].kind = "click", env[e].what = a PROVE IdInv(a)'
  <2>1. registry[a].state = "live" /\ registry[a].generation = bridgeGen /\ registry' = With(a, "reserved")
    BY <1>10 DEF Execute, Reservable
  <2>2. registry'[a].state = "reserved" /\ registry'[a].generation = bridgeGen
    BY <1>5, <2>1 DEF With
  <2>3. IdInv(a) /\ bridgeGen # 0
    BY DEF ActionInv, Truth, ServerTypeOK
  <2>4. \A t \in Tickets : ~Threat(t, a) /\ ~Clicked(t, a) /\ ~Handles(t, a)
    BY <2>1, <2>3 DEF IdInv
  <2>5. Handles(k, a)'
    BY <1>1, <1>4, <1>10 DEF Handles
  <2>6. \A u \in Tickets \ {k} : ~Threat(u, a)' /\ ~Clicked(u, a)' /\ ~Handles(u, a)'
    BY <1>7, <2>4
  <2>7. page'.clicked[a] <= 1 /\ page'.clicked[a] # 1
    <3>1. page'.clicked[a] = page.clicked[a]
      BY <1>1
    <3> QED BY <2>3, <2>4, <3>1 DEF IdInv
  <2>8. ASSUME NEW u \in Tickets, Clicks(u, a)', InTheLane(u)'
        PROVE  bridgeGen = ticket'[u].generation /\ ticket'[u].generation <= generation'
    <3>1. CASE u = k
      <4>1. ticket'[k].phase = "queued" /\ ticket'[k].generation = bridgeGen /\ bridgeGen = generation
        BY <1>2, <1>3, <2>8, <3>1 DEF InTheLane, NewTicket
      <4> QED BY <1>5, <3>1, <4>1
    <3>2. CASE u # k
      <4>1. Clicks(u, a) /\ InTheLane(u) /\ ticket'[u] = ticket[u]
        BY <1>3, <1>7, <2>8, <3>2
      <4> QED BY <1>5, <2>1, <2>3, <4>1 DEF IdInv
    <3> QED BY <3>1, <3>2
  <2>9. ticket'[k].answer \in {"generation_changed", "cancelled"} => ~Threat(k, a)' /\ ~Clicked(k, a)'
    BY <1>2, <1>3, <1>8 DEF Threat, NewTicket
  <2> QED BY <1>8, <2>2, <2>3, <2>5, <2>6, <2>7, <2>8, <2>9 DEF IdInv
<1>11. ShownInv'
  <2>1. \A a \in ActionIds : registry'[a].state = "unminted" => registry[a].state = "unminted"
    BY <1>5 DEF Execute, With
  <2> QED BY <1>1, <2>1, ShownStays DEF ActionInv, Truth
<1> QED BY <1>6, <1>9, <1>10, <1>11 DEF ActionInv

\* An id that is used up, or given back because nothing came of it.
LEMMA FinishAction ==
  ASSUME LaneInv, Truth, ActionInv, NEW k \in Tickets, Finish(k)
  PROVE  ActionInv'
<1> DEFINE e == call[k].env
           t == call[k].run
<1>1. /\ UNCHANGED <<ticket, generation, env, body, page>>
      /\ generation \in Nat /\ generation' \in Nat /\ generation <= generation' /\ LaneTypeOK
      /\ registry \in [ActionIds -> [state : ActionStates, generation : Nat]]
  BY DEF Finish, laneVars, LaneInv, LaneTypeOK, Truth, ServerTypeOK
<1>2. /\ call[k].state = "running" /\ e \in Minted /\ t \in Tickets
      /\ body[t].env = e
      /\ \A u \in Tickets \ {k} : call'[u] = call[u]
      /\ call'[k].env = e /\ call'[k].run = t
      /\ call'[k].state = "settled"
  BY FinishShape DEF Truth
<1>3. AnswerInv'
  BY <1>1 DEF ActionInv, AnswerInv
<1>4. \A a \in ActionIds, u \in Tickets :
           /\ Clicks(u, a)' <=> Clicks(u, a)
           /\ Threat(u, a)' <=> Threat(u, a)
           /\ Clicked(u, a)' <=> Clicked(u, a)
           /\ Handles(u, a)' <=> (Handles(u, a) /\ u # k)
           /\ InTheLane(u)' <=> InTheLane(u)
  BY <1>1, <1>2 DEF Clicks, Threat, Clicked, Handles, InTheLane
<1>5. ASSUME NEW a \in ActionIds, ~Handles(k, a) PROVE IdInv(a)' /\ registry'[a] = registry[a]
  <2>1. ~(env[e].kind = "click" /\ env[e].what = a)
    BY <1>2, <1>5 DEF Handles
  <2>2. registry'[a] = registry[a]
    BY <1>1, <2>1, SettledCases DEF Finish, With
  <2>3. IdInv(a)
    BY DEF ActionInv
  <2> QED BY <1>1, <1>4, <1>5, <2>2, <2>3, IdKept
<1>6. ASSUME NEW a \in ActionIds, Handles(k, a)
      PROVE  IdInv(a)' /\ (registry'[a].state = "unminted" => registry[a].state = "unminted")
  <2>1. env[e].kind = "click" /\ env[e].what = a /\ IdInv(a)
    BY <1>6 DEF Handles, ActionInv
  <2>2. registry[a].state \notin {"unminted", "live"}
    BY <1>6, <2>1 DEF IdInv
  <2>3. registry' = Settled(a, t = k /\ body[t].authorised, ticket[t].answer, body[t].result)
    BY <2>1 DEF Finish
  <2>4. CASE registry[a].state # "reserved"
    <3>1. registry' = registry
      BY <2>2, <2>3, <2>4 DEF Settled, Released, Consumable
    <3> QED BY <1>1, <1>4, <2>1, <2>4, <3>1, IdKept
  <2>5. CASE registry' = With(a, "consumed")
    <3>1. registry'[a].state = "consumed" /\ registry'[a].generation = registry[a].generation
      BY <1>1, <2>5 DEF With
    <3> QED BY <1>1, <1>4, <2>1, <2>2, <3>1, IdKept DEF Over
  <2>6. CASE registry[a].state = "reserved" /\ registry' = With(a, "live") /\ registry' # With(a, "consumed")
    <3>1. registry'[a].state = "live" /\ registry'[a].generation = registry[a].generation
      BY <1>1, <2>6 DEF With
    <3>2. ~(\/ ticket[t].answer = "resolved" /\ body[t].result = "ok"
            \/ /\ t = k /\ body[t].authorised
               /\ body[t].result = "failed" \/ ticket[t].answer = "timeout")
      BY <2>3, <2>6 DEF Settled, Consumable
    <3>3. Answered(t) /\ ticket[t].answer \in Answers
      BY <1>1, <1>2 DEF Finish, LaneTypeOK, TicketRecords
    <3>4. ~Threat(k, a) /\ ~Clicked(k, a)
      <4>1. SUFFICES ASSUME Threat(k, a) \/ Clicked(k, a) PROVE FALSE
        OBVIOUS
      <4>2. t = k /\ Clicks(k, a)
        BY <4>1 DEF Threat, Clicked, Clicks, Truth, MemoryInv
      <4>3. body[k].result \in {"none", "ok", "failed", "revalidation"}
        BY DEF Truth, ServerTypeOK, BodyRecords
      <4>4. ticket[k].answer \notin {"generation_changed", "cancelled"}
        BY <2>1, <2>6, <4>1, <4>2 DEF IdInv, Over
      <4>5. CASE ticket[k].answer = "timeout"
        BY <3>2, <4>1, <4>2, <4>5 DEF ActionInv, AnswerInv, Threat, Clicked, Truth, EffectInv
      <4>6. CASE ticket[k].answer = "resolved"
        BY <3>2, <4>1, <4>2, <4>3, <4>6 DEF ActionInv, AnswerInv, Threat, Clicked, Truth, EffectInv
      <4>7. CASE ticket[k].answer = "failed"
        BY <4>1, <4>7 DEF ActionInv, AnswerInv, Threat, Clicked, Truth, EffectInv
      <4> QED BY <3>3, <4>2, <4>4, <4>5, <4>6, <4>7 DEF Answers, Answered
    <3>5. \A u \in Tickets : Handles(u, a) => u = k
      BY <1>6, <2>1, <2>6 DEF IdInv
    <3>6. \A u \in Tickets : ~Threat(u, a) /\ ~Clicked(u, a)
      BY <2>1, <2>6, <3>4, <3>5 DEF IdInv
    <3>7. \A u \in Tickets : ~Threat(u, a)' /\ ~Clicked(u, a)' /\ ~Handles(u, a)'
      BY <1>4, <3>5, <3>6
    <3>8. page'.clicked[a] <= 1 /\ page'.clicked[a] # 1
      BY <1>1, <2>1, <3>6 DEF IdInv
    <3>9. registry'[a].generation # 0
      BY <2>1, <2>6, <3>1 DEF IdInv
    <3>10. \A u \in Tickets : Clicks(u, a)' /\ InTheLane(u)' =>
              registry'[a].generation = ticket'[u].generation /\ ticket'[u].generation <= generation'
      BY <1>1, <1>4, <2>1, <3>1 DEF IdInv
    <3> QED BY <3>1, <3>7, <3>8, <3>9, <3>10 DEF IdInv
  <2> QED
    <3>1. registry' = With(a, "consumed") \/ registry' = Released(a)
      BY <2>3 DEF Settled
    <3>2. registry[a].state = "reserved" => Released(a) = With(a, "live")
      BY DEF Released
    <3>3. registry[a].state = "reserved" => registry'[a].state # "unminted"
      BY <1>1, <3>1, <3>2 DEF With
    <3> QED BY <2>4, <2>5, <2>6, <3>1, <3>2, <3>3
<1>7. ShownInv'
  BY <1>1, <1>5, <1>6, ShownStays DEF ActionInv, Truth
<1> QED BY <1>3, <1>5, <1>6, <1>7 DEF ActionInv

LEMMA RelayAction == ASSUME LaneInv, LaneInv', Truth, ActionInv, RelayStep PROVE ActionInv'
<1>1. ASSUME NEW e \in Envelopes, Receive(e) PROVE ActionInv'
  <2>1. CASE Replay(e) \/ Limit(e)
    <3>1. UNCHANGED <<ticket, generation, registry, env, body, page, call>>
      BY <2>1 DEF Replay, Limit, commandVars, laneVars
    <3> QED BY <3>1, ActionUntouched
  <2> QED BY <1>1, <2>1, UnauthorisedAction, ExecuteAction DEF Receive
<1>2. ASSUME NEW e \in Envelopes, RecordLapses(e) \/ CacheForgets(e) PROVE ActionInv'
  <2>1. UNCHANGED <<ticket, generation, registry, env, body, page, call>>
    BY <1>2 DEF RecordLapses, CacheForgets, commandVars, laneVars
  <2> QED BY <2>1, ActionUntouched
<1>3. CASE Reconnect
  <2>1. UNCHANGED <<ticket, generation, registry, env, body, page, call>>
    BY <1>3 DEF Reconnect, commandVars, laneVars
  <2> QED BY <2>1, ActionUntouched
<1> QED BY <1>1, <1>2, <1>3, FinishAction DEF RelayStep

\* A new envelope is nobody's yet.
LEMMA SubmitAction ==
  ASSUME LaneInv, Truth, ActionInv, NEW kind \in Kinds, NEW what \in Whats, NEW e \in Envelopes,
         Submit(kind, what, e),
         kind = "click" => what \in ActionIds /\ registry[what].state # "unminted"
  PROVE  ActionInv'
<1>1. /\ UNCHANGED <<ticket, generation, registry, body, page, call>>
      /\ generation \in Nat /\ generation' \in Nat /\ generation <= generation' /\ LaneTypeOK
  BY DEF Submit, laneVars, LaneInv, LaneTypeOK
<1>2. /\ Minted' = Minted \cup {e} /\ \A d \in Minted : env'[d] = env[d]
      /\ env'[e].kind = kind /\ env'[e].what = what
  BY SubmitShape
<1>3. \A t \in Tickets : /\ body[t].env # None => body[t].env \in Minted
                         /\ call[t].state = "running" => call[t].env \in Minted
  <2>1. NewBody.env = None
    BY DEF NewBody
  <2> QED BY <2>1 DEF Truth, MemoryInv
<1>4. \A a \in ActionIds, t \in Tickets :
           /\ Clicks(t, a)' <=> Clicks(t, a)
           /\ Threat(t, a)' <=> Threat(t, a)
           /\ Clicked(t, a)' <=> Clicked(t, a)
           /\ Handles(t, a)' <=> Handles(t, a)
           /\ InTheLane(t)' <=> InTheLane(t)
  BY <1>1, <1>2, <1>3 DEF Clicks, Threat, Clicked, Handles, InTheLane
<1>5. AnswerInv'
  BY <1>1 DEF ActionInv, AnswerInv
<1>6. ASSUME NEW a \in ActionIds PROVE IdInv(a)'
  <2>1. IdInv(a)
    BY DEF ActionInv
  <2> QED BY <1>1, <1>4, <2>1, IdKept
<1>7. ShownInv'
  BY <1>1, <1>2 DEF ActionInv, ShownInv
<1> QED BY <1>5, <1>6, <1>7 DEF ActionInv

LEMMA ClientAction == ASSUME LaneInv, Truth, ActionInv, ClientStep PROVE ActionInv'
<1>1. CASE \/ \E e \in Envelopes : GetAnswer(e) \/ GivesUp(e)
           \/ LosesSocket
           \/ \E text \in Texts : Types(text)
  <2>1. UNCHANGED <<ticket, generation, registry, env, body, page, call>>
    BY <1>1 DEF GetAnswer, GivesUp, LosesSocket, Drop, Types, commandVars, laneVars, relayVars
  <2> QED BY <2>1, ActionUntouched
<1>2. ASSUME NEW e \in Envelopes, Submit("send", input, e) PROVE ActionInv'
  BY <1>2, SubmitAction DEF Kinds, Whats, Truth, ClientTypeOK
<1>3. ASSUME NEW e \in Envelopes, Observed(bridgeGen) \in Unsettled(bridgeGen),
             Submit("click", Observed(bridgeGen), e)
      PROVE  ActionInv'
  <2>1. Observed(bridgeGen) \in ActionIds /\ registry[Observed(bridgeGen)].state # "unminted"
    BY <1>3 DEF Unsettled
  <2> QED BY <1>3, <2>1, SubmitAction DEF Kinds, Whats
<1> QED BY <1>1, <1>2, <1>3 DEF ClientStep, Asks

\* The inductive invariant of the path of a command.
Inv == TruthFacts /\ ActionInv

LEMMA InitAction == Init => Inv
<1> SUFFICES ASSUME Init PROVE Inv
  OBVIOUS
<1>1. TruthFacts
  BY InitTruth
<1>2. /\ registry = [a \in ActionIds |-> Unminted] /\ env = [e \in Envelopes |-> NoEnv]
      /\ body = [t \in Tickets |-> NewBody] /\ ticket = [t \in Tickets |-> NewTicket]
      /\ page.clicked = [a \in ActionIds |-> 0] /\ call = [k \in Tickets |-> NewCall]
  BY DEF Init, RelayInit, CommandsInit, LaneInit, RegistryInit
<1>3. /\ NewBody.env = None /\ ~NewBody.acted /\ NewCall.state = "new" /\ NewTicket.answer = "none"
      /\ Unminted.state = "unminted"
  BY DEF NewBody, NewCall, NewTicket, Unminted
<1>4. AnswerInv /\ ShownInv
  BY <1>2, <1>3 DEF AnswerInv, ShownInv, Minted
<1>5. ASSUME NEW a \in ActionIds PROVE IdInv(a)
  <2>1. \A t \in Tickets : ~Clicks(t, a) /\ ~Threat(t, a) /\ ~Clicked(t, a) /\ ~Handles(t, a)
    BY <1>2, <1>3 DEF Clicks, Threat, Clicked, Handles
  <2> QED BY <1>2, <1>3, <2>1 DEF IdInv
<1> QED BY <1>1, <1>4, <1>5 DEF Inv, ActionInv

LEMMA StepAction == Inv /\ [Next]_vars => Inv'
<1> SUFFICES ASSUME Inv, [Next]_vars PROVE Inv'
  OBVIOUS
<1>1. /\ TruthFacts' /\ LaneInv /\ Truth /\ LaneInv' /\ ActionInv
  BY StepTruth DEF Inv, TruthFacts, LaneFacts
<1>2. CASE UNCHANGED <<commandVars, relayVars, clientVars>>
  <2>1. UNCHANGED <<ticket, generation, registry, env, body, page, call>>
    BY <1>2 DEF commandVars, laneVars, relayVars
  <2> QED BY <1>1, <2>1, ActionUntouched DEF Inv
<1> QED BY <1>1, <1>2, StepCases, TicketAction, RegistryAction, RelayAction, ClientAction DEF Inv

\* What the user asked for once, and again only as long as nobody could tell him what
\* became of it, is begun in Cursor once, unless the executor and the relay have both
\* forgotten it; and a button is clicked once under an id, however its click ends
\* (reuseEnvelope, lookupSocketOperation, getOrRunCommand, settleRegisteredAction).
THEOREM NothingIsDoneTwice == Spec => []AskedOnceDoneOnce
<1>1. ASSUME Inv PROVE AskedOnceDoneOnce
  <2>1. Truth /\ LaneInv /\ ActionInv
    BY <1>1 DEF Inv, TruthFacts, LaneFacts
  <2>2. ASSUME NEW i \in Envelopes, page.ran[i] > 1
        PROVE  \E e \in Envelopes : env[e].intent = i /\ {<<e, "executor">>, <<e, "relay">>} \subseteq lapsed
    <3>1. Lapsed(i, "executor") /\ Lapsed(i, "relay")
      BY <2>1, <2>2 DEF Truth, EffectInv
    <3>2. page.ran[i] > 0
      BY <2>1, <2>2 DEF Truth, ServerTypeOK, PageRecords
    <3>3. PICK t \in Tickets : RunOf(i, t) /\ body[t].authorised
      BY <2>1, <3>2 DEF Truth, EffectInv
    <3>4. ticket[t].phase # "new"
      BY <2>1, <3>3 DEF Truth, EffectInv
    <3>5. i \in Minted
      BY <2>1, <3>3, <3>4 DEF Truth, MemoryInv, RunOf
    <3> QED BY <2>1, <3>1, <3>5 DEF Truth, ClientInv, Lapsed
  <2>3. \A a \in ActionIds : page.clicked[a] <= 1
    BY <2>1 DEF ActionInv, IdInv
  <2> QED BY <2>2, <2>3 DEF AskedOnceDoneOnce
<1>2. Inv => AskedOnceDoneOnce
  BY <1>1
<1> QED BY <1>2, InitAction, StepAction, PTL DEF Spec

================================================================================
