-------------------------- MODULE ServerManagerProofs --------------------------
(***************************************************************************)
(* Proofs about the lock of the extension's windows, for any number of     *)
(* windows, processes and events.                                          *)
(***************************************************************************)
EXTENDS ServerManager, TLAPS

--------------------------------------------------------------------------------
(* Types.                                                                  *)

LockRecords == [owner : Windows \cup {NoWindow}, generation : Nat,
                pid : Windows \cup {NoWindow}, intent : Intents, fresh : BOOLEAN]

Stages == {"idle", "start", "probe", "awaitRestart", "claim", "claimWrite", "claimConfirm",
           "awaitOwner", "spawn", "kill", "closing", "closed", "stopMark", "restartMark",
           "waitDown", "restartEnd", "endWrite"}

WindowRecords == [child : Procs \cup {NoProc}, victim : Procs \cup {NoProc},
                  state : {"stopped", "up", "error"}, stage : Stages, seen : LockRecords,
                  restarting : BOOLEAN, takeover : BOOLEAN, fallback : BOOLEAN,
                  poll : {"off", "on", "late"}, yielded : BOOLEAN]

ManagerTypeOK == lock \in LockRecords /\ win \in [Windows -> WindowRecords]

--------------------------------------------------------------------------------
(* What makes a lock true.                                                 *)

\* The window has a server, or will have one or give the lock up before it rests.
Busy(w) ==
    \/ win[w].child # NoProc \/ w \in dropping \/ win[w].restarting
    \/ win[w].stage \in {"claimConfirm", "spawn", "kill", "closing"}

\* Where an operation stands, whether it is a restart, and whether it waits for an exit.
Staged(w) ==
    /\ win[w].victim # NoProc => win[w].stage \in {"kill", "closing"}
    /\ win[w].restarting => win[w].stage \notin {"idle", "closing", "closed", "stopMark"}
    /\ win[w].stage \in {"start", "waitDown", "restartMark", "restartEnd", "endWrite"} => win[w].restarting

\* What the window has read and will write back says no more than the lock would.
Remembers(w) ==
    /\ win[w].stage = "claimWrite" /\ win[w].seen.owner = w /\ win[w].seen.intent = "restarting"
       => win[w].restarting
    /\ win[w].stage = "claimConfirm" /\ win[w].seen.owner # w /\ OwnedBy(w) /\ lock.intent # "stopped"
       => lock.generation = (win[w].seen.generation + 1) % Generations

Owns(w) ==
    OwnedBy(w) => /\ lock.intent # "stopped" => Busy(w)
                  /\ lock.intent = "restarting" => win[w].restarting

LockInv ==
    /\ ManagerTypeOK
    /\ alive \subseteq Windows
    /\ \A w \in Windows : win[w].stage = "endWrite" => win[w].seen.owner = w
    /\ \A w \in alive \ failed : Staged(w) /\ Remembers(w) /\ Owns(w)

--------------------------------------------------------------------------------
(* What the operators on locks and windows give.                           *)

LEMMA LockTyped ==
  ASSUME NEW o \in Windows \cup {NoWindow}, NEW n \in Nat, NEW p \in Windows \cup {NoWindow},
         NEW intent \in Intents
  PROVE  /\ Lock(o, n, p, intent) \in LockRecords
         /\ Lock(o, n, p, intent).owner = o /\ Lock(o, n, p, intent).intent = intent
         /\ Lock(o, n, p, intent).generation = n % Generations
<1>1. n % Generations \in Nat
  BY LockAssumption
<1> QED BY <1>1 DEF Lock, LockRecords

LEMMA NoLockTyped == NoLock \in LockRecords /\ NoLock.owner \notin Windows /\ NoLock.intent = "stopped"
  BY LockTyped, LockAssumption DEF NoLock, Intents

\* Of these, only what a claim or a restart writes is not "stopped", and says its owner.
LEMMA MarksTyped ==
  ASSUME NEW w \in Windows, NEW seen \in LockRecords
  PROVE  /\ RestartMark(w, seen) \in LockRecords
         /\ RestartMark(w, seen).owner = w
         /\ StopMark(w, seen) \in LockRecords
         /\ StopMark(w, seen).intent = "stopped"
         /\ RestartDone(w, seen) \in LockRecords
         /\ RestartDone(w, seen).owner = seen.owner
         /\ RestartDone(w, seen).intent = "running"
<1>1. seen.generation \in Nat /\ seen.generation + 1 \in Nat /\ seen.owner \in Windows \cup {NoWindow}
  BY DEF LockRecords
<1>2. "stopped" \in Intents /\ "restarting" \in Intents /\ "running" \in Intents
  BY DEF Intents
<1>3. RestartMark(w, seen) \in LockRecords /\ RestartMark(w, seen).owner = w
  BY <1>1, <1>2, LockTyped DEF RestartMark
<1>4. StopMark(w, seen) \in LockRecords /\ StopMark(w, seen).intent = "stopped"
  BY <1>1, <1>2, LockTyped DEF StopMark
<1>5. /\ RestartDone(w, seen) \in LockRecords /\ RestartDone(w, seen).owner = seen.owner
      /\ RestartDone(w, seen).intent = "running"
  BY <1>2 DEF RestartDone, LockRecords
<1> QED BY <1>3, <1>4, <1>5

LEMMA ClaimTyped ==
  ASSUME NEW w \in Windows, NEW seen \in LockRecords
  PROVE  /\ ClaimMark(w, seen) \in LockRecords
         /\ ClaimMark(w, seen).owner = w
         /\ ClaimMark(w, seen).intent = "restarting" => seen.owner = w /\ seen.intent = "restarting"
         /\ seen.owner # w => ClaimMark(w, seen).generation = (seen.generation + 1) % Generations
<1>1. seen.generation + 1 \in Nat /\ "running" \in Intents
  BY DEF LockRecords, Intents
<1>2. CASE seen.owner = w
  BY <1>1, <1>2 DEF ClaimMark, LockRecords
<1>3. CASE seen.owner # w
  <2>1. ClaimMark(w, seen) = Lock(w, seen.generation + 1, w, "running")
    BY <1>3 DEF ClaimMark
  <2> QED BY <1>1, <1>3, <2>1, LockTyped
<1> QED BY <1>2, <1>3

\* What the rest of a window's record has to do with its lock.
Same(r, s) ==
    r.child = s.child /\ r.victim = s.victim /\ r.seen = s.seen /\ r.restarting = s.restarting

LEMMA Shapes ==
  ASSUME NEW r \in WindowRecords
  PROVE  /\ PollStopped(r) \in WindowRecords /\ Same(PollStopped(r), r) /\ PollStopped(r).stage = r.stage
         /\ Attached(r) \in WindowRecords /\ Same(Attached(r), r) /\ Attached(r).stage = r.stage
         /\ Return(r) \in WindowRecords /\ Same(Return(r), r)
         /\ Return(r).stage = IF r.restarting THEN "restartEnd" ELSE "idle"
  BY DEF PollStopped, Attached, Return, WindowRecords, Same, Stages

--------------------------------------------------------------------------------
(* One window takes a step.                                                *)

\* It disturbs the others only by a lock that names one of them as running the server,
\* which none writes.
LEMMA OneWindow ==
  ASSUME LockInv, NEW w \in Windows, NEW r \in WindowRecords, Set(w, r),
         lock' \in LockRecords, lock' = lock \/ lock'.owner = w \/ lock'.intent = "stopped",
         \A v \in Windows \ {w} : v \in dropping' <=> v \in dropping,
         alive' = alive, failed \subseteq failed',
         r.stage = "endWrite" => r.seen.owner = w,
         w \in alive /\ w \notin failed' => (Staged(w) /\ Remembers(w) /\ Owns(w))'
  PROVE  LockInv'
<1>1. /\ win' = [win EXCEPT ![w] = r] /\ ManagerTypeOK'
      /\ \A v \in Windows : win'[v].stage = "endWrite" => win'[v].seen.owner = v
  BY DEF Set, LockInv, ManagerTypeOK
<1>2. ASSUME NEW v \in alive' \ failed', v # w, v \in Windows
      PROVE  (Staged(v) /\ Remembers(v) /\ Owns(v))'
  <2>1. win'[v] = win[v] /\ v \in alive \ failed
    BY <1>1, <1>2 DEF LockInv, ManagerTypeOK
  <2>2. Staged(v) /\ Remembers(v) /\ Owns(v)
    BY <2>1 DEF LockInv
  <2>3. Staged(v)'
    BY <2>1, <2>2 DEF Staged
  <2>4. Busy(v)' <=> Busy(v)
    BY <1>2, <2>1 DEF Busy
  <2>5. lock' = lock \/ lock'.owner # v \/ lock'.intent = "stopped"
    BY <1>2
  <2>6. Remembers(v)'
    BY <2>1, <2>2, <2>5 DEF Remembers, OwnedBy
  <2>7. Owns(v)'
    BY <2>1, <2>2, <2>4, <2>5 DEF Owns, OwnedBy
  <2> QED BY <2>3, <2>6, <2>7
<1> QED BY <1>1, <1>2 DEF LockInv

\* What a window knows of itself before it moves.
LEMMA Typed ==
  ASSUME LockInv, NEW w \in Windows
  PROVE  win[w] \in WindowRecords /\ lock \in LockRecords /\ win[w].seen \in LockRecords
  BY DEF LockInv, ManagerTypeOK, WindowRecords

LEMMA EndsItsOwn ==
  ASSUME LockInv, NEW w \in Windows, win[w].stage = "endWrite"
  PROVE  win[w].seen.owner = w
  BY DEF LockInv

LEMMA Before ==
  ASSUME LockInv, NEW w \in Windows
  PROVE  /\ win[w] \in WindowRecords /\ lock \in LockRecords /\ win[w].seen \in LockRecords
         /\ w \in alive /\ w \notin failed => Staged(w) /\ Remembers(w) /\ Owns(w)
  BY Typed DEF LockInv

\* A step of the window that moves neither its operation nor its server.
LEMMA Aside ==
  ASSUME LockInv, NEW w \in Windows, NEW r \in WindowRecords, Set(w, r),
         Same(r, win[w]), r.stage = win[w].stage, UNCHANGED <<lock, alive, dropping, failed>>
  PROVE  LockInv'
<1>1. win'[w] = r
  BY DEF Set, LockInv, ManagerTypeOK
<1>2. w \in alive /\ w \notin failed' => (Staged(w) /\ Remembers(w) /\ Owns(w))'
  BY <1>1, Before DEF Same, Staged, Remembers, Owns, Busy, OwnedBy
<1>3. r.stage = "endWrite" => r.seen.owner = w
  BY EndsItsOwn DEF Same
<1> QED BY <1>2, <1>3, OneWindow, Typed

LEMMA UntouchedInv ==
  ASSUME LockInv, UNCHANGED <<lock, alive, dropping, win, failed>>
  PROVE  LockInv'
  BY DEF LockInv, ManagerTypeOK, Staged, Remembers, Owns, Busy, OwnedBy

--------------------------------------------------------------------------------
(* start.                                                                  *)

\* The window goes on with its operation, without a claim or a release.
LEMMA Onward ==
  ASSUME LockInv, NEW w \in Windows, NEW r \in WindowRecords, Set(w, r),
         UNCHANGED <<lock, alive, dropping, failed>>,
         r.child = win[w].child, r.victim = win[w].victim, r.restarting = win[w].restarting,
         win[w].stage \notin {"claimConfirm", "spawn", "kill", "closing"},
         r.stage \in {"idle", "closed", "stopMark"} => ~r.restarting,
         r.stage \in {"start", "waitDown", "restartMark", "restartEnd"} => r.restarting,
         r.stage \notin {"closing", "claimWrite", "claimConfirm", "endWrite"}
  PROVE  LockInv'
<1>1. win'[w] = r
  BY DEF Set, LockInv, ManagerTypeOK
<1>2. w \in alive /\ w \notin failed' => (Staged(w) /\ Remembers(w) /\ Owns(w))'
  BY <1>1, Before DEF Staged, Remembers, Owns, Busy, OwnedBy
<1> QED BY <1>2, OneWindow, Before

LEMMA DoStartInv == ASSUME LockInv, NEW w \in Windows, DoStart(w) PROVE LockInv'
<1> DEFINE r == IF win[w].child # NoProc THEN Return(win[w]) ELSE [win[w] EXCEPT !.stage = "probe"]
<1>1. CASE win[w].child # NoProc
  BY <1>1, Before, Shapes, Onward DEF DoStart, Begins, Same
<1>2. CASE win[w].child = NoProc
  <2>1. r \in WindowRecords /\ r = [win[w] EXCEPT !.stage = "probe"]
    BY <1>2, Typed DEF WindowRecords, Stages
  <2> QED BY <1>2, <2>1, Before, Onward DEF DoStart, Begins, WindowRecords
<1> QED BY <1>1, <1>2

LEMMA FirstProbeInv == ASSUME LockInv, NEW w \in Windows, FirstProbe(w) PROVE LockInv'
<1> DEFINE waits == [win[w] EXCEPT !.stage = "awaitRestart"]
           claims == [win[w] EXCEPT !.stage = "claim"]
           stopped == [win[w] EXCEPT !.state = "stopped"]
<1>1. win[w].stage = "probe" /\ UNCHANGED <<lock, alive, dropping, failed>>
  BY DEF FirstProbe, lockVars
<1>2. Set(w, Return(Attached(win[w]))) \/ Set(w, Return(stopped)) \/ Set(w, waits) \/ Set(w, claims)
  BY DEF FirstProbe
<1>3. /\ waits \in WindowRecords /\ Same(waits, win[w]) /\ waits.stage = "awaitRestart"
      /\ claims \in WindowRecords /\ Same(claims, win[w]) /\ claims.stage = "claim"
      /\ stopped \in WindowRecords /\ Same(stopped, win[w])
  BY Typed DEF WindowRecords, Stages, Same
<1> HIDE DEF waits, claims, stopped
<1>4. CASE Set(w, Return(Attached(win[w])))
  BY <1>1, <1>4, Before, Shapes, Onward DEF Same
<1>5. CASE Set(w, Return(stopped))
  BY <1>1, <1>3, <1>5, Before, Shapes, Onward DEF Same
<1>6. CASE Set(w, waits) \/ Set(w, claims)
  BY <1>1, <1>3, <1>6, Onward DEF Same
<1> QED BY <1>2, <1>4, <1>5, <1>6

LEMMA AwaitRestartInv == ASSUME LockInv, NEW w \in Windows, AwaitRestart(w) PROVE LockInv'
<1> DEFINE claims == [win[w] EXCEPT !.stage = "claim"]
<1>1. win[w].stage = "awaitRestart" /\ UNCHANGED <<lock, alive, dropping, failed>>
  BY DEF AwaitRestart, lockVars
<1>2. Set(w, Return(Attached(win[w]))) \/ Set(w, claims)
  BY DEF AwaitRestart
<1>3. claims \in WindowRecords /\ Same(claims, win[w]) /\ claims.stage = "claim"
  BY Typed DEF WindowRecords, Stages, Same
<1> HIDE DEF claims
<1>4. CASE Set(w, Return(Attached(win[w])))
  BY <1>1, <1>4, Before, Shapes, Onward DEF Same
<1>5. CASE Set(w, claims)
  BY <1>1, <1>3, <1>5, Onward DEF Same
<1> QED BY <1>2, <1>4, <1>5

LEMMA AwaitOwnerInv == ASSUME LockInv, NEW w \in Windows, AwaitOwner(w) PROVE LockInv'
<1>1. win[w].stage = "awaitOwner" /\ UNCHANGED <<lock, alive, dropping, failed>>
      /\ Set(w, Return(Attached(win[w])))
  BY DEF AwaitOwner, lockVars
<1> QED BY <1>1, Before, Shapes, Onward DEF Same

\* What it reads as its own and restarting is its own restart.
LEMMA ClaimReadInv == ASSUME LockInv, NEW w \in Windows, ClaimRead(w) PROVE LockInv'
<1> DEFINE writes == [win[w] EXCEPT !.stage = "claimWrite", !.seen = lock]
           waits  == [win[w] EXCEPT !.stage = "awaitOwner"]
<1>1. win[w].stage = "claim" /\ UNCHANGED <<lock, alive, dropping, failed>>
  BY DEF ClaimRead, lockVars
<1>2. Set(w, writes) \/ Set(w, waits)
  BY DEF ClaimRead
<1>3. /\ writes \in WindowRecords /\ writes.stage = "claimWrite" /\ writes.seen = lock
      /\ writes.child = win[w].child /\ writes.victim = win[w].victim
      /\ writes.restarting = win[w].restarting
      /\ waits \in WindowRecords /\ Same(waits, win[w]) /\ waits.stage = "awaitOwner"
  BY Typed DEF WindowRecords, Stages, Same
<1> HIDE DEF writes, waits
<1>4. CASE Set(w, writes)
  <2>1. win'[w] = writes
    BY <1>4 DEF Set, LockInv, ManagerTypeOK
  <2>2. w \in alive /\ w \notin failed' => (Staged(w) /\ Remembers(w) /\ Owns(w))'
    BY <1>1, <1>3, <2>1, Before DEF Staged, Remembers, Owns, Busy, OwnedBy
  <2> QED BY <1>1, <1>3, <1>4, <2>2, Before, OneWindow
<1>5. CASE Set(w, waits)
  BY <1>1, <1>3, <1>5, Onward DEF Same
<1> QED BY <1>2, <1>4, <1>5

LEMMA ClaimWriteInv == ASSUME LockInv, NEW w \in Windows, ClaimWrite(w) PROVE LockInv'
<1> DEFINE r == [win[w] EXCEPT !.stage = "claimConfirm"]
<1>1. /\ win[w].stage = "claimWrite" /\ UNCHANGED <<alive, dropping, failed>>
      /\ lock' = ClaimMark(w, win[w].seen) /\ Set(w, r)
  BY DEF ClaimWrite
<1>2. r \in WindowRecords /\ Same(r, win[w]) /\ r.stage = "claimConfirm"
  BY Typed DEF WindowRecords, Stages, Same
<1>3. win'[w] = r
  BY <1>1 DEF Set, LockInv, ManagerTypeOK
<1> HIDE DEF r
<1>4. w \in alive /\ w \notin failed' => (Staged(w) /\ Remembers(w) /\ Owns(w))'
  BY <1>1, <1>2, <1>3, Before, ClaimTyped DEF Same, Staged, Remembers, Owns, Busy, OwnedBy
<1> QED BY <1>1, <1>2, <1>4, Before, ClaimTyped, OneWindow

\* A claim that does not hold was overwritten.
LEMMA ClaimConfirmInv == ASSUME LockInv, NEW w \in Windows, ClaimConfirm(w) PROVE LockInv'
<1> DEFINE r == [win[w] EXCEPT !.stage = IF ClaimHolds(w, win[w].seen) THEN "spawn" ELSE "awaitOwner",
                               !.seen = NoLock]
<1>1. win[w].stage = "claimConfirm" /\ UNCHANGED <<lock, alive, dropping, failed>> /\ Set(w, r)
  BY DEF ClaimConfirm, lockVars
<1>2. /\ r \in WindowRecords /\ r.child = win[w].child /\ r.victim = win[w].victim
      /\ r.restarting = win[w].restarting
      /\ r.stage = IF ClaimHolds(w, win[w].seen) THEN "spawn" ELSE "awaitOwner"
  BY Typed, NoLockTyped DEF WindowRecords, Stages
<1>3. win'[w] = r
  BY <1>1 DEF Set, LockInv, ManagerTypeOK
<1> HIDE DEF r
<1>4. w \in alive /\ w \notin failed' => (Staged(w) /\ Remembers(w) /\ Owns(w))'
  BY <1>1, <1>2, <1>3, Before DEF ClaimHolds, Staged, Remembers, Owns, Busy, OwnedBy
<1> QED BY <1>1, <1>2, <1>4, Before, OneWindow

LEMMA SpawnInv == ASSUME LockInv, NEW w \in Windows, Spawn(w) PROVE LockInv'
<1>1. PICK p \in Procs : Set(w, [Return(Attached(win[w])) EXCEPT !.child = p])
  BY DEF Spawn
<1> DEFINE r == [Return(Attached(win[w])) EXCEPT !.child = p]
<1>2. win[w].stage = "spawn" /\ UNCHANGED <<lock, alive, dropping, failed>>
  BY DEF Spawn, lockVars
<1>3. /\ r \in WindowRecords /\ r.child = p /\ r.victim = win[w].victim
      /\ r.restarting = win[w].restarting
      /\ r.stage = IF r.restarting THEN "restartEnd" ELSE "idle"
  <2>1. Return(Attached(win[w])) \in WindowRecords
    BY Before, Shapes
  <2>2. /\ r \in WindowRecords /\ r.child = p /\ r.restarting = Return(Attached(win[w])).restarting
        /\ r.victim = Return(Attached(win[w])).victim
        /\ r.stage = Return(Attached(win[w])).stage
    BY <2>1 DEF WindowRecords
  <2> QED BY <2>2, Before, Shapes DEF Same
<1>4. win'[w] = r
  BY <1>1 DEF Set, LockInv, ManagerTypeOK
<1> HIDE DEF r
<1>5. p # NoProc
  BY ManagerAssumption DEF NoProc
<1>6. w \in alive /\ w \notin failed' => (Staged(w) /\ Remembers(w) /\ Owns(w))'
  BY <1>2, <1>3, <1>4, <1>5, Before DEF Staged, Remembers, Owns, Busy, OwnedBy
<1>7. r.stage # "endWrite"
  BY <1>3
<1> QED BY <1>1, <1>2, <1>3, <1>6, <1>7, Typed, OneWindow DEF r

LEMMA StartThrowsInv == ASSUME LockInv, NEW w \in Windows, StartThrows(w) PROVE LockInv'
<1> DEFINE r == [win[w] EXCEPT !.stage = "idle", !.restarting = FALSE]
<1>1. UNCHANGED <<lock, alive, dropping>> /\ Set(w, r) /\ failed' = failed \cup {w}
  BY DEF StartThrows, lockVars
<1>2. r \in WindowRecords /\ r.stage = "idle"
  BY Typed DEF WindowRecords, Stages
<1> HIDE DEF r
<1> QED BY <1>1, <1>2, Before, OneWindow

--------------------------------------------------------------------------------
(* stop.                                                                   *)

LEMMA KillingShape ==
  ASSUME NEW r \in WindowRecords
  PROVE  /\ Killing(r) \in WindowRecords
         /\ Killing(r).stage = "kill" /\ Killing(r).restarting = r.restarting
         /\ Killing(r).seen = r.seen /\ Killing(r).child = NoProc
<1>1. PollStopped(r) \in WindowRecords /\ Same(PollStopped(r), r)
  BY Shapes
<1>2. PollStopped(r).restarting = r.restarting /\ PollStopped(r).seen = r.seen /\ r.child \in Procs \cup {NoProc}
  BY <1>1 DEF Same, WindowRecords
<1> HIDE DEF Same
<1> QED BY <1>1, <1>2 DEF Killing, WindowRecords, Stages

\* A stop leaves the lock to whoever it belonged to, kills its own server and then gives
\* the lock up, or never had it.
LEMMA StopBodyInv ==
  ASSUME LockInv, NEW w \in Windows, NEW closing \in BOOLEAN, StopBody(w, FALSE, closing),
         alive' = alive, failed' = failed,
         win[w].stage \in {"idle", "stopMark"},
         \/ lock' = lock
         \/ lock' \in LockRecords /\ lock'.intent = "stopped",
         w \in alive
  PROVE  LockInv'
<1> DEFINE q == [win[w] EXCEPT !.seen = NoLock]
<1>1. /\ q \in WindowRecords /\ q.child = win[w].child /\ q.victim = win[w].victim
      /\ q.restarting = win[w].restarting
  BY Typed, NoLockTyped DEF WindowRecords
<1> HIDE DEF q
<1>2. w \notin failed => ~win[w].restarting /\ win[w].victim = NoProc
  BY Before DEF Staged
<1>3. CASE q.child # NoProc
  <2> DEFINE r == [Killing(q) EXCEPT !.stage = IF closing THEN "closing" ELSE "kill"]
  <2>1. Set(w, r) /\ dropping' = dropping
    BY <1>3 DEF StopBody, q
  <2>2. /\ r \in WindowRecords /\ r.restarting = win[w].restarting
        /\ r.stage \in {"closing", "kill"}
    <3>1. Killing(q) \in WindowRecords /\ Killing(q).restarting = win[w].restarting
      BY <1>1, KillingShape
    <3> QED BY <3>1 DEF WindowRecords, Stages
  <2>3. win'[w] = r
    BY <2>1 DEF Set, LockInv, ManagerTypeOK
  <2> HIDE DEF r
  <2>4. w \notin failed' => (Staged(w) /\ Remembers(w) /\ Owns(w))'
    BY <1>2, <2>1, <2>2, <2>3, Before DEF Staged, Remembers, Owns, Busy, OwnedBy
  <2> QED BY <2>1, <2>2, <2>4, Before, OneWindow
<1>4. CASE q.child = NoProc
  <2> DEFINE r == [PollStopped(q) EXCEPT !.state = "stopped", !.stage = IF closing THEN "closed" ELSE "idle"]
  <2>1. Set(w, r) /\ dropping' = dropping
    BY <1>4 DEF StopBody, Release, q
  <2>2. /\ r \in WindowRecords /\ r.restarting = win[w].restarting /\ r.child = win[w].child
        /\ r.victim = win[w].victim
        /\ r.stage \in {"closed", "idle"}
    <3>1. PollStopped(q) \in WindowRecords /\ Same(PollStopped(q), q)
      BY <1>1, Shapes
    <3>2. /\ PollStopped(q).restarting = win[w].restarting /\ PollStopped(q).child = win[w].child
          /\ PollStopped(q).victim = win[w].victim
      BY <1>1, <3>1 DEF Same
    <3> QED BY <3>1, <3>2 DEF WindowRecords, Stages
  <2>3. win'[w] = r
    BY <2>1 DEF Set, LockInv, ManagerTypeOK
  <2> HIDE DEF r
  <2>4. w \notin failed' => (Staged(w) /\ Remembers(w) /\ Owns(w))'
    BY <1>2, <2>1, <2>2, <2>3, Before DEF Staged, Remembers, Owns, Busy, OwnedBy
  <2> QED BY <2>1, <2>2, <2>4, Before, OneWindow
<1> QED BY <1>3, <1>4

LEMMA DoStopInv == ASSUME LockInv, NEW w \in Windows, DoStop(w) PROVE LockInv'
  BY StopBodyInv DEF DoStop, Ready, Begins

LEMMA DoManualStopInv == ASSUME LockInv, NEW w \in Windows, DoManualStop(w) PROVE LockInv'
<1> DEFINE r == [win[w] EXCEPT !.stage = "stopMark", !.seen = lock]
<1>1. /\ win[w].stage = "idle" /\ w \in alive
      /\ UNCHANGED <<lock, alive, dropping, failed>> /\ Set(w, r)
  BY DEF DoManualStop, Begins, Ready
<1>2. /\ r \in WindowRecords /\ r.child = win[w].child /\ r.victim = win[w].victim
      /\ r.restarting = win[w].restarting
      /\ r.stage = "stopMark"
  BY Typed DEF WindowRecords, Stages
<1>3. win'[w] = r
  BY <1>1 DEF Set, LockInv, ManagerTypeOK
<1> HIDE DEF r
<1>4. w \notin failed' => (Staged(w) /\ Remembers(w) /\ Owns(w))'
  BY <1>1, <1>2, <1>3, Before DEF Staged, Remembers, Owns, Busy, OwnedBy
<1> QED BY <1>1, <1>2, <1>4, Before, OneWindow

LEMMA StopMarkedInv == ASSUME LockInv, NEW w \in Windows, StopMarked(w) PROVE LockInv'
<1>1. /\ win[w].stage = "stopMark" /\ w \in alive /\ UNCHANGED <<alive, failed>>
      /\ lock' = StopMark(w, win[w].seen)
  BY DEF StopMarked
<1>2. lock' \in LockRecords /\ lock'.intent = "stopped"
  BY <1>1, Before, MarksTyped
<1>3. CASE StopBody(w, FALSE, FALSE)
  BY <1>1, <1>2, <1>3, StopBodyInv
<1>4. CASE ~StopBody(w, FALSE, FALSE)
  <2> DEFINE r == [PollStopped(win[w]) EXCEPT !.state = "stopped", !.stage = "idle", !.seen = NoLock]
  <2>1. Set(w, r) /\ dropping' = dropping \cup {w}
    BY <1>4 DEF StopMarked
  <2>2. /\ r \in WindowRecords /\ r.restarting = win[w].restarting /\ r.stage = "idle"
        /\ r.victim = win[w].victim
    <3>1. PollStopped(win[w]) \in WindowRecords /\ Same(PollStopped(win[w]), win[w])
      BY Before, Shapes
    <3>2. PollStopped(win[w]).restarting = win[w].restarting /\ PollStopped(win[w]).victim = win[w].victim
      BY <3>1 DEF Same
    <3> QED BY <3>1, <3>2, NoLockTyped DEF WindowRecords, Stages
  <2>3. win'[w] = r
    BY <2>1 DEF Set, LockInv, ManagerTypeOK
  <2> HIDE DEF r
  <2>4. w \notin failed' => (Staged(w) /\ Remembers(w) /\ Owns(w))'
    BY <1>1, <1>2, <2>1, <2>2, <2>3, Before DEF Staged, Remembers, Owns, OwnedBy
  <2> QED BY <1>1, <1>2, <2>1, <2>2, <2>4, OneWindow
<1> QED BY <1>3, <1>4

\* The killing is over: the owner gives the lock up, unless it restarts.
LEMMA Killed ==
  ASSUME LockInv, NEW w \in Windows, NEW r \in WindowRecords, Set(w, r), w \in alive,
         UNCHANGED <<lock, alive, failed>>,
         NEW now, Release(w, now), ~win[w].restarting /\ ~FreshRestart => now,
         r.restarting = win[w].restarting, r.stage \in {win[w].stage, AfterKillStage(win[w])},
         r.seen = win[w].seen, r.victim \in {win[w].victim, NoProc},
         w \notin failed /\ r.stage # win[w].stage => win[w].stage \in {"kill", "closing"},
         w \notin failed /\ r.victim # NoProc => r.stage = win[w].stage
  PROVE  LockInv'
<1>1. win'[w] = r
  BY DEF Set, LockInv, ManagerTypeOK
<1>2. \A v \in Windows \ {w} : v \in dropping' <=> v \in dropping
  BY DEF Release
<1>3. w \notin failed => (Staged(w) /\ Remembers(w))'
  BY <1>1, Before DEF Staged, Remembers, AfterKillStage, OwnedBy
<1>4. w \notin failed => Owns(w)'
  <2> SUFFICES ASSUME w \notin failed, OwnedBy(w)
               PROVE  (lock.intent # "stopped" => Busy(w)') /\ (lock.intent = "restarting" => r.restarting)
    BY <1>1 DEF Owns, OwnedBy
  <2>1. lock.intent = "restarting" => win[w].restarting
    BY Before DEF Owns
  <2>2. ~win[w].restarting => w \in dropping'
    BY <2>1 DEF Release, FreshRestart
  <2> QED BY <1>1, <2>1, <2>2 DEF Busy
<1>5. r.stage = "endWrite" => r.seen.owner = w
  BY EndsItsOwn DEF AfterKillStage
<1> QED BY <1>2, <1>3, <1>4, <1>5, Typed, OneWindow

LEMMA KillTimeoutInv == ASSUME LockInv, NEW w \in Windows, KillTimeout(w) PROVE LockInv'
<1> DEFINE r == [win[w] EXCEPT !.stage = AfterKillStage(win[w]), !.victim = NoProc]
<1>1. /\ w \in alive /\ win[w].stage \in {"kill", "closing"} /\ UNCHANGED <<lock, alive, failed>>
      /\ Set(w, r) /\ Release(w, ~win[w].restarting /\ ~FreshRestart)
  BY DEF KillTimeout, Quiet, Ready, KillWaits
<1>2. /\ r \in WindowRecords /\ r.restarting = win[w].restarting /\ r.seen = win[w].seen
      /\ r.stage = AfterKillStage(win[w]) /\ r.victim = NoProc
  BY Typed DEF WindowRecords, Stages, AfterKillStage
<1> HIDE DEF r
<1> QED BY <1>1, <1>2, Killed

\* The exit of a server that nobody killed, or of one before the present one, is the
\* end of a killing for the lock.
LEMMA ExitEventInv ==
  ASSUME LockInv, NEW w \in Windows, NEW p \in Procs, ExitEvent(w, p) PROVE LockInv'
<1> DEFINE o == [win[w] EXCEPT !.child = NoProc]
           q == PollStopped(o)
           s == IF proc[p].why = "port" THEN [q EXCEPT !.fallback = TRUE]
                ELSE [q EXCEPT !.state = IF proc[p].why = "ok" THEN "stopped" ELSE "error"]
           over == [s EXCEPT !.victim = NoProc, !.stage = AfterKillStage(q)]
           now == proc[p].why = "port" \/ (~win[w].restarting /\ ~FreshRestart)
<1>1. /\ w \in alive /\ UNCHANGED <<lock, alive, failed>>
      /\ Set(w, IF q.victim # p THEN s ELSE over) /\ Release(w, now)
  BY DEF ExitEvent, Quiet, Ready
<1>2. o \in WindowRecords /\ Same(o, [win[w] EXCEPT !.child = NoProc]) /\ o.stage = win[w].stage
      /\ o.victim = win[w].victim /\ o.restarting = win[w].restarting /\ o.seen = win[w].seen
  BY Typed DEF WindowRecords, Same
<1> HIDE DEF o
<1>3. /\ q \in WindowRecords /\ q.stage = win[w].stage /\ q.victim = win[w].victim
      /\ q.restarting = win[w].restarting /\ q.seen = win[w].seen
  BY <1>2, Shapes DEF Same
<1> HIDE DEF q
<1>4. /\ s \in WindowRecords /\ s.stage = win[w].stage /\ s.restarting = win[w].restarting
      /\ s.seen = win[w].seen /\ s.victim = win[w].victim
  BY <1>3 DEF WindowRecords
<1> HIDE DEF s
<1>5. AfterKillStage(q) = AfterKillStage(win[w])
  BY <1>3 DEF AfterKillStage
<1>6. /\ over \in WindowRecords /\ over.stage = AfterKillStage(win[w])
      /\ over.restarting = win[w].restarting /\ over.seen = win[w].seen /\ over.victim = NoProc
  BY <1>4, <1>5 DEF WindowRecords, Stages, AfterKillStage
<1> HIDE DEF over
<1>7. CASE q.victim # p
  BY <1>1, <1>4, <1>7, Killed
<1>8. CASE q.victim = p
  <2>1. w \notin failed => win[w].stage \in {"kill", "closing"}
    BY <1>1, <1>3, <1>8, ManagerAssumption, Before DEF Staged, NoProc
  <2> QED BY <1>1, <1>6, <1>8, <2>1, Killed
<1> QED BY <1>7, <1>8

--------------------------------------------------------------------------------
(* restart.                                                                *)

LEMMA DoRestartInv == ASSUME LockInv, NEW w \in Windows, DoRestart(w) PROVE LockInv'
<1> DEFINE r == [win[w] EXCEPT !.stage = "restartMark", !.seen = lock, !.restarting = TRUE]
<1>1. /\ win[w].stage = "idle" /\ w \in alive
      /\ UNCHANGED <<lock, alive, dropping, failed>> /\ Set(w, r)
  BY DEF DoRestart, Begins, Ready, lockVars
<1>2. r \in WindowRecords /\ r.restarting /\ r.stage = "restartMark" /\ r.victim = win[w].victim
  BY Typed DEF WindowRecords, Stages
<1>3. win'[w] = r
  BY <1>1 DEF Set, LockInv, ManagerTypeOK
<1> HIDE DEF r
<1>4. w \notin failed' => (Staged(w) /\ Remembers(w) /\ Owns(w))'
  BY <1>1, <1>2, <1>3, Before DEF Staged, Remembers, Owns, Busy, OwnedBy
<1> QED BY <1>1, <1>2, <1>4, Before, OneWindow

LEMMA RestartMarkedInv == ASSUME LockInv, NEW w \in Windows, RestartMarked(w) PROVE LockInv'
<1> DEFINE q == [win[w] EXCEPT !.seen = NoLock]
           waits == [PollStopped(q) EXCEPT !.stage = "waitDown"]
<1>1. /\ win[w].stage = "restartMark" /\ UNCHANGED <<alive, dropping, failed>>
      /\ lock' = RestartMark(w, win[w].seen)
      /\ Set(w, Killing(q)) \/ Set(w, waits)
  BY DEF RestartMarked
<1>2. lock' \in LockRecords /\ lock'.owner = w
  BY <1>1, Before, MarksTyped
<1>3. q \in WindowRecords /\ q.restarting = win[w].restarting /\ q.victim = win[w].victim
  BY Typed, NoLockTyped DEF WindowRecords
<1> HIDE DEF q
<1>4. /\ Killing(q) \in WindowRecords /\ Killing(q).stage = "kill"
      /\ Killing(q).restarting = win[w].restarting
  BY <1>3, KillingShape
<1>5. /\ waits \in WindowRecords /\ waits.stage = "waitDown"
      /\ waits.restarting = win[w].restarting /\ waits.victim = win[w].victim
  <2>1. PollStopped(q) \in WindowRecords /\ PollStopped(q).restarting = win[w].restarting
        /\ PollStopped(q).victim = win[w].victim
    BY <1>3, Shapes DEF Same
  <2> QED BY <2>1 DEF WindowRecords, Stages
<1> HIDE DEF waits
<1>6. ASSUME NEW r \in {Killing(q), waits}, Set(w, r) PROVE LockInv'
  <2>1. win'[w] = r
    BY <1>6 DEF Set, LockInv, ManagerTypeOK
  <2>2. r \in WindowRecords /\ r.restarting = win[w].restarting /\ r.stage \in {"kill", "waitDown"}
        /\ (r.victim = win[w].victim \/ r.stage = "kill")
    BY <1>4, <1>5, <1>6
  <2>3. w \in alive /\ w \notin failed' => (Staged(w) /\ Remembers(w) /\ Owns(w))'
    BY <1>1, <1>2, <2>1, <2>2, Before DEF Staged, Remembers, Owns, Busy
  <2> QED BY <1>1, <1>2, <1>6, <2>2, <2>3, OneWindow
<1> QED BY <1>1, <1>6

LEMMA WaitDownInv == ASSUME LockInv, NEW w \in Windows, WaitDown(w) PROVE LockInv'
<1> DEFINE r == [win[w] EXCEPT !.stage = "start"]
<1>1. /\ win[w].stage = "waitDown" /\ w \in alive
      /\ UNCHANGED <<lock, alive, dropping, failed>> /\ Set(w, r)
  BY DEF WaitDown, Ready, lockVars
<1>2. r \in WindowRecords /\ Same(r, win[w]) /\ r.stage = "start"
  BY Typed DEF WindowRecords, Stages, Same
<1>3. win'[w] = r
  BY <1>1 DEF Set, LockInv, ManagerTypeOK
<1> HIDE DEF r
<1>4. w \notin failed' => (Staged(w) /\ Remembers(w) /\ Owns(w))'
  BY <1>1, <1>2, <1>3, Before DEF Same, Staged, Remembers, Owns, Busy, OwnedBy
<1> QED BY <1>1, <1>2, <1>4, Before, OneWindow

LEMMA RestartOverShape ==
  ASSUME NEW r \in WindowRecords
  PROVE  /\ RestartOver(r) \in WindowRecords /\ RestartOver(r).stage = "idle"
         /\ RestartOver(r).child = r.child /\ RestartOver(r).victim = r.victim
         /\ ~RestartOver(r).restarting
  BY NoLockTyped DEF RestartOver, WindowRecords, Stages

\* It ends without the lock,
LEMMA RestartEndInv == ASSUME LockInv, NEW w \in Windows, RestartEnd(w) PROVE LockInv'
<1> DEFINE r == IF OwnedBy(w) THEN [win[w] EXCEPT !.stage = "endWrite", !.seen = lock]
                ELSE RestartOver(win[w])
<1>1. /\ win[w].stage = "restartEnd" /\ w \in alive
      /\ UNCHANGED <<lock, alive, dropping, failed>> /\ Set(w, r)
  BY DEF RestartEnd, lockVars
<1>2. CASE OwnedBy(w)
  <2>1. /\ r \in WindowRecords /\ r.stage = "endWrite" /\ r.seen = lock /\ r.victim = win[w].victim
        /\ r.restarting = win[w].restarting
    BY <1>2, Typed DEF WindowRecords, Stages
  <2>2. win'[w] = r
    BY <1>1 DEF Set, LockInv, ManagerTypeOK
  <2> HIDE DEF r
  <2>3. w \notin failed' => (Staged(w) /\ Remembers(w) /\ Owns(w))'
    BY <1>1, <1>2, <2>1, <2>2, Before DEF Staged, Remembers, Owns, Busy, OwnedBy
  <2> QED BY <1>1, <1>2, <2>1, <2>3, Typed, OneWindow DEF OwnedBy
<1>3. CASE ~OwnedBy(w)
  <2>1. r = RestartOver(win[w])
    BY <1>3
  <2>2. win'[w] = r
    BY <1>1 DEF Set, LockInv, ManagerTypeOK
  <2> HIDE DEF r
  <2>3. w \notin failed' => (Staged(w) /\ Remembers(w) /\ Owns(w))'
    BY <1>1, <1>3, <2>1, <2>2, Before, RestartOverShape DEF Staged, Remembers, Owns, OwnedBy
  <2> QED BY <1>1, <2>1, <2>3, Before, RestartOverShape, OneWindow
<1> QED BY <1>2, <1>3

\* or ends the mark, and gives up a lock that it has no server for.
LEMMA EndWriteInv == ASSUME LockInv, NEW w \in Windows, EndWrite(w) PROVE LockInv'
<1>1. /\ win[w].stage = "endWrite" /\ w \in alive /\ UNCHANGED <<alive, failed>>
      /\ lock' = RestartDone(w, win[w].seen)
      /\ dropping' = IF win[w].child = NoProc THEN dropping \cup {w} ELSE dropping
      /\ Set(w, RestartOver(win[w]))
  BY DEF EndWrite
<1>2. lock' \in LockRecords /\ lock'.intent = "running" /\ lock'.owner = win[w].seen.owner
  BY <1>1, Before, MarksTyped
<1>3. win'[w] = RestartOver(win[w])
  BY <1>1 DEF Set, LockInv, ManagerTypeOK
<1>4. w \notin failed' => (Staged(w) /\ Remembers(w) /\ Owns(w))'
  BY <1>1, <1>2, <1>3, Before, RestartOverShape DEF Staged, Remembers, Owns, Busy, OwnedBy
<1>5. lock'.owner = w
  BY <1>1, <1>2, EndsItsOwn
<1> QED BY <1>1, <1>2, <1>4, <1>5, Before, RestartOverShape, OneWindow

--------------------------------------------------------------------------------
(* What runs beside the operations.                                        *)

LEMMA AskedShape ==
  ASSUME NEW r \in WindowRecords
  PROVE  /\ TakeoverAsked(r) \in WindowRecords /\ Same(TakeoverAsked(r), r)
         /\ TakeoverAsked(r).stage = r.stage
  BY DEF TakeoverAsked, WindowRecords, Same

LEMMA PolledShape ==
  ASSUME NEW r \in WindowRecords
  PROVE  Polled(r) \in WindowRecords /\ Same(Polled(r), r) /\ Polled(r).stage = r.stage
<1>1. CASE Listening
  BY <1>1 DEF Polled, WindowRecords, Same
<1>2. CASE ~Listening
  BY <1>2, Shapes, AskedShape DEF Polled, Same
<1> QED BY <1>1, <1>2

LEMMA PollInv == ASSUME LockInv, NEW w \in Windows, Poll(w) PROVE LockInv'
  BY Before, PolledShape, Aside DEF Poll, lockVars

LEMMA LatePollInv ==
  ASSUME LockInv, NEW w \in Windows, NEW back \in BOOLEAN, LatePoll(w, back) PROVE LockInv'
<1> DEFINE q == IF back THEN Polled(win[w]) ELSE win[w]
           r == [q EXCEPT !.poll = "off"]
<1>1. q \in WindowRecords /\ Same(q, win[w]) /\ q.stage = win[w].stage
  BY Before, PolledShape DEF Same
<1>2. Set(w, r) /\ UNCHANGED <<lock, alive, dropping, failed>>
  BY DEF LatePoll, lockVars
<1> HIDE DEF q
<1>3. r \in WindowRecords /\ Same(r, win[w]) /\ r.stage = win[w].stage
  BY <1>1 DEF WindowRecords, Same
<1> QED BY <1>2, <1>3, Aside

LEMMA FallbackInv == ASSUME LockInv, NEW w \in Windows, Fallback(w) PROVE LockInv'
<1> DEFINE q == [win[w] EXCEPT !.fallback = FALSE]
           r == IF Listening THEN Attached(q) ELSE [q EXCEPT !.state = "error"]
<1>1. q \in WindowRecords /\ Same(q, win[w]) /\ q.stage = win[w].stage
  BY Typed DEF WindowRecords, Same
<1>2. Set(w, r) /\ UNCHANGED <<lock, alive, dropping, failed>>
  BY DEF Fallback, lockVars
<1> HIDE DEF q
<1>3. r \in WindowRecords /\ Same(r, win[w]) /\ r.stage = win[w].stage
  <2>1. CASE Listening
    BY <1>1, <2>1, Shapes DEF Same
  <2>2. CASE ~Listening
    BY <1>1, <2>2 DEF WindowRecords, Same
  <2> QED BY <2>1, <2>2
<1> QED BY <1>2, <1>3, Aside

LEMMA TakeoverInv == ASSUME LockInv, NEW w \in Windows, Takeover(w) PROVE LockInv'
<1> DEFINE q == [win[w] EXCEPT !.takeover = FALSE]
           stopped == [q EXCEPT !.state = "stopped"]
           yields == [q EXCEPT !.yielded = TRUE]
<1>1. q \in WindowRecords /\ Same(q, win[w]) /\ q.stage = win[w].stage
  BY Typed DEF WindowRecords, Same
<1>2. /\ Set(w, stopped) \/ Set(w, yields) \/ Set(w, q) \/ Set(w, Attached(q))
      /\ UNCHANGED <<lock, alive, dropping, failed>>
  BY DEF Takeover, lockVars
<1> HIDE DEF q
<1>3. /\ stopped \in WindowRecords /\ Same(stopped, win[w]) /\ stopped.stage = win[w].stage
      /\ yields \in WindowRecords /\ Same(yields, win[w]) /\ yields.stage = win[w].stage
  BY <1>1 DEF WindowRecords, Same
<1>4. Attached(q) \in WindowRecords /\ Same(Attached(q), win[w]) /\ Attached(q).stage = win[w].stage
  BY <1>1, Shapes DEF Same
<1> HIDE DEF stopped, yields
<1> QED BY <1>1, <1>2, <1>3, <1>4, Aside

\* The window is gone, and whatever it held is no live window's.
LEMMA WindowEndsInv == ASSUME LockInv, NEW w \in Windows, WindowEnds(w) PROVE LockInv'
<1>1. /\ alive' = alive \ {w} /\ dropping' = dropping \ {w} /\ UNCHANGED <<lock, failed>>
      /\ win' = [win EXCEPT ![w] = NewWindow]
  BY DEF WindowEnds
<1>2. NewWindow \in WindowRecords /\ NewWindow.stage = "idle"
  BY NoLockTyped DEF NewWindow, WindowRecords, Stages
<1>3. \A v \in alive' : v # w /\ win'[v] = win[v] /\ (v \in dropping' <=> v \in dropping) /\ v \in alive
  BY <1>1 DEF LockInv, ManagerTypeOK
<1>4. ManagerTypeOK' /\ alive' \subseteq Windows
      /\ \A v \in Windows : win'[v].stage = "endWrite" => win'[v].seen.owner = v
  BY <1>1, <1>2 DEF LockInv, ManagerTypeOK
<1>5. \A v \in alive' \ failed' : (Staged(v) /\ Remembers(v) /\ Owns(v))'
  BY <1>1, <1>3 DEF LockInv, Staged, Remembers, Owns, Busy, OwnedBy
<1> QED BY <1>4, <1>5 DEF LockInv

\* The lock is removed, whoever has it by then, or grows stale.
LEMMA UnlinkInv ==
  ASSUME LockInv, NEW w \in Windows, Unlink(w), UNCHANGED <<win, failed>> PROVE LockInv'
<1>1. lock' = NoLock /\ UNCHANGED <<alive, win, failed>>
  BY DEF Unlink
<1>2. ManagerTypeOK'
  BY <1>1, NoLockTyped DEF LockInv, ManagerTypeOK
<1>3. \A v \in alive' \ failed' : (Staged(v) /\ Remembers(v) /\ Owns(v))'
  BY <1>1, NoLockTyped DEF LockInv, Staged, Remembers, Owns, OwnedBy
<1> QED BY <1>1, <1>2, <1>3 DEF LockInv

LEMMA GrowsStaleInv ==
  ASSUME LockInv, RestartGrowsStale, UNCHANGED <<win, failed>> PROVE LockInv'
<1>1. /\ lock' = [lock EXCEPT !.fresh = FALSE] /\ UNCHANGED <<alive, dropping, win, failed>>
  BY DEF RestartGrowsStale
<1>2. /\ lock' \in LockRecords /\ lock'.owner = lock.owner /\ lock'.intent = lock.intent
      /\ lock'.generation = lock.generation
  BY <1>1 DEF LockInv, ManagerTypeOK, LockRecords
<1>3. ManagerTypeOK'
  BY <1>1, <1>2 DEF LockInv, ManagerTypeOK
<1>4. \A v \in alive' \ failed' : (Staged(v) /\ Remembers(v) /\ Owns(v))'
  BY <1>1, <1>2 DEF LockInv, Staged, Remembers, Owns, Busy, OwnedBy
<1> QED BY <1>1, <1>3, <1>4 DEF LockInv

--------------------------------------------------------------------------------
(* The lock is true.                                                       *)

LEMMA OperationInv == ASSUME LockInv, NEW w \in Windows, Operation(w) PROVE LockInv'
<1>1. CASE Closed(w)
  BY <1>1, WindowEndsInv DEF Closed
<1> QED BY <1>1, DoStartInv, FirstProbeInv, AwaitRestartInv, ClaimReadInv, ClaimWriteInv,
           ClaimConfirmInv, AwaitOwnerInv, SpawnInv, DoStopInv, DoManualStopInv, StopMarkedInv,
           KillTimeoutInv, DoRestartInv, RestartMarkedInv, WaitDownInv, RestartEndInv, EndWriteInv
        DEF Operation

LEMMA WindowStepInv ==
  ASSUME LockInv, NEW w \in Windows,
         \/ Operation(w) \/ StartThrows(w)
         \/ Unlink(w) /\ UNCHANGED managerVars
         \/ Fallback(w) \/ Poll(w) \/ \E back \in BOOLEAN : LatePoll(w, back)
         \/ Takeover(w)
         \/ \E f \in Files : Watch(w, f)
         \/ \E op \in {"start", "manualStop", "restart", "close"} : Command(w, op)
         \/ WindowCrashes(w)
         \/ \E p \in Procs : ExitEvent(w, p)
  PROVE  LockInv'
<1>1. CASE Unlink(w) /\ UNCHANGED managerVars
  BY <1>1, UnlinkInv DEF managerVars
<1>2. ASSUME NEW f \in Files, Watch(w, f) PROVE LockInv'
  BY <1>2, UntouchedInv DEF Watch
<1>3. ASSUME NEW op, Command(w, op) PROVE LockInv'
  BY <1>3, UntouchedInv DEF Command, lockVars
<1>4. CASE WindowCrashes(w)
  BY <1>4, WindowEndsInv DEF WindowCrashes
<1> QED BY <1>1, <1>2, <1>3, <1>4, OperationInv, StartThrowsInv, FallbackInv, PollInv, LatePollInv,
           TakeoverInv, ExitEventInv

LEMMA ProcessInv ==
  ASSUME LockInv, NEW p \in Procs, Listen(p) \/ PortTaken(p) \/ Dies(p) \/ Crashes(p) PROVE LockInv'
  BY UntouchedInv DEF Listen, PortTaken, Dies, Crashes, lockVars

LEMMA ManagerInitInv == ManagerInit => LockInv
<1> SUFFICES ASSUME ManagerInit PROVE LockInv
  OBVIOUS
<1>1. /\ NewWindow \in WindowRecords /\ NewWindow.stage = "idle" /\ ~NewWindow.restarting
      /\ NewWindow.victim = NoProc
  BY NoLockTyped DEF NewWindow, WindowRecords, Stages
<1>2. CASE Opening \/ StoppedByUser
  <2>1. lock = NoLock /\ alive = Windows /\ win = [w \in Windows |-> NewWindow]
    BY <1>2 DEF Opening, StoppedByUser
  <2> QED BY <1>1, <2>1, NoLockTyped DEF LockInv, ManagerTypeOK, Staged, Remembers, Owns, OwnedBy
<1>3. CASE Settled
  <2>1. PICK o \in Windows, p \in Procs :
          /\ lock = Lock(o, 1, o, "running")
          /\ win = [w \in Windows |->
                [NewWindow EXCEPT !.state = "up", !.poll = "on", !.child = IF w = o THEN p ELSE NoProc]]
    BY <1>3 DEF Settled
  <2>2. lock \in LockRecords /\ lock.owner = o /\ lock.intent = "running"
    <3>1. "running" \in Intents /\ o \in Windows \cup {NoWindow} /\ 1 \in Nat
      BY DEF Intents
    <3> HIDE DEF Intents
    <3>2. /\ Lock(o, 1, o, "running") \in LockRecords
          /\ Lock(o, 1, o, "running").owner = o /\ Lock(o, 1, o, "running").intent = "running"
      BY <3>1, LockTyped
    <3> QED BY <2>1, <3>2
  <2>3. \A w \in Windows : /\ win[w] \in WindowRecords /\ win[w].stage = "idle" /\ ~win[w].restarting
                           /\ win[w].victim = NoProc /\ (w = o => win[w].child = p)
    BY <1>1, <2>1 DEF WindowRecords
  <2>4. p # NoProc /\ alive = Windows /\ win \in [Windows -> WindowRecords]
    BY <1>3, <2>1, <2>3, ManagerAssumption DEF Settled, NoProc
  <2> QED BY <2>2, <2>3, <2>4 DEF LockInv, ManagerTypeOK, Staged, Remembers, Owns, OwnedBy, Busy
<1>4. CASE Abandoned
  <2>1. PICK o \in Windows :
          /\ lock = Lock(o, 2, o, "restarting") /\ alive = Windows \ {o}
          /\ win = [w \in Windows |-> IF w = o THEN NewWindow
                                      ELSE [NewWindow EXCEPT !.state = "up", !.poll = "on"]]
    BY <1>4 DEF Abandoned
  <2>2. lock \in LockRecords /\ lock.owner = o
    BY <2>1, LockTyped DEF Intents
  <2>3. \A w \in Windows : /\ win[w] \in WindowRecords /\ win[w].stage = "idle" /\ ~win[w].restarting
                           /\ win[w].victim = NoProc
    BY <1>1, <2>1 DEF WindowRecords
  <2>4. win \in [Windows -> WindowRecords]
    BY <2>1, <2>3
  <2> QED BY <2>1, <2>2, <2>3, <2>4 DEF LockInv, ManagerTypeOK, Staged, Remembers, Owns, OwnedBy
<1> QED BY <1>2, <1>3, <1>4 DEF ManagerInit

LEMMA ManagerNextInv == LockInv /\ [ManagerNext]_vars => LockInv'
<1> SUFFICES ASSUME LockInv, [ManagerNext]_vars PROVE LockInv'
  OBVIOUS
<1>1. CASE UNCHANGED vars
  BY <1>1, UntouchedInv DEF vars, lockVars, managerVars
<1>2. CASE RestartGrowsStale /\ UNCHANGED managerVars
  BY <1>2, GrowsStaleInv DEF managerVars
<1> QED BY <1>1, <1>2, WindowStepInv, ProcessInv DEF ManagerNext

\* What the lock says of a live window is so, whatever stale reading of it another
\* window writes back, whichever exit or timeout comes first, and whoever dies: no
\* window keeps a lock it has no server for, nor the mark of a restart that is over
\* (tryClaimOwner, releaseOwner, beginRestart, endRestart, setManualStop).
THEOREM LockStaysTrue == ManagerSpec => []LockIsTrue
<1>1. LockInv => LockIsTrue
  BY DEF LockInv, LockIsTrue, Staged, Owns, Busy, OwnedBy, Idle
<1> QED BY <1>1, ManagerInitInv, ManagerNextInv, PTL DEF ManagerSpec

================================================================================
