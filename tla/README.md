# A TLA+ model of CursorRemoteControl

CursorRemoteControl lets a person, and under a grant a supervising program, watch
and operate the Cursor editor from a browser or from Telegram. A server attaches to
Cursor over the Chrome DevTools Protocol (CDP), extracts the state of the page,
broadcasts it, and carries out commands by clicking in the page. This directory
models the parts of the server whose correctness depends on the order of events:
what is durable when, who may act on the page, and what is known after a failure.

## The system

| part | state | operations | what makes it hard | what makes it correct |
|---|---|---|---|---|
| Atomic file writes (`persist.ts`) | a file, its temporary sibling | `writeJsonAtomic` | any system call may fail; death or power loss between two | a write that returned is on the disk; one that did not leaves the old or the new content |
| Operation journal (`operation-journal.ts`) | records by operation id, in memory and in a file | create, mark…, settle, cancel, load | failed commits, capacity, restart | an operation that may have begun is never one that may begin |
| Supervision manager and policy (`supervision-manager.ts`, `supervision-policy.ts`) | grants, redeem codes, tokens, issue permits | create, redeem, revoke, charge, pause, clear, renew, decide, list, consume, recover | expiry, restart, failed commits, a decision that outlives its circumstances | charges survive, revocation is final, a code works once, a permit means what the owner saw |
| Scoped command service (`scoped-command-service.ts`) | executions in flight | execute, cancel pending | awaits between check and use, timeouts, takeover, crash | no mutation without authority, at most one per request, the journal is truthful |
| Target UI coordinator (`target-ui-coordinator.ts`) | per target: a generation and a chain of tickets | enqueue, cancel, change of generation | callbacks that outlive their caller | one callback at a time, none for a page that is gone, everyone is answered |
| Relay (`relay.ts`) | sockets, routes, cache of socket operations | routes for owners and supervisors, `ownerTakeover` | requests racing each other and the page | the routes keep the rules of the services they call |
| Command executor (`command-executor.ts`) | results by command id | commands, retries | replays, the guard before a mutation | the guard has run before every supervised mutation |
| Action registry (`action-registry.ts`) | actions extracted from the page | register, resolve, expire | an action that is used after the page changed | an id names one action for its life |
| CDP client, bridge and discovery (`cdp-client.ts`, `cdp-bridge.ts`, `target-discovery.ts`) | the connection, the windows, a generation per target | connect, reconnect, switch | a disconnect during an await | generations only grow; a listener that is told late of a connection still acts on the one that is held |
| Wiring (`index.ts`) | – | on connected, on disconnected, probes | events of the bridge reach lanes, monitors and capabilities in some order | no probe result of an old target is applied |
| State manager (`state-manager.ts`) | the current state, a debounced patch | extraction, failure, connection, windows | immediate patches overtake the debounced one | whoever applies the patches has the state |
| Window monitor (`window-monitor.ts`) | home window, snapshots | polling cycle, switch | cycles that overlap | a snapshot belongs to the window it is stored for |
| Capability state and probes (`capability-*.ts`, `*-probe.ts`) | snapshots by target generation, a circuit breaker | observe, go stale, change generation | late observations | an old generation never overwrites a new one |
| Selector adapters (`adapter-store.ts`, …) | accepted adapters and their backups | propose, accept, roll back | failed writes | the previous adapter can be restored |
| Web sessions (`webapp-sessions.ts`) | sessions, a debounced file | login, touch, expire, evict | a debounced write next to immediate ones | a session that ended stays ended, and a restart forgets little use |
| Telegram (`transports/`) | topics, tracked messages, a send queue | sync, send, edit | 429 answers, overflow, restarts | order and answers of the queue |
| Extension (`extension/src/`) | owner and manual-stop files, the child process | start, stop, restart, take over, health | several editor windows | one server, started by one window |
| Web client, plan files, DOM extraction, developer tools | – | – | presentation, or scripts run inside the page | – |

How a supervised write travels, which is the core of the model: an HTTP request is
authenticated and scoped by the relay; the scoped command service journals it
(`recorded`, `pending`), checks the grant, and asks the command executor to dispatch;
the executor queues a callback in the lane of the target; when its turn comes, the
callback runs the guard `beforeDispatch` (checks again, awaits a reading of the
draft, searches the journal, marks the record `dispatching`, charges the grant) and
only then touches the page; the outcome comes back, the record is `dispatched` and
then `confirmed`, or `unknown` and the grant paused. Meanwhile the owner may take
over by any action of his own, which pauses the grants and cancels what has not begun.

## Modules

    Persist <- AtomicFile                    inside one write
    Persist <- OperationJournal              implements OperationLedger
    Persist <- Supervision <- SupervisionHistory <- MCSupervision
               SupervisionProofs             theorems about SupervisionHistory
               Supervision + OperationJournal <- ScopedCommand <- MCScopedCommand
               ScopedCommandProofs           theorems about ScopedCommand
    Persist <- WebSessions
               AdapterStore
               OperationJournal | AtomicFile | AdapterStore | WebSessions <- MCPersistence
               PersistenceProofs             theorems about the four parts
    TargetUiLane                             implements UiLane
    TargetUiLane + ActionRegistry <- UiCommands <- SocketCommands <- CommandPath
               CommandProofs                 theorems about CommandPath
    PlanPage <- PlanDocument <- PlanReading <- PlanModal
               PlanModalProofs               theorems about PlanModal
    CdpBridge + CapabilityState <- ServerWiring <- MCServerWiring
               CdpBridgeProofs               theorems about CdpBridge and ServerWiring
    StateManager <- WindowMonitor <- StateSync <- MCStateSync
    LifecycleLock <- ServerManager
               ServerManagerProofs           a theorem about ServerManager
    SendQueue + MessageTracker <- TelegramMirror
               TopicUpdates                  what a topic's text or button does to the IDE
    StateSync | TelegramMirror <- MirrorProofs

An arrow is EXTENDS: the module on the right composes what is on its left with the
code that calls it, which is how most of the interleavings arise.

**Files.**
* **Persist** is `writeJsonAtomic` as its callers see it: it returns with the new
  content in the file, or throws with one of the contents of `FileAfterFailure`.
  `UnlinkFallback` says whether the platform needs the unlink-then-rename path.
* **AtomicFile** has one action per system call of `writeFileAtomic`, each of which
  may fail, with `Die` and `LosePower` between any two. `images` is what the disk
  may hold after a power loss. Its property justifies `Persist`.
* **OperationJournal** has one action per method of the journal. A store is the order
  of insertion with a status and a payload digest for each id. Every change goes
  through `Write`, which models `commit`: the file may have changed when memory did
  not. `begun` is the history of calls of `markDispatching` that returned.
* **OperationLedger** is the promise: per operation a phase (absent, undispatched,
  inflight, uncertain, done) and the few ways it may change, crash included.
* **AdapterStore** has the operations of the adapter file under its mutex: discovery,
  rejection and rollback as the routes and the runtime call them, the commit that
  rotates one backup after the other, the load that restores from the newest readable
  backup, with a failed step, a death or a damaged file anywhere.
* **WebSessions** has login with eviction, touch, expiry by age and idleness, and the
  file written at once for some changes and after an interval for others.

**Supervised writes.**
* **Supervision** has one action per method of the manager. The random control
  version is a counter, since the code only compares it for equality; a grant has one
  redeem code and at most one token, so both are a field. **SupervisionHistory** adds
  what callers were told, computed from each step.
* **ScopedCommand** composes the two stores with the service, the takeover and the
  routes of the relay. A record of `call` is one `executeOnce` (`pc`) together with
  the callback it dispatched (`run`), which can outlive it. Code without an await is
  one turn: its commits are separate steps, so the process can die between them, and
  `Ready` keeps everyone else out until the turn ends. `owner` is a takeover in
  progress, one commit per step.

**Commands of a person.**
* **UiLane** is what the coordinator promises (`target-ui-coordinator.ts:51`): a line, one turn
  at a time, one answer each. **TargetUiLane** is one lane of it, a chain of gates with
  generations and cancelled tickets; lanes share nothing. In line are the tickets at the
  end of the chain that were not cancelled (`DuePlaces`).
* **ActionRegistry** is the life of one registered button: seen, reserved, consumed or
  released, invalidated with its generation, pruned.
* **UiCommands** is the executor: the results it keeps by command id for a while, a
  callback of the lane made of attempts, each of which may act once, the retry of a
  "send" and the reservation of a "click". **SocketCommands** is the relay's record of
  an operation, which joins a repeated request to the first, replays its answer, or
  refuses it; **CommandPath** the web client with its envelope, its timers, the answers
  that come late and the socket that comes and goes.

**Reading plans.** **PlanPage** is Cursor's page with what one `evaluate` of the helper
script may see and change. **PlanDocument** is the walk through it: find the card,
open the document, note the file, put everything back; or walk up to discover cards.
**PlanReading** is the relay's guard around it, **PlanModal** the dialog of the client.

**Connection and state.**
* **CdpBridge** splits connect, switchWindow and disconnect at every await, with the
  reconnect timer; an attempt and its client are named by their `connectGen`.
  **CapabilityState** holds the pure operators on records of modes and models.
  **ServerWiring** adds the listeners of `index.ts` and the probes.
* **StateManager** is the published state and its patches; **WindowMonitor** the
  snapshots and the cycles that may overlap; **StateSync** connects both to a bridge
  that moves among windows and to the extractor's poll.

**Extension.** **LifecycleLock** has one operator per access to the two lock files, so a
window's knowledge is as old as its last read. **ServerManager** runs the chain of
operations of each window next to its polls, watchers and exit events, and the
spawned processes, one of which gets the port.

**Telegram.** **SendQueue** and **MessageTracker** are the two classes; **TelegramMirror**
is the transport: the jobs that mirror a window, and the commands that create, rebind
and delete topics. **TopicUpdates** is the other direction.

A definition next to one of the model and named for what it gets wrong
(`CommitWithoutWrite`, `TimeoutReleasing`, ...) is a deliberately broken variant. No
specification uses them: PROJECT.json says which definition each may replace, and the
property that then fails, which is how the properties are themselves tested.

## What the runs show

| run | instance | states | shows |
|---|---|---|---|
| `supervision` | 1 grant, 2 issues with 2 subjects, limit 1, clock up to 2, 4 versions | 0.9 million | charges durable, revocation final, one token per code, permits spent only in the circumstances they were made in, the pause for issues exact |
| `scoped_command` | 2 executions, 2 operation ids, 1 issue, limit 2, clock up to 1, 3 versions, one failed write | 2.3 million | authority, takeover, unresolved results, at most one act per request, truthful failures |
| `scoped_mode` | 1 execution, 2 modes | stops at a violation | see Findings |
| `commands` | 2 tickets, 2 envelopes, 2 registered actions, 2 generations, 1 retry, 2 moves | 1.9 million | asked once is done once, "ok" means done, nothing late, the lane is that of *UiLane*, everyone is answered in the end |
| `plan_read` | 2 attempts, 2 sessions, 3 rows, 2 polls, 2 moves | 12.3 million | the page is left as found, hands off after the user's input, the plan shown is that of the session shown |
| `connection` | 3 targets in 2 workspaces, 3 connects, 3 probes | 2.3 million | no leaked socket, never stranded, the executor acts on the active target, what is writable was verified |
| `sync` | 2 windows, 1 client, 2 cycles, 1 edit, 1 event | 0.4 million | clients converge on the server's state and snapshots on their windows |
| `sync_home` | the same | stops at a violation | see Findings |
| `extension` | 2 windows, 2 processes, 1 queued operation and 1 event each | 0.2 million | the lock says what is so, and an observer of a dead server finds a live one, or has left that to the window that restarts it |
| `telegram` | 2 jobs, queue of 1, 1 retry, 2 topics, 3 posts, 2 versions, 3 moves | 0.8 million | nothing stands twice in a topic, every call is answered, the latest content is taken up |
| `topic_text` | 2 windows, 2 tabs | stops at a violation | see Findings |
| `persistence` | four parts, each by itself (see its cfg) | 3.8 million | what an atomic write leaves, the journal and its ledger, one damaged file costs one change, a rolled-back adapter stays out, a restart loses an interval of use at most |

**Bounds.** `MaxRecords`, `MaxGrants`, `MaxIssuePermits`, `MaxQueueSize`, `MaxAdapters`,
`MaxSessions`, the retries and the time limits are constants of the code, made small
so that compaction, full stores, overflow and expiry happen in a run. The others
(`MaxVersion`, `MaxTime`, `MaxFaults`, `MaxMoves`, `MaxEvents`, `MaxEdits`,
`MaxConnects`, `MaxProbes`, `MaxGeneration`, ...) bound the runs only; each module's
head names its own.

* Three operation ids against two records let compaction drop a record and let its id
  come back; three adapters against two, and three sessions against two, do the same.
* In `scoped_command` two executions are enough for one to race the other's guard, and
  for a resubmission to race the callback its own earlier execution left behind. One
  grant suffices, since grants meet only in `cancelPendingForWorkspace` and in the
  capacity. A variant of this run with overdue checks and a clock up to 2 was explored
  to 12 million states without a violation, and is too large to keep.
* In `connection` two pages share a workspace, so a reconnect may resolve to another
  page of the same window, and three calls let the middle one be superseded and the
  last one fail. In `sync` two cycles are as many as can overlap, since the flag is
  set by the first that passes its await.
* In `plan_read` two moves let the user, Cursor and the network each disturb a read, and
  each attempt starts on a page of its own.
* In `telegram` a window update and a state patch, or one of them and a command, overlap;
  two topics let one replace the other. With more than two topics of one conversation,
  which of them takes over from one that is bound away would have to be modelled.
* In `persistence` the number of faults stays below the number of backups: a failed
  rotation shifts the backups out, so as many failures as backups lose the file.
  One rejection at a time waits for the mutex; rejections of different adapters change
  different records, and the theorems have any number of them.

Deadlock is checked in the supervision and synchronisation runs. Elsewhere a behaviour
may end: every ticket is answered, the user's and the network's budget is spent, or a
file is found torn.

**Fairness** is what the runtime gives to its own callbacks and timers, never to users,
pages or the network, except that a call of theirs ends somehow.
* `commands`: a message that was sent arrives or its socket is gone (`Arrives`), and the
  server's own steps go on (`ServerStep`). The lane waits for the callback of a ticket even
  when its caller was answered by the timer; a callback does settle, because what it
  awaits of the page is answered or times out in the CDP client, and only therefore is
  everyone behind it answered (`EveryoneIsAnswered`).
* `sync`: the steps of a connect, the poll and its answer, the debounced patch, and every
  await of a cycle. An edit or an event is never forced.
* `extension`: the operation at the head of a window's chain, its polls, takeover,
  watchers and exit events, that a spawned process listens, finds the port taken, or
  dies, and that the mark of a restart grows old, which nothing but a newer mark prevents.
* `telegram`: `Progress`, that is the queue, the jobs, and an answer or an error to every
  call; a call is limited by 429 at most `MaxRetries` times. The queue prefers edits to sends, so a
  send would wait for ever behind edits that never stop; they do stop in the run.

**Symmetry** is declared for ids that no decision orders, and in no liveness run.

Some of what the properties say deserves a word:

* `FailedMeansUntouched` has an exception that the code really has. When an execution
  gives up on a dispatch it timed out of, `failBeforeDispatch` may itself fail to write. The
  record then stays `pending`, the run that was left behind may still act, and a
  resubmission may execute the id again and be the one to fail it. `left` marks these
  operations; `NeverTwice` and `ActsAreCharged` hold for them too.
* `NeverTwice` does not rest on the journal alone. Once compaction has dropped a
  confirmed record, its id is new again; what refuses the repeated request is the
  control version, which every charge rotates.
* `TakeoverIsACut` is about a request that was under way when the owner took over and
  whose turn comes after he has resumed: the charge compares control versions.
* `AuthorisedUnderPolicy` does not mention the page: between the check and the
  mutation the guard awaits the reading of the draft, and what the page shows is not
  compared again afterwards. See the finding.
* `NeverRunsLate` ends at `beginRun`. The callback is called a microtask later, with
  its signal aborted if the lane was invalidated in between.
* `FileAfterFailure` covers the death of the process at any point and, for writes that
  returned, a power loss. It does not cover a power loss after a *failed* directory
  fsync whose content another process had already read: `AtomicFile` shows
  (`OutcomesAsAssumed`, last conjunct) that the disk may then go back further.

Of the runs added to these:

* `AskedOnceDoneOnce` counts begun *bodies*. A "send" is retried after an error even when
  Enter was pressed, so a text can be typed twice within one body. A lane timeout, an
  action that is not found and a changed generation are reported as definite failures
  although the body may have acted; the client then drops its envelope, and what the
  user sends again is a new request. The replay key of a client without a session
  changes when it reconnects, which leaves the executor's cache of 60 s.
* `OneFaultOneChange` bounds what a damaged adapter file may cost: the number of faults is
  below the number of backups, and each costs one change at most.
* `FoundAsLeft` and `HandsOffAfterInput`: the guard that ends a step of the walk and the one
  that opens the next are taken as one. If only the CDP connection drops, the removal of
  the input watch fails and its listeners stay in the page.
* `ViewsConverge` covers content, connection and windows. Mode, status and failures are
  carried both by the pending patch and by immediate ones, and an older pending value
  can overwrite a newer one for a while.
* `SnapshotsCatchUp` is about windows other than home: a read begun before a window became
  home may be stored after, which is corrected by the next patch only.
* `LockIsTrue` excepts a window whose start threw after its claim (`failed`).
* `ObserverRecovers` is weaker than what `setup-guide.md:111` promises: it excuses a window
  that has given its takeover up to the mark of a restart (`yielded`), since the code lets
  it neither poll nor take over afterwards. The mark itself is no excuse. See "The code and
  its documents" below.
* `RestartLosesAnInterval` excuses sessions whose own save failed (`unsaved`): add, evict and
  expire set no dirty flag when their write fails, so the flush does not repeat it, and
  an evicted session may come back with a restart.
* `RolledBackStaysOut` is about memory and about files whose commit returned. A rollback
  whose commit fails is still in memory, cannot be repeated by id, and takes effect with
  the next commit; restoring an older backup may bring a rolled-back adapter back.
* `OneCopy` is about the tracker the code has, which is loaded when the program starts. The
  documents disagree about that (see below). It excuses what nobody
  could know (`unsure`): an answer lost after the post, a deletion that failed, an end
  before the id was tracked or its save was due, and a reset (/unsync, /purge) that forgets
  a job under way, which goes on and may overlap with the next. It also excuses an end after
  a save that failed (`unsaved`), which the code could have repeated and does not (see below).
* `LatestSnapshotIsTaken` counts what waits when /purge or /unsync resets the state as taken,
  also when sync was turned on again before that: the reset throws it away.

## Findings

`scoped_mode`: the guard compares the request's mode and model with the state that
`assertBaseScope` captured before `await context.getDraftPresent()`
(`scoped-command-service.ts:261-275`). `StateManager` replaces its state object on
every extraction, so a change extracted during that await goes unseen, where
`tests/scoped-command-service.test.ts:239` says "rechecks live mode and model
immediately before dispatch". The test changes the state before the guard starts.

`sync_home`: when the bridge has connected to another window, `index.ts` reports the
connection before the monitor's home has moved. The patch this emits makes
`captureHomeWindow` store what was extracted from the old window as the snapshot of
the new one, which the comment at `window-monitor.ts:323` says the wait for a fresh
extraction prevents. The next extraction repairs it; Telegram was told meanwhile.

`topic_text`: `handleTextMessage` gives `switchTab` and `sendMessage` one command id. The
executor answers an id it has seen within 60 s with the result it had, so after a
switch of the tab the text is not typed, the result is ok, and the sender hears
nothing (`commands.ts:1382`; `docs/telegram_prd.md:443` promises the forwarding).

### The code and its documents

Three contradictions are stated as exceptions of a property, or as what it takes from the
code. TLC finds a counterexample when the exception is left out, and one to `OneCopy` when
a start begins with an empty tracker.

**An abandoned restart strands the observers** (`ObserverRecovers` without `yielded`): a
window marks the lock for a restart, stops the server and dies. An observer's third failed
poll comes 10 to 15 s after the server is gone, while the mark counts as fresh for 15 s
(`RESTART_STALE_MS`). It stops polling (`server-manager.ts:502`) and `attemptTakeover`
returns because of the mark (437-440; 449-452 after the jitter). Nothing starts the polls
again, so when the mark is stale no window is left that would look: the server stays down
until the user acts. `setup-guide.md:111` says that an observer takes over when the
owner's window closes, and `lifecycle-lock.ts:7` that a stale mark is "treated as
abandoned so takeover can proceed".

**What a restart of the Telegram side knows** (what `OneCopy` rests on):
`telegram_prd.md:390-393` and `telegram_architecture.md:353` say that the tracker begins
empty after a restart and that new messages are sent, none edited. The code loads it
(`message-tracker.ts:32`, 154-172) and goes on editing, which is also what
`telegram_prd.md:448` and `telegram_architecture.md:256` say. The first two are out of
date; a program that did as they say would post a second copy of what a topic shows.

**A save that failed is not repeated** (`OneCopy` without `unsaved`): the timer clears
`dirty` whether `saveToDisk` succeeded or not (`message-tracker.ts:136`; `saveToDisk` only
logs the error), so after one failed write neither the timer nor the flush at the end
writes again until something else is tracked. The next start has forgotten messages that
are in the chat and sends them anew, where `telegram_prd.md:448` says that all state is
persisted and holds after a restart.

Observations without a run of their own:

* /cleanup reads the tracked topics once and then deletes every other id up to 200 past
  the highest, one by one: a topic that is created meanwhile is deleted although it is
  tracked and active, where `telegram_prd.md:252` keeps active topics. The model has
  this behaviour (`Cleanup`, `DeleteTopic`); the mapping of the dead topic remains.
* `processQuestionnaireForThread` is called by the same two paths as the approval banner
  without its in-flight guard, so its card can be sent twice; /sync creates topics in the
  background without the guard of `autoCreateTopic`; /purge resets at its end even what a
  later /sync built.
* A probe that succeeds while its circuit breaker is open returns before it records the
  success (`index.ts:218`), so the circuit stays open until the build, the signature or
  the adapter changes.
* Grants and permits are never deleted (`supervision-manager.ts:126`), and the pauses
  `supervisor_lost` and `result_unknown` are cleared by no route (`relay.ts:1804`).
* A reconnect may resolve to a page of another workspace when the wanted one is gone. A valid
  adapter file of an unknown schema loads as an empty store without trying backups.

## What is proved

Every invariant that a passing run checks is also a theorem, and so are the action properties
and the refinements of the ledger and of the lane. The run shows each on a small
instance, the theorem for every value of the constants. In each module one lemma per
action shows that it keeps an inductive invariant, which is made of named parts, and TLC
was given the parts before they were proved. What follows says what the invariants add to
the properties, and which theorems need an assumption.

The assumption most often needed is `~UnlinkFallback`. Where rename cannot replace a
file, a death between unlink and rename leaves no file at all, and the next start has
forgotten everything, so what is said of the past does not hold there
(`persist.ts:50-58`; the fallback is taken on EEXIST, EPERM and EACCES only).

**`PersistenceProofs`**, for every set of ids, digests, values, tokens and adapters, every
capacity, any times and any number of backups. What is assumed of the constants is what
the code fixes: `PersistInterval` is a number, there is a backup, adapters are finite.

* `JournalTypeCorrect`: the stores in memory and in the file always list exactly the
  ids they have records of, once each, and never more than the capacity, so the next
  start accepts what was written. The invariant is inductive as it stands, given the
  lemmas on `Insert`, `Drop` and `SetStatus`.
* `BegunDurable`: an operation whose `markDispatching` returned is past dispatching in
  memory and in the file. By itself this is not inductive: a commit writes what memory
  holds, so one has to know that the file is never *behind* memory in what it says of
  a begun operation, and that a begun operation has a record unless the file holds a
  store that a failed `create` wrote. Assumes `~UnlinkFallback`.
* `UnresolvedSettles` and `JournalImplementsLedger`: an unresolved operation leaves that
  state only by being settled, and every step of the journal, starts included, is a step
  of `OperationLedger` or a stutter. Both are read off one summary (`KnownStep`) of how a
  step moves the statuses as a restart will see them. Assume `~UnlinkFallback`.
* `WritesLeaveWhatTheyMay`: what `writeFileAtomic` leaves, when it returns, throws or is
  cut short, is what `Persist` assumes of it everywhere else. `FileInv` says, for each
  system call about to be made, what the file and the disk may hold.
* `RestartForgetsLittle`: a restart revives no session and forgets at most an interval of
  use. `SessionInv`: what differs between memory and the file differs only in the last use,
  and then a timer waits for the end of the interval since the latest write.
* `RolledBackAdaptersStayOut`: what was rolled back is active nowhere that a use, an
  operation or a restart could find it. `RevokedInv` says it of memory, of the registry
  and of the primary, and of the first and the last already before the route has answered.
* `FaultsCostOneChangeEach`: with fewer faults than backups, a start recovers what the file
  held at most as many changes ago. `BackupInv` counts two things for the newest readable
  backup: how many changes it is behind, and how far down the rotations have moved it. The
  first lets a readable primary count for one, since the next copy repays it; the second
  keeps it from being overwritten at the end of the row. The theorem assumes
  that a missing and an unreadable file differ from every store.

**`SupervisionProofs`**, for any number of grants, permits, workspaces and limits. The
argument is the same for every method: it commits a store that is `Sane` (of its type,
accepted by `validateStore`, finitely many grants and permits, every permit with a
grant that is there, revoked grants without a credential) and that `Grows` out of the
one in memory (counters do not fall, revoked grants stay revoked). One lemma per
method shows that; `NextCommitsGrown` collects them, and the theorems look at
commits, crashes and starts only.

* `StoresStayLoadable`: the stores in memory and in the file stay within what
  `validateStore` accepts, with the unlink fallback or without it, so a start is never
  refused because of what an earlier process wrote. `SupervisionTypeOK` alone is not
  inductive: that charging a permit stays within the limits of an existing grant needs
  the permit to have one, and the capacity needs finite sets.
* `ChargesStay` and `RevocationStays`: what a caller was told of charges and
  revocations stays true. The invariant (`AuditInv`) also says that memory holds the
  empty store while the process is down and that, while it is up, the revoked grants are exactly
  those recorded as revoked: a failed write may leave a revocation in the file that
  memory, and the caller, know nothing of. Both assume `~UnlinkFallback`.
* `OneTokenPerCode`: a code yields at most one token. Assumes `~UnlinkFallback`.
* `IssuesPauseTheirGrant`: a grant is paused for pending issues exactly while it has an
  undecided permit. Assumes that no caller of `pauseGrant` gives "pending_issue" itself,
  which holds of all of them (`relay.ts:1022`, `1028`, `1802`;
  `scoped-command-service.ts:302`, `338`).
* `PermitsDieWithTheirTerms`: a permit that is spent was made under the terms its grant
  still has; every change of terms, and every restart, outdates those that are pending.
  Needs no assumption; `DatedInv` dates every permit by its grant.

**`ScopedCommandProofs`**, for any calls, operations and grants. The journal and the
supervision store are used through the lemmas of their own proofs.

* `CutRequestsNeverAct` and `AuthorisedOnlyUnderPolicy` (no assumption): a request under way
  when the owner took over is never authorised, not even after a resume, and what is
  authorised is so under the policy in force. `Placed` says that every live execution, and
  every record that may yet be executed, names a grant that is there in no later version than
  the present one. `PolicyInv` adds that a run past its scope check may write for as long as
  its grant has the version it names, and that the grant of a cut request is paused for the
  owner or has another version.
* `NothingIsActedOnTwice` and `MutationsAreCharged`: one id acts once, across retries, timeouts,
  restarts and requests at once, and has been charged before. `TurnInv` says that one stretch
  without await runs at a time; `SpendInv` that what was acted on, and what is about to be,
  all differ, that the expended ones are each of a version that has passed, and that the
  file has as many of them paid for. Assume `~UnlinkFallback`.
* `UnresolvedStopsTheGrant` (no assumption): while a result is unknown nothing more is done
  under the grant, except by what ran already. `LaneInv` gives a lane one run, `RecordInv`
  every live call its record, and so `UnknownInv`: once a run has looked for unknown results
  of its grant and found none, there are none until it acts.
* `FailedNeverTouched`: an operation reported as failed has not touched the window. `MadeInv`
  says that what was made is on record and what was authorised is past dispatching, in
  memory and in the file; that an execution which answered while its run goes on leaves no
  record that could be executed again; that a record has one call at most; and that what may
  still be called failed has not been made. The exception for strays described above is part
  of the property. Assumes `~UnlinkFallback`.

**`CommandProofs`**, for any commands, buttons and numbers of attempts, with no assumption.

* `OneCallbackInTheLane` and `NoLateRun`: the lane runs one callback at a time (which the run
  checks with `ImplementsLane`), and none begins for an old generation or after its caller was
  answered. In `LaneInv`, the ticket that runs
  is at the head of the queue, and one that waits and has crossed a change of generation, or
  whose caller was answered, is cancelled.
* `ChainImplementsLane`: what the commands do to the chain is, step by step, what *UiLane* allows:
  answers are given once, turns come in the order of the calls, a timeout gives nobody the turn,
  and a call answered while it waited has none. `ChainInv` adds to `LaneInv` that the chain
  has every waiting ticket once, and that no cancelled ticket is behind one that
  is not, because an invalidation cancels all; so a skipped ticket is nothing to the callers.
* `NobodyIsStranded`: the safety half of `EveryoneIsAnswered`. A call without an answer is in the
  chain, and the gate it waits for is held by someone who will have his turn or has it.
* `NothingIsFalselyReported`: what is reported as done has been done. Its parts follow the
  fact outwards: `MemoryInv` has what executor and relay remember of a request be about that
  request, and be there unless it has lapsed; `EffectInv` counts the effects of the runs of
  a request; by `ResultInv` an "ok" that is on its way or kept is of something done; and
  `ClientInv` says what the client keeps of what it asked.
* `NothingIsDoneTwice`: a request is run once, unless executor and relay have both forgotten
  it, and a button is clicked once, whoever asks. In `IdInv` nobody is about to click an
  action id before it is reserved, one call is while it is reserved, and after that no
  other begins to.

**`CdpBridgeProofs`**, for any targets, any assignment of workspaces and any number of calls:

* `BridgeNeverStranded` and `BridgeLeaksNoSocket`: until it stops, the wired bridge has a
  connection, a call under way or a reconnect pending; the only socket open, or in its
  handshake, is the client's, and an open one leads to the active target. The invariant is
  `BridgeTypeOK /\ HeldByCurrent /\ NeverStranded`: the client is the latest call's or none,
  without which a superseded call could replace, or let go of, a client not its own. The steps of the wiring leave the
  bridge alone or are its own steps (`WiringIsABridge`), so the theorems are about the
  composed specification.
* `ExecutorStaysOnTarget` and `KeptCatalogueIsReverified`: the executor acts on the active
  target, and a catalogue that is writable was verified for the present generation of its
  target, also when it was kept over a reconnect. `WiringInv` adds to the facts of the bridge
  that every record of modes and models was verified, and that the executor and the handler,
  once set, are those of the connection that is held.

**`MirrorProofs`**, what the two kinds of client are shown, for any windows, clients, edits
and events of the browsers, and any elements, windows and snapshots of the Telegram group:

* `ViewsAlwaysConverge`: with no patch waiting, every client has the server's content,
  connection and windows. The invariant (`Synced`) says it of every field by itself: one that
  waits in the patch waits with its present value, and one that does not is what every
  connected client has.
* `NoMessageTwice` (`OneCopy`): a reachable topic never shows an element in two messages,
  unless nobody could know of one of them. The invariant (`MirrorInv`) says why: a message of
  a topic that can still be reached is the one tracked for its element, or the one that a job
  whose post was answered is about to track (`CopyInv`). For that, what a job read before its
  call has to hold still when the answer comes, and each part says why it does:
  one job of a window is between a call and its answer at a time (`TurnInv`); a call
  in the queue is of the priority its job asked for (`CallsInv`); the banner, which is tracked
  outside the turns, is guarded by `inflight`, and the edits that could disagree with a
  deletion run before every post that waits (`BannerInv`, `AtOdds`); a message reported gone
  is not in the chat (`GoneInv`). At a restart it rests on `SaveInv`: what the tracker knows is
  on disk, or a save of it is due, or the last one failed. The only assumptions are those on the constants which
  *SendQueue* and *TelegramMirror* state.
* `NoCallerForgotten`: the safety half of `EveryCallIsAnswered`. A caller waits exactly when its
  item is queued or runs, and there is one item of each caller: no insertion in the
  middle of the queue, replacement of an edit or drop at the limit loses or repeats one. It rests on
  lemmas about `RemoveAt`, `InsertAt` and the positions that the queue looks for.
* `OneTurnAtATime`: the safety half of `LatestSnapshotIsTaken`, one job in its turn.

**`PlanModalProofs`**, for any cards, rows, panes, sessions and numbers of edits:

* `FoundAsLeftHolds` and `HandsStayOff`: a walk that reports success has left the window as it
  found it, and none scrolls or clicks once the user has touched it. `DocumentInv` carries
  where the walk has been from one `evaluate` to the next: the tab and the row it keeps are
  those it left (`WalkInv`), and the offsets it keeps lead back to that row (`Placed`), also
  after rows were mounted above; input is seen by the next script at the latest
  (`InputIsSeen`).
* `ShownPlanStaysCurrent`: the plan in the dialog is that of the session and card beside it.
  `ClientInv` adds that the relay's summary is the newest and the client's the one sent, unless a
  patch is on its way (`SummaryInv`), and that whatever carries the answer that is awaited
  was asked for this window and card (`CarriersInv`). Assumes that there is a session.

**`ServerManagerProofs`**, for any windows and processes:

* `LockStaysTrue`: a live window keeps no lock for which it has neither a server nor anything
  under way, nor the mark of a restart that is over. `LockInv` says it of every step in
  between (`Owns`), with two things that the steps carry along: where an operation stands and
  whether it is a restart (`Staged`), and that the record a window has read and will write
  back claims no more than the lock would (`Remembers`). A restart that ends writes only what
  it read as its own. Processes are numbers other than 0, which stands for none.

What stays model-checked only: the liveness properties (`EveryoneIsAnswered`,
`EveryCallIsAnswered`, `LatestSnapshotIsTaken`, `SnapshotsCatchUp`, `ViewsCatchUp`,
`ObserverRecovers`), since fairness and ENABLED are outside what the proof system
handles. Of `EveryoneIsAnswered`, `EveryCallIsAnswered` and `LatestSnapshotIsTaken` the safety
half is proved. The filters of *AdapterStore* are stated by position and the topics of
*TelegramMirror* as a set, since nothing can be proved here of `SelectSeq`, which is defined
by recursion over the sequence.

## What is not modelled, and why

The bodies of commands and of the extractor are scripts evaluated in the page; the
model has their interface (they mutate or they do not, they answer or they do not),
except for the plan reader, whose steps are modelled one by one. Formatting, logging,
validation of strings and the wording of errors are left out. Window, composer,
target, workspace and model are compared at the same places as workspace and mode,
which stand for them.

* Supervision: notification statuses and the list of checks, which no decision reads.
* Commands: the rate limit is a refusal at any time (`Limit`); the `AbortSignal` of a lane
  ticket and `bumpGeneration` have no production caller; the client reaches no
  fingerprint conflict. Messages of one connection arrive in order and before anything
  else happens, except that the socket may be lost.
* Plans: a summary is a numbered version; an ambiguous selection or a composer that is gone
  is refused as another selection is; the search of a directory for a file is an outcome.
* State: signatures that suppress equal snapshots; the adapter context is an outcome.
* Extension: the login of the health probe, log lines, the settings and the views. Windows'
  unlink-then-rename of the lock is left out.
* Telegram: typing indicators, parts of a long message, hashes of selectors, the skip of old
  messages at first sight, routing by composer, a change of group. Activity lines,
  questionnaires, prompt lists and routing notices only take their turns in the queue, as
  calls of somebody else (`Other`). In the code `doProcessWindow` awaits those of its own
  window between its routing and its banner (`base.ts:705-779`): a job of the model does not
  stand still there, so a command that runs in just that gap is not explored, nor a drop of
  such a call, which the code catches. A command between routing and banner is explored only
  where the job creates its topic or deletes a banner.
* Sessions and adapters: legacy formats and malformed entries; more than one binding tuple.
  `Apply` is modelled although its route answers 503: no caller reaches it in production.
* The extension's views and the developers' scripts: see PROJECT.json.

## Plan

1. *UiLane* under *ScopedCommand*, whose `LaneFree`, `RejectDispatch` and `DropDispatch` allow
   more than it (no order, and a run that was rejected while queued may still begin, as one
   between `beginRun` and its callback does).
2. The questionnaire's card and several windows in *TelegramMirror*.
3. The selection and validation of adapters, and the search for plan files, as operators
   checked against reference definitions.
