------------------------------ MODULE WebSessions ------------------------------
(***************************************************************************)
(* src/server/webapp-sessions.ts: the sessions of the web app, which       *)
(* expire by age and by idleness, give way to newer ones at the limit, and *)
(* are written to a file: at once when one comes or goes, at most once per *)
(* interval when one is only used.  The relay adds one at a login, touches *)
(* one for every request, and flushes when it stops.                       *)
(*                                                                         *)
(* Time is counted in ticks, from 1; timers are on time.  A token that is  *)
(* not well-formed is never in the store.                                  *)
(***************************************************************************)
EXTENDS Naturals, FiniteSets, Persist

CONSTANTS
    Tokens,
    MaxSessions,                       \* MAX_SESSIONS
    MaxAge, MaxIdle, PersistInterval,  \* SESSION_MAX_AGE_MS, SESSION_IDLE_MS, SESSION_TOUCH_PERSIST_MS
    LastTick                           \* bound: the time

VARIABLES
    sessions,      \* tokens, with their createdAt and lastSeenAt
    saved,         \* the file
    dirty,
    lastPersist,   \* lastPersistAt, 0 at first
    timer,         \* when persistTimer fires, or 0
    now,
    unsaved        \* history: the latest save failed

sessionVars == <<sessions, saved, dirty, lastPersist, timer, now, unsaved>>

NoSessions == [t \in {} |-> [created |-> 0, seen |-> 0]]

SessionInit ==
    /\ sessions = NoSessions /\ saved = NoSessions
    /\ dirty = FALSE /\ lastPersist = 0 /\ timer = 0 /\ now = 1
    /\ unsaved = FALSE

Expired(rec) == now - rec.created > MaxAge \/ now - rec.seen > MaxIdle

Only(s, kept) == [t \in kept |-> s[t]]

Purged(s) == Only(s, {t \in DOMAIN s : ~Expired(s[t])})

\* evictOverflow: the oldest go; of two of one age, the one that was there before `new`.
Evicted(s, new) ==
    IF Cardinality(DOMAIN s) <= MaxSessions THEN {s}
    ELSE {Only(s, DOMAIN s \ {t}) :
             t \in {o \in DOMAIN s \ {new} : \A u \in DOMAIN s \ {new} : s[o].created <= s[u].created}}

Seen(s, t) == [s EXCEPT ![t].seen = now]

--------------------------------------------------------------------------------

\* save(): an error is logged, and leaves the flag as it was.
Save(s, flag) ==
    \/ /\ saved' = s /\ dirty' = FALSE
       /\ lastPersist' = now /\ unsaved' = FALSE
    \/ /\ saved' \in FileAfterFailure(saved, s, NoSessions) /\ dirty' = flag
       /\ unsaved' = TRUE
       /\ UNCHANGED lastPersist

\* Everything but a touch is written at once.
SaveNow(s, flag) ==
    /\ sessions' = s
    /\ timer' = 0
    /\ Save(s, flag)
    /\ UNCHANGED now

Add(t) ==
    /\ t \notin DOMAIN sessions
    /\ \E s \in Evicted([u \in DOMAIN Purged(sessions) \cup {t} |->
                            IF u = t THEN [created |-> now, seen |-> now] ELSE sessions[u]], t) :
           SaveNow(s, dirty)

\* has and touch of a session that has expired.
Expire(t) ==
    /\ t \in DOMAIN sessions /\ Expired(sessions[t])
    /\ SaveNow(Only(sessions, DOMAIN sessions \ {t}), dirty)

\* Mutant of MustWait: a touch always waits.
MustWaitAlways == lastPersist # 0

\* scheduleTouchPersist: something was written less than an interval ago.
MustWait == lastPersist # 0 /\ now - lastPersist < PersistInterval

Touch(t) ==
    /\ t \in DOMAIN sessions /\ ~Expired(sessions[t])
    /\ IF MustWait
       THEN /\ sessions' = Seen(sessions, t)
            /\ dirty' = TRUE
            /\ timer' = IF timer = 0 THEN lastPersist + PersistInterval ELSE timer
            /\ UNCHANGED <<saved, lastPersist, now, unsaved>>
       ELSE SaveNow(Seen(sessions, t), TRUE)

TimerFires ==
    /\ timer = now
    /\ timer' = 0
    /\ IF dirty THEN Save(sessions, TRUE) ELSE UNCHANGED <<saved, dirty, lastPersist, unsaved>>
    /\ UNCHANGED <<sessions, now>>

\* The relay stops; requests under way may still come after that.
Flush ==
    /\ timer' = 0
    /\ IF dirty THEN Save(sessions, TRUE) ELSE UNCHANGED <<saved, dirty, lastPersist, unsaved>>
    /\ UNCHANGED <<sessions, now>>

Tick ==
    /\ now < LastTick /\ (timer # 0 => now < timer)
    /\ now' = now + 1
    /\ UNCHANGED <<sessions, saved, dirty, lastPersist, timer, unsaved>>

\* A login, where the limit of attempts lets it pass.
Login(t) == Add(t)

\* A request: the Bearer token or the cookie that is good.
Request(t) == Touch(t) \/ Expire(t)

\* The process is gone, and a new one loads the file.
Restart ==
    LET loaded == Purged(saved) IN
    /\ sessions' = loaded
    /\ timer' = 0
    /\ IF loaded = saved THEN /\ dirty' = FALSE /\ lastPersist' = 0 /\ unsaved' = FALSE
                              /\ UNCHANGED saved
       ELSE /\ dirty' = FALSE
            /\ \/ saved' = loaded /\ lastPersist' = now /\ unsaved' = FALSE
               \/ saved' \in FileAfterFailure(saved, loaded, NoSessions) /\ lastPersist' = 0 /\ unsaved' = TRUE
    /\ UNCHANGED now

SessionNext ==
    \/ \E t \in Tokens : Login(t) \/ Request(t)
    \/ TimerFires \/ Flush \/ Tick \/ Restart

--------------------------------------------------------------------------------

\* A restart at any moment neither revives a session that was evicted or had expired nor
\* loses one, and one that looks idle to it has been used unseen for an interval at
\* most, unless the latest write failed (the debounced write of a touch between
\* evictions, expiries, logins and the flush).
RestartLosesAnInterval ==
    unsaved \/
        /\ DOMAIN saved = DOMAIN sessions
        /\ \A t \in DOMAIN sessions :
              /\ saved[t].created = sessions[t].created
              /\ saved[t].seen # sessions[t].seen =>
                     sessions[t].seen >= lastPersist /\ now - lastPersist <= PersistInterval

================================================================================
