---------------------------- MODULE MirrorProofs ----------------------------
(***************************************************************************)
(* What the two kinds of client are shown: ViewsConverge of the browsers   *)
(* (StateSync), and OneCopy of the Telegram group (TelegramMirror).        *)
(***************************************************************************)
EXTENDS StateSync, TelegramMirror, SequenceTheorems, WellFoundedInduction, TLAPS

--------------------------------------------------------------------------------
(***************************************************************************)
(* The browsers: ViewsConverge, for every number of windows, clients,      *)
(* edits and events.                                                       *)
(*                                                                         *)
(* While a patch waits the views are behind, so the invariant says by how  *)
(* much: a field of the page that a client does not have yet is in the     *)
(* patch that waits, with the server's value, and the fields sent at once  *)
(* are in no patch that waits.  Every action changes the state, the patch  *)
(* and the views in one of five ways; a lemma per way.                     *)
(***************************************************************************)

AtOnce == {"connected", "windows", "active"}

(* What a state is to the proof: a function of the fields. *)
IsState(s) == s = [f \in Fields |-> s[f]]

Waits(cur, pend) == \A f \in OneWay : f \in DOMAIN pend => pend[f] = cur[f]
Lags(cur, pend, view) == \A f \in OneWay : f \notin DOMAIN pend => view[f] = cur[f]

Synced ==
    /\ IsState(current)
    /\ DOMAIN pending \subseteq Fields \ AtOnce
    /\ Waits(current, pending)
    /\ views = [c \in Clients |-> views[c]]
    /\ \A c \in Online : IsState(views[c]) /\ Lags(current, pending, views[c])

LEMMA StateDomain ==
    ASSUME NEW s, IsState(s)
    PROVE  DOMAIN s = Fields /\ s # NoView
<1>1. DOMAIN s = Fields
  BY DEF IsState
<1>2. NoView = [i \in 1..0 |-> i] /\ DOMAIN NoView = {}
  BY DEF NoView
<1> QED
  BY <1>1, <1>2 DEF Fields

(* Clients and patches: what Received leaves in each view. *)
LEMMA ReceivedViews ==
    ASSUME Synced, NEW patch, DOMAIN patch \subseteq Fields,
           views' = Received(patch)
    PROVE  /\ views' = [c \in Clients |-> views'[c]]
           /\ Online' = Online
           /\ \A c \in Online : /\ IsState(views'[c])
                                /\ \A f \in DOMAIN patch : views'[c][f] = patch[f]
                                /\ \A f \in Fields \ DOMAIN patch : views'[c][f] = views[c][f]
<1>1. views' = [c \in Clients |-> views'[c]]
  BY DEF Received
<1>2. ASSUME NEW c \in Online
      PROVE  /\ IsState(views'[c])
             /\ \A f \in DOMAIN patch : views'[c][f] = patch[f]
             /\ \A f \in Fields \ DOMAIN patch : views'[c][f] = views[c][f]
  <2>1. IsState(views[c]) /\ views'[c] = Merged(patch, views[c])
    BY <1>2 DEF Synced, Received, Online
  <2> QED
    <3>1. DOMAIN views[c] = Fields
      BY <2>1, StateDomain
    <3>2. views'[c] = [f \in Fields |-> IF f \in DOMAIN patch THEN patch[f] ELSE views[c][f]]
      BY <2>1, <3>1 DEF Merged
    <3> HIDE DEF Fields
    <3> QED
      BY <3>2 DEF IsState
<1>3. \A c \in Clients \ Online : views'[c] = NoView
  BY DEF Received
<1>4. Online' = Online
  BY <1>2, <1>3, StateDomain DEF Online
<1> QED
  BY <1>1, <1>2, <1>4

----------------------------------------------------------------------------
(* A change of the page's fields waits in the patch. *)
LEMMA CollectingKeeps ==
    ASSUME Synced, IsState(current'),
           \A f \in AtOnce : current'[f] = current[f],
           pending' = Scheduled(Diff(current, current')),
           views' = views
    PROVE  Synced'
<1> DEFINE patch == Diff(current, current')
<1>1. DOMAIN patch = {f \in Fields : current[f] # current'[f]}
      /\ \A f \in DOMAIN patch : patch[f] = current'[f]
  BY DEF Diff
<1> HIDE DEF patch
<1>2. /\ DOMAIN pending' = DOMAIN patch \cup DOMAIN pending
      /\ \A f \in DOMAIN patch : pending'[f] = patch[f]
      /\ \A f \in DOMAIN pending \ DOMAIN patch : pending'[f] = pending[f]
  BY DEF Merged, Scheduled, patch
<1>3. DOMAIN pending' \subseteq Fields \ AtOnce
  BY <1>1, <1>2 DEF Synced, AtOnce
<1>4. Online' = Online /\ Waits(current', pending')
  BY <1>1, <1>2 DEF Online, Synced, Waits, OneWay, Fields
<1>5. ASSUME NEW c \in Online
      PROVE  IsState(views'[c]) /\ Lags(current', pending', views'[c])
  BY <1>1, <1>2, <1>5 DEF Synced, Lags, OneWay, Fields
<1> QED
  BY <1>3, <1>4, <1>5 DEF Synced

(* What is sent at once reaches every client and leaves the page in the patch. *)
LEMMA SendingKeeps ==
    ASSUME Synced, IsState(current'), NEW patch,
           DOMAIN patch \subseteq Fields,
           \A f \in OneWay \cap DOMAIN patch : patch[f] = current'[f],
           \A f \in OneWay \ DOMAIN patch : current'[f] = current[f],
           current'["page"] = current["page"], current'["label"] = current["label"],
           views' = Received(patch),
           DOMAIN pending' \subseteq Fields \ AtOnce,
           OneWay \cap DOMAIN pending' = OneWay \cap DOMAIN pending,
           \A f \in OneWay \cap DOMAIN pending : pending'[f] = pending[f]
    PROVE  Synced'
<1>1. ASSUME NEW c \in Online
      PROVE  IsState(views'[c]) /\ Lags(current', pending', views'[c])
  <2>1. /\ IsState(views'[c])
        /\ \A f \in DOMAIN patch : views'[c][f] = patch[f]
        /\ \A f \in Fields \ DOMAIN patch : views'[c][f] = views[c][f]
    BY <1>1, ReceivedViews
  <2>2. ASSUME NEW f \in OneWay, f \notin DOMAIN pending'
        PROVE  views'[c][f] = current'[f]
    <3>1. f \in Fields /\ views[c][f] = current[f]
      BY <1>1, <2>2 DEF OneWay, Fields, Synced, Lags
    <3> QED
      BY <2>1, <2>2, <3>1
  <2> QED
    BY <2>1, <2>2 DEF Lags
<1>2. /\ views' = [c \in Clients |-> views'[c]]
      /\ Online' = Online
  BY ReceivedViews
<1>3. ASSUME NEW f \in OneWay, f \in DOMAIN pending'
      PROVE  pending'[f] = current'[f]
  <2>1. f \in {"page", "label"} /\ f \in DOMAIN pending
    <3>1. OneWay \cap (Fields \ AtOnce) = {"page", "label"}
      BY DEF OneWay, AtOnce, Fields
    <3> HIDE DEF Fields, AtOnce, OneWay
    <3> QED
      BY <1>3, <3>1
  <2>2. pending[f] = current[f]
    BY <2>1, <1>3 DEF Synced, Waits
  <2> QED
    BY <2>1, <2>2, <1>3
<1> QED
  BY <1>1, <1>2, <1>3 DEF Synced, Waits

LEMMA FlushingKeeps ==
    ASSUME Synced, Flush
    PROVE  Synced'
<1>1. DOMAIN pending' = {}
  BY DEF Flush, NoPatch
<1>2. /\ current' = current
      /\ views' = Received(pending)
      /\ DOMAIN pending \subseteq Fields
  BY DEF Flush, Synced
<1>3. ASSUME NEW c \in Online
      PROVE  IsState(views'[c]) /\ Lags(current', pending', views'[c])
  <2>1. /\ IsState(views'[c])
        /\ \A f \in DOMAIN pending : views'[c][f] = pending[f]
        /\ \A f \in Fields \ DOMAIN pending : views'[c][f] = views[c][f]
    BY <1>2, <1>3, ReceivedViews
  <2>2. \A f \in OneWay : views'[c][f] = current[f]
    BY <1>3, <2>1 DEF Synced, Lags, Waits, OneWay, Fields
  <2> QED
    BY <1>2, <2>1, <2>2 DEF Lags
<1>4. /\ views' = [c \in Clients |-> views'[c]]
      /\ Online' = Online
  BY <1>2, ReceivedViews
<1>5. Waits(current', pending')
  BY <1>1 DEF Waits
<1> QED
  BY <1>1, <1>2, <1>3, <1>4, <1>5 DEF Synced

LEMMA BrowsersKeep ==
    ASSUME Synced, NEW c \in Clients, ClientConnects(c) \/ ClientLeaves(c)
    PROVE  Synced'
<1>1. current' = current /\ pending' = pending
  BY DEF ClientConnects, ClientLeaves
<1>2. \A d \in Clients \ {c} : views'[d] = views[d]
  BY DEF ClientConnects, ClientLeaves, Synced
<1>3. views'[c] = current \/ views'[c] = NoView
  BY DEF ClientConnects, ClientLeaves, Synced
<1>4. views' = [d \in Clients |-> views'[d]]
  BY DEF ClientConnects, ClientLeaves, Synced
<1>5. ASSUME NEW d \in Clients, views'[d] # NoView
      PROVE  IsState(views'[d]) /\ Lags(current', pending', views'[d])
  <2>1. CASE d = c
    <3>1. views'[d] = current
      BY <1>3, <1>5, <2>1
    <3>2. Lags(current, pending, current)
      BY DEF Lags, Synced
    <3> QED
      BY <1>1, <3>1, <3>2 DEF Synced
  <2>2. CASE d # c
    BY <1>1, <1>2, <1>5, <2>2 DEF Synced, Online
  <2> QED
    BY <2>1, <2>2
<1> QED
  BY <1>1, <1>4, <1>5 DEF Synced, Online

----------------------------------------------------------------------------
(* The fields each function of the state manager leaves alone. *)
LEMMA ConnectionFields ==
    ASSUME NEW s, IsState(s), NEW up
    PROVE  /\ IsState(Connection(s, up))
           /\ \A f \in OneWay \ {"connected"} : Connection(s, up)[f] = s[f]
  BY DEF IsState, Connection, Fields, OneWay

LEMMA FailedFields ==
    ASSUME NEW s, IsState(s)
    PROVE  /\ IsState(Failed(s))
           /\ \A f \in OneWay : Failed(s)[f] = s[f]
  BY DEF IsState, Failed, Fields, OneWay

LEMMA ExtractionKeeps ==
    ASSUME Synced, NEW page, NEW elapsed, OnExtraction(page, elapsed)
    PROVE  Synced'
<1>1. /\ IsState(current')
      /\ \A f \in AtOnce : current'[f] = current[f]
  BY DEF OnExtraction, Synced, IsState, AtOnce, Fields
<1> QED
  BY <1>1, CollectingKeeps DEF OnExtraction

LEMMA FailureKeeps ==
    ASSUME Synced, OnExtractionFailure
    PROVE  Synced'
<1>1. IsState(current') /\ \A f \in AtOnce : current'[f] = current[f]
  BY FailedFields DEF OnExtractionFailure, Synced, AtOnce, OneWay
<1> QED
  BY <1>1, CollectingKeeps DEF OnExtractionFailure

LEMMA DisconnectedKeeps ==
    ASSUME Synced, Disconnected
    PROVE  Synced'
<1> DEFINE patch == Diff(current, Lost(current))
<1>1. /\ IsState(Lost(current))
      /\ \A f \in OneWay \ {"connected"} : Lost(current)[f] = current[f]
  BY ConnectionFields DEF Lost, Synced
<1>2. /\ IsState(current')
      /\ \A f \in OneWay : current'[f] = Lost(current)[f]
  BY <1>1, FailedFields DEF Disconnected
<1>3. /\ DOMAIN patch \subseteq Fields
      /\ \A f \in OneWay \cap DOMAIN patch : patch[f] = current'[f]
      /\ \A f \in OneWay \ DOMAIN patch : current'[f] = current[f]
  BY <1>2 DEF Diff, OneWay, Fields
<1>4. /\ DOMAIN pending' \subseteq Fields \ AtOnce
      /\ OneWay \cap DOMAIN pending' = OneWay \cap DOMAIN pending
      /\ \A f \in OneWay \cap DOMAIN pending : pending'[f] = pending[f]
  <2>1. CASE pending' = pending
    BY <2>1 DEF Synced
  <2>2. CASE pending' = Scheduled(Diff(Lost(current), Failed(Lost(current))))
    <3> DEFINE late == Diff(Lost(current), Failed(Lost(current)))
    <3>1. DOMAIN late \subseteq Fields \ OneWay
      BY <1>1, FailedFields DEF Diff
    <3> HIDE DEF late
    <3>2. /\ DOMAIN pending' = DOMAIN late \cup DOMAIN pending
          /\ \A f \in DOMAIN pending \ DOMAIN late : pending'[f] = pending[f]
      BY <2>2 DEF Scheduled, Merged, late
    <3> QED
      BY <3>1, <3>2 DEF Synced, AtOnce, OneWay
  <2> QED
    BY <2>1, <2>2 DEF Disconnected
<1>5. views' = Received(patch)
  BY DEF Disconnected
<1>6. current'["page"] = current["page"] /\ current'["label"] = current["label"]
  BY <1>1, <1>2 DEF OneWay
<1> HIDE DEF patch
<1> QED
  BY <1>2, <1>3, <1>4, <1>5, <1>6, SendingKeeps

LEMMA AnnouncedKeeps ==
    ASSUME Synced, NEW from, IsState(from), NEW t, Announced(from, t),
           \A f \in OneWay \ {"connected"} : from[f] = current[f],
           pending' = pending
    PROVE  Synced'
<1> DEFINE patch == Merged(Diff(from, current'), Diff(current, from))
<1>1. /\ IsState(Connection(from, TRUE))
      /\ \A f \in OneWay \ {"connected"} : Connection(from, TRUE)[f] = from[f]
  BY ConnectionFields
<1>2. /\ IsState(current')
      /\ current'["page"] = from["page"]
      /\ current'["label"] = from["label"]
  BY <1>1 DEF Announced, IsState, Fields, OneWay
<1>3. views' = Received(patch)
  BY DEF Announced
<1>4. /\ DOMAIN patch \subseteq Fields
      /\ \A f \in OneWay \cap DOMAIN patch : patch[f] = current'[f]
      /\ \A f \in OneWay \ DOMAIN patch : current'[f] = current[f]
  BY DEF Merged, Diff, OneWay, Fields
<1>5. current'["page"] = current["page"] /\ current'["label"] = current["label"]
  BY <1>2 DEF OneWay
<1> HIDE DEF patch
<1> QED
  BY <1>2, <1>3, <1>4, <1>5, SendingKeeps DEF Synced

LEMMA RefreshedKeeps ==
    ASSUME Synced, NEW k, Refreshed(k)
    PROVE  Synced'
<1> DEFINE patch == Diff(current, current')
<1>1. /\ IsState(current')
      /\ current'["page"] = current["page"]
      /\ current'["label"] = current["label"]
  BY DEF Refreshed, Synced, IsState, Fields
<1>2. views' = Received(patch) /\ pending' = pending
  BY DEF Refreshed
<1>3. /\ DOMAIN patch \subseteq Fields
      /\ \A f \in OneWay \cap DOMAIN patch : patch[f] = current'[f]
      /\ \A f \in OneWay \ DOMAIN patch : current'[f] = current[f]
  BY DEF Diff, OneWay, Fields
<1> HIDE DEF patch
<1> QED
  BY <1>1, <1>2, <1>3, SendingKeeps DEF Synced

LEMMA StutterKeeps ==
    ASSUME Synced, UNCHANGED stateVars
    PROVE  Synced'
  BY DEF Synced, stateVars, Online, Waits, Lags

LEMMA SyncedInitially ==
    ASSUME Init
    PROVE  Synced
<1>1. IsState(current)
  BY DEF Init, StateInit, EmptyState, IsState, Fields
<1>2. DOMAIN pending = {}
  BY DEF Init, StateInit, NoPatch
<1>3. Online = {} /\ views = [c \in Clients |-> views[c]]
  BY DEF Init, StateInit, Online
<1> QED
  BY <1>1, <1>2, <1>3 DEF Synced, Waits

LEMMA SyncedKept ==
    ASSUME Synced, [Next]_vars
    PROVE  Synced'
<1>1. CASE Connected
  BY <1>1, AnnouncedKeeps DEF Connected, Synced
<1>2. CASE LostThenConnected
  <2>1. /\ IsState(Lost(current))
        /\ \A f \in OneWay \ {"connected"} : Lost(current)[f] = current[f]
    BY ConnectionFields DEF Lost, Synced
  <2> QED
    BY <1>2, <2>1, AnnouncedKeeps DEF LostThenConnected
<1>3. CASE SocketCloses
  BY <1>3, DisconnectedKeeps DEF SocketCloses
<1>4. ASSUME NEW w \in Windows, MoveHomeWindow(w)
      PROVE  Synced'
  BY <1>4, DisconnectedKeeps DEF MoveHomeWindow
<1>5. CASE PollTimesOut
  BY <1>5, FailureKeeps DEF PollTimesOut
<1>6. ASSUME NEW elapsed \in BOOLEAN, PollAnswers(elapsed)
      PROVE  Synced'
  BY <1>6, ExtractionKeeps DEF PollAnswers
<1>7. CASE Publish
  BY <1>7, FlushingKeeps DEF Publish, FlushAndCapture
<1>8. ASSUME NEW c \in Clients, Browser(c) \/ BrowserLost(c)
      PROVE  Synced'
  BY <1>8, BrowsersKeep DEF Browser, BrowserLost
<1>9. ASSUME NEW k \in Cycles, CycleWorks(k) \/ CycleFails(k)
      PROVE  Synced'
  <2>1. CASE Refreshed(k)
    BY <2>1, RefreshedKeeps
  <2>2. CASE UNCHANGED stateVars
    BY <2>2, StutterKeeps
  <2> QED
    BY <1>9, <2>1, <2>2 DEF CycleWorks, CycleFails, CycleBegins, NothingToPoll, PollLands,
                            RefreshFails, PollFails
<1>10. CASE \/ Opens \/ ExtractorStarts \/ ContextFails \/ UNCHANGED vars
            \/ \E w \in Windows : Edits(w) \/ WindowOpens(w) \/ WindowCloses(w)
  BY <1>10, StutterKeeps DEF Opens, ExtractorStarts, ContextFails, Edits, WindowOpens,
                             WindowCloses, vars
<1> QED
  BY <1>1, <1>2, <1>3, <1>4, <1>5, <1>6, <1>7, <1>8, <1>9, <1>10 DEF Next, Connects

(***************************************************************************)
(* Whatever the order of reads, timers, connections and browsers: when no  *)
(* patch waits, every client has the server's content and connection.      *)
(***************************************************************************)
THEOREM ViewsAlwaysConverge == Spec => []ViewsConverge
<1>1. Synced => ViewsConverge
  <2>1. DOMAIN NoPatch = {}
    BY DEF NoPatch
  <2> QED
    BY <2>1 DEF Synced, ViewsConverge, Lags
<1> QED
  BY <1>1, SyncedInitially, SyncedKept, PTL DEF Spec

--------------------------------------------------------------------------------
(***************************************************************************)
(* Telegram's queue.  Whoever waits has one call in it, edits stand before *)
(* posts, and an operation loses no call but the one it answers or drops.  *)
(***************************************************************************)

Calls == {queue[i] : i \in DOMAIN queue} \union ({running} \ {NoItem})
IsRun(c) == running # NoItem /\ running.by = c

EditsFirst(q) == \A i, k \in DOMAIN q : i < k /\ q[k].priority = "edit" => q[i].priority = "edit"
OneEach(q) == \A i, k \in DOMAIN q : q[i].by = q[k].by => i = k
Awaited(q, c) == \E i \in DOMAIN q : q[i].by = c

QueueInv ==
    /\ queue \in Seq(Items)
    /\ running \in Items \union {NoItem}
    /\ answer \in [Callers -> {"none", "waiting"} \union Results]
    /\ EditsFirst(queue) /\ OneEach(queue)
    /\ \A c \in Callers : ~(IsRun(c) /\ Awaited(queue, c))
    /\ \A c \in Callers : answer[c] = "waiting" <=> IsRun(c) \/ Awaited(queue, c)

\* A set of positions has a first one, and a finite one a last.
LEMMA FirstIs ==
  ASSUME NEW T, T \subseteq Nat, T # {}
  PROVE  Min(T) \in T /\ \A y \in T : Min(T) <= y
<1> DEFINE R == OpToRel(<, Nat)
<1>1. PICK x \in T : \A y \in T : ~(<<y, x>> \in R)
  <2> HIDE DEF R
  <2>1. IsWellFoundedOn(R, Nat)
    BY NatLessThanWellFounded DEF R
  <2> QED BY <2>1, WFMin
<1>2. \A y \in T : ~(y < x)
  BY <1>1 DEF OpToRel
<1>3. \A y \in T : x <= y
  BY <1>2
<1> QED BY <1>3 DEF Min

LEMMA LastIs ==
  ASSUME NEW n \in Nat, NEW T, T \subseteq 0..n, T # {}
  PROVE  Max(T) \in T
<1> DEFINE U == {n - x : x \in T}
<1>1. U \subseteq Nat /\ U # {}
  <2>1. PICK x \in T : TRUE
    OBVIOUS
  <2>2. n - x \in U
    BY <2>1
  <2> QED BY <2>2
<1>2. Min(U) \in U /\ \A y \in U : Min(U) <= y
  <2> HIDE DEF U
  <2> QED BY <1>1, FirstIs
<1>3. PICK x \in T : Min(U) = n - x
  BY <1>2
<1>4. \A y \in T : y <= x
  BY <1>2, <1>3
<1> QED BY <1>4 DEF Max

LEMMA RemovedAt ==
  ASSUME NEW q \in Seq(Items), NEW o \in DOMAIN q
  PROVE  /\ RemoveAt(q, o) \in Seq(Items)
         /\ Len(RemoveAt(q, o)) = Len(q) - 1
         /\ \A i \in 1..Len(q) - 1 : RemoveAt(q, o)[i] = IF i < o THEN q[i] ELSE q[i + 1]
<1> DEFINE a == SubSeq(q, 1, o - 1)
           b == SubSeq(q, o + 1, Len(q))
<1>1. o \in 1..Len(q) /\ Len(q) \in Nat /\ \A i \in 1..Len(q) : q[i] \in Items
  OBVIOUS
<1>2. /\ a \in Seq(Items) /\ Len(a) = o - 1
      /\ \A i \in 1..o - 1 : a[i] = q[i]
  <2>1. \A i \in 1..o - 1 : q[i] \in Items
    BY <1>1
  <2>2. /\ a \in Seq(Items) /\ Len(a) = IF 1 <= o - 1 THEN o - 1 - 1 + 1 ELSE 0
        /\ \A i \in 1..o - 1 - 1 + 1 : a[i] = q[1 + i - 1]
    BY <1>1, <2>1, SubSeqProperties
  <2> QED BY <1>1, <2>2
<1>3. /\ b \in Seq(Items) /\ Len(b) = Len(q) - o
      /\ \A i \in 1..Len(q) - o : b[i] = q[o + i]
  <2>1. \A i \in o + 1..Len(q) : q[i] \in Items
    BY <1>1
  <2>2. /\ b \in Seq(Items) /\ Len(b) = IF o + 1 <= Len(q) THEN Len(q) - (o + 1) + 1 ELSE 0
        /\ \A i \in 1..Len(q) - (o + 1) + 1 : b[i] = q[o + 1 + i - 1]
    BY <1>1, <2>1, SubSeqProperties
  <2> QED BY <1>1, <2>2
<1>4. /\ a \o b \in Seq(Items) /\ Len(a \o b) = Len(a) + Len(b)
      /\ \A i \in 1..Len(a) + Len(b) : (a \o b)[i] = IF i <= Len(a) THEN a[i] ELSE b[i - Len(a)]
  <2> HIDE DEF a, b
  <2> QED BY <1>2, <1>3, ConcatProperties
<1>5. RemoveAt(q, o) = a \o b
  BY DEF RemoveAt
<1>6. \A i \in 1..Len(q) - 1 :
         (a \o b)[i] = IF i < o THEN q[i] ELSE q[i + 1]
  <2> HIDE DEF a, b
  <2> TAKE i \in 1..Len(q) - 1
  <2>1. CASE i < o
    <3>1. i \in 1..o - 1 /\ i <= Len(a) /\ i \in 1..Len(a) + Len(b)
      BY <1>1, <1>2, <1>3, <2>1
    <3> QED BY <1>2, <1>4, <2>1, <3>1
  <2>2. CASE ~(i < o)
    <3>1. /\ i - Len(a) \in 1..Len(q) - o /\ ~(i <= Len(a)) /\ i \in 1..Len(a) + Len(b)
          /\ o + (i - Len(a)) = i + 1
      BY <1>1, <1>2, <1>3, <2>2
    <3> QED BY <1>3, <1>4, <2>2, <3>1
  <2> QED BY <2>1, <2>2
<1> HIDE DEF a, b
<1>7. Len(a) + Len(b) = Len(q) - 1
  BY <1>1, <1>2, <1>3
<1> QED BY <1>4, <1>5, <1>6, <1>7

LEMMA InsertedAt ==
  ASSUME NEW q \in Seq(Items), NEW p \in DOMAIN q, NEW item \in Items
  PROVE  /\ InsertAt(q, p, item) \in Seq(Items)
         /\ Len(InsertAt(q, p, item)) = Len(q) + 1
         /\ \A i \in 1..Len(q) + 1 :
               InsertAt(q, p, item)[i] = IF i < p THEN q[i] ELSE IF i = p THEN item ELSE q[i - 1]
<1> DEFINE a == SubSeq(q, 1, p - 1)
           b == SubSeq(q, p, Len(q))
           c == a \o <<item>>
<1>1. p \in 1..Len(q) /\ Len(q) \in Nat /\ \A i \in 1..Len(q) : q[i] \in Items
  OBVIOUS
<1>2. /\ a \in Seq(Items) /\ Len(a) = p - 1
      /\ \A i \in 1..p - 1 : a[i] = q[i]
  <2>1. \A i \in 1..p - 1 : q[i] \in Items
    BY <1>1
  <2>2. /\ a \in Seq(Items) /\ Len(a) = IF 1 <= p - 1 THEN p - 1 - 1 + 1 ELSE 0
        /\ \A i \in 1..p - 1 - 1 + 1 : a[i] = q[1 + i - 1]
    BY <1>1, <2>1, SubSeqProperties
  <2> QED BY <1>1, <2>2
<1>3. /\ b \in Seq(Items) /\ Len(b) = Len(q) - p + 1
      /\ \A i \in 1..Len(q) - p + 1 : b[i] = q[p + i - 1]
  <2>1. \A i \in p..Len(q) : q[i] \in Items
    BY <1>1
  <2>2. /\ b \in Seq(Items) /\ Len(b) = IF p <= Len(q) THEN Len(q) - p + 1 ELSE 0
        /\ \A i \in 1..Len(q) - p + 1 : b[i] = q[p + i - 1]
    BY <1>1, <2>1, SubSeqProperties
  <2> QED BY <1>1, <2>2
<1>4. /\ c \in Seq(Items) /\ Len(c) = p
      /\ \A i \in 1..p : c[i] = IF i < p THEN q[i] ELSE item
  <2>1. <<item>> \in Seq(Items) /\ Len(<<item>>) = 1 /\ <<item>>[1] = item
    OBVIOUS
  <2>2. /\ c \in Seq(Items) /\ Len(c) = Len(a) + 1
        /\ \A i \in 1..Len(a) + 1 : c[i] = IF i <= Len(a) THEN a[i] ELSE <<item>>[i - Len(a)]
    <3> HIDE DEF a
    <3> QED BY <1>2, <2>1, ConcatProperties
  <2> HIDE DEF a, c
  <2>3. Len(c) = p
    BY <1>1, <1>2, <2>2
  <2>4. ASSUME NEW i \in 1..p PROVE c[i] = IF i < p THEN q[i] ELSE item
    <3>1. CASE i < p
      <4>1. i \in 1..p - 1 /\ i <= Len(a) /\ i \in 1..Len(a) + 1
        BY <1>1, <1>2, <3>1
      <4> QED BY <1>2, <2>2, <3>1, <4>1
    <3>2. CASE i = p
      <4>1. i - Len(a) = 1 /\ ~(i <= Len(a)) /\ i \in 1..Len(a) + 1
        BY <1>1, <1>2, <3>2
      <4> QED BY <2>1, <2>2, <3>2, <4>1
    <3> QED BY <1>1, <3>1, <3>2
  <2> QED BY <2>2, <2>3, <2>4
<1>5. /\ c \o b \in Seq(Items) /\ Len(c \o b) = Len(c) + Len(b)
      /\ \A i \in 1..Len(c) + Len(b) : (c \o b)[i] = IF i <= Len(c) THEN c[i] ELSE b[i - Len(c)]
  <2> HIDE DEF b, c
  <2> QED BY <1>3, <1>4, ConcatProperties
<1>6. InsertAt(q, p, item) = c \o b
  BY DEF InsertAt
<1> HIDE DEF a, b, c
<1>7. Len(c) + Len(b) = Len(q) + 1
  BY <1>1, <1>3, <1>4
<1>8. ASSUME NEW i \in 1..Len(q) + 1
      PROVE  (c \o b)[i] = IF i < p THEN q[i] ELSE IF i = p THEN item ELSE q[i - 1]
  <2>1. CASE i <= p
    <3>1. i \in 1..p /\ i <= Len(c)
      BY <1>1, <1>4, <2>1
    <3> QED BY <1>1, <1>4, <1>5, <1>7, <2>1, <3>1
  <2>2. CASE ~(i <= p)
    <3>1. /\ i - Len(c) \in 1..Len(q) - p + 1 /\ ~(i <= Len(c))
          /\ p + (i - Len(c)) - 1 = i - 1 /\ ~(i < p) /\ i # p
      BY <1>1, <1>4, <2>2
    <3> QED BY <1>3, <1>5, <1>7, <2>2, <3>1
  <2> QED BY <2>1, <2>2
<1> QED BY <1>5, <1>6, <1>7, <1>8

\* What is dropped is the oldest send, and the rest stays as it was.
LEMMA KeptIs ==
  ASSUME QueueInv
  PROVE  /\ Kept \in Seq(Items) /\ EditsFirst(Kept) /\ OneEach(Kept)
         /\ Overflowing => Oldest \in DOMAIN queue /\ queue[Oldest].priority = "send"
         /\ \A i \in DOMAIN Kept : \E k \in DOMAIN queue :
               Kept[i] = queue[k] /\ (Overflowing => k # Oldest)
         /\ \A k \in DOMAIN queue : (Overflowing => k # Oldest) =>
               \E i \in DOMAIN Kept : Kept[i] = queue[k]
<1>1. queue \in Seq(Items) /\ EditsFirst(queue) /\ OneEach(queue)
  BY DEF QueueInv
<1>2. CASE ~Overflowing
  BY <1>1, <1>2 DEF Kept
<1>3. CASE Overflowing
  <2>1. Sends(queue) \subseteq Nat /\ Sends(queue) # {}
    BY <1>1, <1>3 DEF Overflowing, Sends
  <2>2. Oldest \in Sends(queue)
    BY <2>1, FirstIs DEF Oldest
  <2>3. Oldest \in DOMAIN queue /\ queue[Oldest].priority = "send"
    BY <2>2 DEF Sends
  <2> DEFINE o == Oldest
             r == Kept
  <2>4. r = RemoveAt(queue, o)
    BY <1>3 DEF Kept
  <2>5. o \in DOMAIN queue /\ o \in 1..Len(queue) /\ Len(queue) \in Nat
    BY <1>1, <2>3
  <2> HIDE DEF o, r
  <2>6. /\ r \in Seq(Items) /\ Len(r) = Len(queue) - 1
        /\ \A i \in 1..Len(queue) - 1 : r[i] = IF i < o THEN queue[i] ELSE queue[i + 1]
    BY <1>1, <2>4, <2>5, RemovedAt
  <2> DEFINE from(i) == IF i < o THEN i ELSE i + 1
  <2>7. DOMAIN r = 1..Len(queue) - 1 /\ DOMAIN queue = 1..Len(queue)
    BY <1>1, <2>5, <2>6
  <2>8. \A i \in DOMAIN r : from(i) \in DOMAIN queue /\ from(i) # o /\ r[i] = queue[from(i)]
    BY <2>5, <2>6, <2>7
  <2>9. \A i, k \in DOMAIN r : (i < k <=> from(i) < from(k)) /\ (from(i) = from(k) => i = k)
    BY <2>5, <2>7
  <2>10. \A k \in DOMAIN queue : k # o => \E i \in DOMAIN r : from(i) = k
    <3> SUFFICES ASSUME NEW k \in DOMAIN queue, k # o PROVE \E i \in DOMAIN r : from(i) = k
      OBVIOUS
    <3>1. CASE k < o
      BY <2>5, <2>7, <3>1
    <3>2. CASE k > o
      <4>1. k - 1 \in DOMAIN r /\ from(k - 1) = k
        BY <2>5, <2>7, <3>2
      <4> QED BY <4>1
    <3> QED BY <2>5, <2>7, <3>1, <3>2
  <2> HIDE DEF from
  <2>11. EditsFirst(r) /\ OneEach(r)
    BY <1>1, <2>8, <2>9 DEF EditsFirst, OneEach
  <2>12. /\ \A i \in DOMAIN r : \E k \in DOMAIN queue : r[i] = queue[k] /\ k # o
         /\ \A k \in DOMAIN queue : k # o => \E i \in DOMAIN r : r[i] = queue[k]
    BY <2>8, <2>10
  <2> QED BY <1>3, <2>3, <2>6, <2>11, <2>12 DEF o, r
<1> QED BY <1>2, <1>3

\* A call goes to its place, and the rest stays as it was.
LEMMA PlacedIs ==
  ASSUME NEW q \in Seq(Items), EditsFirst(q), OneEach(q),
         NEW item \in Items, ~Awaited(q, item.by)
  PROVE  /\ Placed(q, item) \in Seq(Items) /\ EditsFirst(Placed(q, item)) /\ OneEach(Placed(q, item))
         /\ \A i \in DOMAIN Placed(q, item) :
               Placed(q, item)[i] = item \/ \E k \in DOMAIN q : Placed(q, item)[i] = q[k]
         /\ \E i \in DOMAIN Placed(q, item) : Placed(q, item)[i] = item
         /\ \A k \in DOMAIN q : \E i \in DOMAIN Placed(q, item) : Placed(q, item)[i] = q[k]
<1> DEFINE n == Len(q)
           r == Placed(q, item)
<1>1. n \in Nat /\ DOMAIN q = 1..n /\ \A i \in 1..n : q[i] \in Items
  OBVIOUS
<1>2. \A i \in 1..n : q[i].priority \in {"send", "edit"} /\ q[i].by # item.by
  BY <1>1 DEF Items, Awaited
<1>3. PICK p \in 1..n + 1 :
        /\ r \in Seq(Items) /\ Len(r) = n + 1
        /\ \A i \in 1..n + 1 : r[i] = IF i < p THEN q[i] ELSE IF i = p THEN item ELSE q[i - 1]
        /\ item.priority = "edit" => \A i \in 1..n : i < p => q[i].priority = "edit"
        /\ item.priority # "edit" => p = n + 1
  <2>1. CASE item.priority = "edit" /\ Sends(q) # {}
    <3> DEFINE f == Min(Sends(q))
    <3>1. Sends(q) \subseteq Nat
      BY <1>1 DEF Sends
    <3>2. f \in Sends(q) /\ \A y \in Sends(q) : f <= y
      BY <2>1, <3>1, FirstIs
    <3>3. r = InsertAt(q, f, item)
      BY <2>1
      DEF Placed
    <3> HIDE DEF f
    <3>4. f \in DOMAIN q /\ f \in 1..n /\ \A i \in 1..n : i < f => q[i].priority = "edit"
      BY <1>1, <1>2, <3>2 DEF Sends
    <3> HIDE DEF r
    <3>5. /\ r \in Seq(Items) /\ Len(r) = n + 1
          /\ \A i \in 1..n + 1 : r[i] = IF i < f THEN q[i] ELSE IF i = f THEN item ELSE q[i - 1]
      <4>1. f \in DOMAIN q
        BY <3>4
      <4>2. /\ InsertAt(q, f, item) \in Seq(Items) /\ Len(InsertAt(q, f, item)) = Len(q) + 1
            /\ \A i \in 1..Len(q) + 1 :
                  InsertAt(q, f, item)[i] = IF i < f THEN q[i] ELSE IF i = f THEN item ELSE q[i - 1]
        BY <4>1, InsertedAt
      <4>3. n = Len(q)
        OBVIOUS
      <4> HIDE DEF n
      <4> QED BY <3>3, <4>2, <4>3
    <3> HIDE DEF n
    <3>6. f \in 1..n + 1 /\ item.priority = "edit"
      BY <1>1, <2>1, <3>4
    <3>7. \A i \in 1..n : i < f => q[i].priority = "edit"
      BY <3>4
    <3> f \in 1..n + 1
      BY <3>6
    <3> WITNESS f \in 1..n + 1
    <3> QED BY <2>1, <3>5, <3>7
  <2>2. CASE ~(item.priority = "edit" /\ Sends(q) # {})
    <3>1. r = Append(q, item)
      BY <2>2 DEF Placed
    <3>2. /\ r \in Seq(Items) /\ Len(r) = n + 1
          /\ \A i \in 1..n + 1 : r[i] = IF i < n + 1 THEN q[i] ELSE item
      BY <1>1, <3>1
    <3>3. item.priority = "edit" => \A i \in 1..n : q[i].priority = "edit"
      BY <1>1, <1>2, <2>2 DEF Sends
    <3> HIDE DEF r, n
    <3>4. \A i \in 1..n + 1 : r[i] = IF i < n + 1 THEN q[i] ELSE IF i = n + 1 THEN item ELSE q[i - 1]
      BY <1>1, <3>2
    <3> QED BY <1>1, <3>2, <3>3, <3>4
  <2> QED BY <2>1, <2>2
<1> DEFINE to(k) == IF k < p THEN k ELSE k + 1
<1>4. DOMAIN r = 1..n + 1
  BY <1>1, <1>3
<1> HIDE DEF r, n
<1>5. /\ p \in DOMAIN r /\ r[p] = item
      /\ \A k \in 1..n : to(k) \in DOMAIN r /\ r[to(k)] = q[k] /\ to(k) # p
  <2>1. p \in DOMAIN r /\ r[p] = item
    BY <1>1, <1>3, <1>4
  <2>2. ASSUME NEW k \in 1..n PROVE to(k) \in DOMAIN r /\ r[to(k)] = q[k] /\ to(k) # p
    BY <1>1, <1>3, <1>4
  <2> QED BY <2>1, <2>2
<1>6. \A i \in DOMAIN r : i # p => \E k \in 1..n : to(k) = i
  <2> SUFFICES ASSUME NEW i \in DOMAIN r, i # p PROVE \E k \in 1..n : to(k) = i
    OBVIOUS
  <2>1. CASE i < p
    BY <1>1, <1>3, <1>4, <2>1
  <2>2. CASE i > p
    <3>1. i - 1 \in 1..n /\ to(i - 1) = i
      BY <1>1, <1>3, <1>4, <2>2
    <3> QED BY <3>1
  <2> QED BY <1>1, <1>3, <1>4, <2>1, <2>2
<1>7. \A k, l \in 1..n : (to(k) < to(l) <=> k < l) /\ (k < p <=> to(k) < p)
  BY <1>1, <1>3
<1> HIDE DEF to
<1>8. EditsFirst(r)
  <2> SUFFICES ASSUME NEW i \in DOMAIN r, NEW j \in DOMAIN r, i < j, r[j].priority = "edit"
               PROVE  r[i].priority = "edit"
    BY DEF EditsFirst
  <2>1. CASE i # p /\ j # p
    <3>1. PICK k \in 1..n, l \in 1..n : to(k) = i /\ to(l) = j
      BY <1>6, <2>1
    <3>2. k < l /\ q[l].priority = "edit" /\ r[i] = q[k]
      BY <1>5, <1>7, <3>1
    <3> QED BY <1>1, <3>2 DEF EditsFirst
  <2>2. CASE j = p
    <3>1. i # p
      BY <1>3, <1>4, <1>1, <2>2
    <3>2. PICK k \in 1..n : to(k) = i
      BY <1>6, <3>1
    <3>3. k < p /\ r[i] = q[k]
      BY <1>5, <1>7, <2>2, <3>2
    <3>4. item.priority = "edit"
      BY <1>5, <2>2
    <3>5. q[k].priority = "edit"
      BY <1>3, <3>3, <3>4
    <3> QED BY <3>3, <3>5
  <2>3. CASE i = p
    <3>1. item.priority = "edit"
      BY <1>1, <1>3, <1>4, <2>3
    <3> QED BY <1>5, <2>3, <3>1
  <2> QED BY <2>1, <2>2, <2>3
<1>9. OneEach(r)
  <2> SUFFICES ASSUME NEW i \in DOMAIN r, NEW j \in DOMAIN r, r[i].by = r[j].by
               PROVE  i = j
    BY DEF OneEach
  <2>1. CASE i # p /\ j # p
    <3>1. PICK k \in 1..n, l \in 1..n : to(k) = i /\ to(l) = j
      BY <1>6, <2>1
    <3>2. q[k].by = q[l].by
      BY <1>5, <3>1
    <3> QED BY <1>1, <3>1, <3>2 DEF OneEach
  <2>2. CASE i = p \/ j = p
    BY <1>2, <1>5, <1>6, <2>2
  <2> QED BY <2>1, <2>2
<1>10. /\ \A i \in DOMAIN r : r[i] = item \/ \E k \in DOMAIN q : r[i] = q[k]
       /\ \E i \in DOMAIN r : r[i] = item
       /\ \A k \in DOMAIN q : \E i \in DOMAIN r : r[i] = q[k]
  BY <1>1, <1>5, <1>6
<1> QED BY <1>3, <1>8, <1>9, <1>10 DEF r

\* The calls in hand, after an operation on the queue.
SameCalls == \A it \in Calls' : \E old \in Calls : it.by = old.by /\ it.priority = old.priority
Sending(c) == \E it \in Calls : it.by = c /\ it.priority = "send"
Drops(d) == answer[d] = "waiting" /\ answer'[d] = "failed" /\ Sending(d)

LEMMA EnqueueIs ==
  ASSUME QueueInv, NEW c \in Callers, NEW p \in {"send", "edit"}, Enqueue(c, p)
  PROVE  /\ QueueInv'
         /\ answer[c] = "none" /\ answer'[c] = "waiting"
         /\ \A d \in Callers \ {c} : answer'[d] = answer[d] \/ Drops(d)
         /\ \A d, e \in Callers \ {c} : answer'[d] # answer[d] /\ answer'[e] # answer[e] => d = e
         /\ \A it \in Calls' : it \in Calls \/ it = Item(c, p)
         /\ \A d \in Callers : IsRun(d)' =>
               IsRun(d) \/ (d = c /\ \A e \in Callers : answer[e] # "waiting")
<1> DEFINE item == Item(c, p)
<1>1. item \in Items /\ item.by = c
  BY DEF Item, Items
<1>2. /\ queue \in Seq(Items) /\ EditsFirst(queue) /\ OneEach(queue)
      /\ running \in Items \union {NoItem}
      /\ answer \in [Callers -> {"none", "waiting"} \union Results]
      /\ \A d \in Callers : ~(IsRun(d) /\ Awaited(queue, d))
      /\ \A d \in Callers : answer[d] = "waiting" <=> IsRun(d) \/ Awaited(queue, d)
  BY DEF QueueInv
<1>3. answer[c] = "none" /\ ~IsRun(c) /\ ~Awaited(queue, c)
  BY <1>2 DEF Enqueue
<1>4. /\ Overflowing => Oldest \in DOMAIN queue /\ queue[Oldest].priority = "send" /\ queue[Oldest].by # c
  BY <1>3, KeptIs DEF Awaited
<1> DEFINE gone(d) == d # c /\ Overflowing /\ queue[Oldest].by = d
<1>5. \A d \in Callers : answer'[d] = IF d = c THEN "waiting" ELSE IF gone(d) THEN "failed" ELSE answer[d]
  BY DEF Enqueue, AnswersAfterDrop
<1>6. answer' \in [Callers -> {"none", "waiting"} \union Results]
  <2>1. answer' = [d \in Callers |-> answer'[d]]
    BY DEF Enqueue, AnswersAfterDrop
  <2>2. \A d \in Callers : answer'[d] \in {"none", "waiting"} \union Results
    BY <1>2, <1>5 DEF Results
  <2> QED BY <2>1, <2>2
<1> HIDE DEF item
<1>7. \A d \in Callers : gone(d) => Drops(d)
  <2> SUFFICES ASSUME NEW d \in Callers, gone(d) PROVE Drops(d)
    OBVIOUS
  <2>1. queue[Oldest] \in Calls /\ queue[Oldest].by = d /\ queue[Oldest].priority = "send"
    BY <1>4 DEF Calls
  <2>2. Awaited(queue, d)
    BY <1>4 DEF Awaited
  <2> QED BY <1>2, <1>5, <2>1, <2>2 DEF Drops, Sending
<1>8. CASE Processing
  <2>1. queue' = Placed(Kept, item) /\ running' = running
    BY <1>8 DEF Enqueue, item
  <2>2. /\ Kept \in Seq(Items) /\ EditsFirst(Kept) /\ OneEach(Kept) /\ ~Awaited(Kept, item.by)
        /\ \A i \in DOMAIN Kept : \E k \in DOMAIN queue : Kept[i] = queue[k] /\ (Overflowing => k # Oldest)
        /\ \A k \in DOMAIN queue : (Overflowing => k # Oldest) => \E i \in DOMAIN Kept : Kept[i] = queue[k]
    BY <1>1, <1>3, KeptIs DEF Awaited
  <2> DEFINE r == queue'
  <2>3. /\ r \in Seq(Items) /\ EditsFirst(r) /\ OneEach(r)
        /\ \A i \in DOMAIN r : r[i] = item \/ \E k \in DOMAIN Kept : r[i] = Kept[k]
        /\ \E i \in DOMAIN r : r[i] = item
        /\ \A k \in DOMAIN Kept : \E i \in DOMAIN r : r[i] = Kept[k]
    BY <1>1, <2>1, <2>2, PlacedIs
  <2>4. \A d \in Callers : Awaited(r, d) <=> d = c \/ (Awaited(queue, d) /\ ~gone(d))
    <3> SUFFICES ASSUME NEW d \in Callers
                 PROVE  Awaited(r, d) <=> d = c \/ (Awaited(queue, d) /\ ~gone(d))
      OBVIOUS
    <3>1. Awaited(r, d) => d = c \/ (Awaited(queue, d) /\ ~gone(d))
      <4> SUFFICES ASSUME NEW i \in DOMAIN r, r[i].by = d, d # c
                   PROVE  Awaited(queue, d) /\ ~gone(d)
        BY DEF Awaited
      <4>1. PICK k \in DOMAIN queue : r[i] = queue[k] /\ (Overflowing => k # Oldest)
        BY <1>1, <2>2, <2>3
      <4>2. Overflowing => queue[k].by # queue[Oldest].by
        BY <1>2, <1>4, <4>1 DEF OneEach
      <4> QED BY <4>1, <4>2 DEF Awaited
    <3>2. d = c => Awaited(r, d)
      BY <1>1, <2>3 DEF Awaited
    <3>3. d # c /\ Awaited(queue, d) /\ ~gone(d) => Awaited(r, d)
      <4> SUFFICES ASSUME d # c, ~gone(d), NEW k \in DOMAIN queue, queue[k].by = d
                   PROVE  Awaited(r, d)
        BY DEF Awaited
      <4>1. Overflowing => k # Oldest
        OBVIOUS
      <4>2. PICK i \in DOMAIN Kept : Kept[i] = queue[k]
        BY <2>2, <4>1
      <4>3. PICK l \in DOMAIN r : r[l] = Kept[i]
        BY <2>3
      <4> QED BY <4>2, <4>3 DEF Awaited
    <3> QED BY <3>1, <3>2, <3>3
  <2>5. \A d \in Callers : IsRun(d)' <=> IsRun(d)
    BY <2>1 DEF IsRun
  <2>6. QueueInv'
    <3>1. \A d \in Callers : ~(IsRun(d)' /\ Awaited(r, d))
      BY <1>2, <1>3, <2>4, <2>5
    <3>2. ASSUME NEW d \in Callers PROVE answer'[d] = "waiting" <=> IsRun(d)' \/ Awaited(r, d)
      <4>1. d = c => answer'[d] = "waiting" /\ Awaited(r, d)
        BY <1>5, <2>4
      <4>2. d # c /\ gone(d) => answer'[d] # "waiting" /\ ~Awaited(r, d) /\ ~IsRun(d)
        <5>1. gone(d) => Awaited(queue, d)
          BY <1>4 DEF Awaited
        <5> QED BY <1>2, <1>5, <2>4, <5>1
      <4>3. d # c /\ ~gone(d) => answer'[d] = answer[d] /\ (Awaited(r, d) <=> Awaited(queue, d))
        BY <1>5, <2>4
      <4> QED BY <1>2, <2>5, <4>1, <4>2, <4>3
    <3>3. running' \in Items \union {NoItem}
      BY <1>2, <2>1
    <3> QED BY <1>6, <2>3, <3>1, <3>2, <3>3 DEF QueueInv, Awaited
  <2>7. \A it \in Calls' : it \in Calls \/ it = item
    BY <2>1, <2>2, <2>3 DEF Calls
  <2> QED BY <1>3, <1>4, <1>5, <1>7, <2>5, <2>6, <2>7 DEF item
<1>9. CASE ~Processing
  <2>1. running' = item /\ queue' = queue /\ running = NoItem /\ queue = <<>>
    BY <1>9 DEF Enqueue, Processing, item
  <2>2. ~Overflowing
    BY <2>1 DEF Overflowing, Sends
  <2>3. \A d \in Callers : ~IsRun(d) /\ ~Awaited(queue, d)
    BY <2>1 DEF IsRun, Awaited
  <2>4. \A d \in Callers : (IsRun(d)' <=> d = c) /\ ~Awaited(queue', d)
    BY <1>1, <2>1, <2>3, QueueAssumption DEF IsRun
  <2>5. QueueInv'
    <3>1. \A d \in Callers : answer'[d] = "waiting" <=> IsRun(d)' \/ Awaited(queue', d)
      BY <1>2, <1>5, <2>2, <2>3, <2>4
    <3> QED BY <1>1, <1>2, <1>6, <2>1, <2>4, <3>1 DEF QueueInv, Awaited
  <2>6. \A it \in Calls' : it = item
    BY <2>1 DEF Calls
  <2> QED BY <1>2, <1>3, <1>5, <2>2, <2>3, <2>4, <2>5, <2>6 DEF item
<1> QED BY <1>8, <1>9

LEMMA StartNextIs ==
  ASSUME QueueInv, StartNext
  PROVE  /\ QueueInv' /\ answer' = answer
         /\ \A it \in Calls' : it \in Calls
         /\ \A d \in Callers : ~IsRun(d)
         /\ running' \in Calls
         /\ running'.priority = "send" => \A it \in Calls : it.priority = "send"
<1>1. /\ queue \in Seq(Items) /\ EditsFirst(queue) /\ OneEach(queue) /\ queue # <<>>
      /\ running = NoItem /\ running' = Head(queue) /\ queue' = Tail(queue) /\ answer' = answer
  BY DEF QueueInv, StartNext
<1> DEFINE n == Len(queue)
<1>2. /\ n \in Nat \ {0} /\ DOMAIN queue = 1..n /\ running' = queue[1] /\ queue[1] \in Items
      /\ queue' \in Seq(Items) /\ DOMAIN queue' = 1..n - 1
      /\ \A i \in 1..n - 1 : queue'[i] = queue[i + 1]
  BY <1>1, HeadTailProperties
<1> HIDE DEF n
<1>3. \A i \in 1..n - 1 : i + 1 \in 1..n
  BY <1>2
<1>4. EditsFirst(queue') /\ OneEach(queue')
  BY <1>1, <1>2, <1>3 DEF EditsFirst, OneEach
<1>5. \A d \in Callers : Awaited(queue, d) <=> d = queue[1].by \/ Awaited(queue', d)
  <2>1. \A i \in 1..n : i = 1 \/ (i - 1 \in 1..n - 1 /\ (i - 1) + 1 = i)
    BY <1>2
  <2>2. \A i \in 1..n : i = 1 \/ \E k \in DOMAIN queue' : queue'[k] = queue[i]
    BY <1>2, <2>1
  <2>3. 1 \in DOMAIN queue
    BY <1>2
  <2> QED BY <1>2, <1>3, <2>2, <2>3 DEF Awaited
<1>6. ~Awaited(queue', queue[1].by)
  <2>1. \A i \in 1..n - 1 : queue[i + 1].by # queue[1].by
    BY <1>1, <1>2, <1>3 DEF OneEach
  <2> QED BY <1>2, <2>1 DEF Awaited
<1>7. \A d \in Callers : ~IsRun(d) /\ (IsRun(d)' <=> d = queue[1].by)
  BY <1>1, <1>2, QueueAssumption DEF IsRun
<1>8. QueueInv'
  <2>1. \A d \in Callers : /\ ~(IsRun(d)' /\ Awaited(queue', d))
                            /\ (answer'[d] = "waiting" <=> IsRun(d)' \/ Awaited(queue', d))
    BY <1>1, <1>5, <1>6, <1>7 DEF QueueInv
  <2>2. answer' \in [Callers -> {"none", "waiting"} \union Results]
    BY <1>1 DEF QueueInv
  <2> QED BY <1>2, <1>4, <2>1, <2>2 DEF QueueInv, Awaited
<1>9. \A it \in Calls' : it \in Calls
  <2>1. \A i \in DOMAIN queue' : queue'[i] \in Calls
    BY <1>2, <1>3 DEF Calls
  <2>2. running' \in Calls
    BY <1>2 DEF Calls
  <2> QED BY <2>1, <2>2 DEF Calls
<1>10. running' \in Calls
  BY <1>2 DEF Calls
<1>11. queue[1].priority = "send" => \A it \in Calls : it.priority = "send"
  <2>1. \A i \in 1..n : queue[i].priority \in {"send", "edit"}
    <3>1. \A i \in DOMAIN queue : queue[i] \in Items
      BY <1>1
    <3> QED BY <1>2, <3>1 DEF Items
  <2>2. \A i \in 1..n : i = 1 \/ 1 < i
    BY <1>2
  <2>3. 1 \in 1..n
    BY <1>2
  <2>4. queue[1].priority = "send" => \A i \in 1..n : queue[i].priority = "send"
    BY <1>1, <1>2, <2>1, <2>2, <2>3 DEF EditsFirst
  <2> QED BY <1>1, <1>2, <2>4 DEF Calls
<1> QED BY <1>1, <1>2, <1>7, <1>8, <1>9, <1>10, <1>11

\* The call being run ends with an answer, and no other is run.
Ended(result) ==
    /\ answer' = [answer EXCEPT ![running.by] = result]
    /\ \A it \in Calls' : it \in Calls /\ it.by # running.by
    /\ \A d \in Callers : ~IsRun(d)'

LEMMA EndIs ==
  ASSUME QueueInv, running # NoItem, NEW result \in Results,
         running' = NoItem, queue' = queue, answer' = [answer EXCEPT ![running.by] = result]
  PROVE  QueueInv' /\ Ended(result)
<1>1. running \in Items /\ running.by \in Callers /\ IsRun(running.by)
  BY DEF QueueInv, Items, IsRun
<1>2. \A i \in DOMAIN queue : queue[i].by # running.by
  BY <1>1 DEF QueueInv, Awaited
<1>3. \A d \in Callers : ~IsRun(d)' /\ (Awaited(queue, d)' <=> Awaited(queue, d))
  BY DEF IsRun, Awaited
<1>4. QueueInv'
  <2>1. answer' \in [Callers -> {"none", "waiting"} \union Results]
    BY <1>1 DEF QueueInv, Results
  <2>2. \A d \in Callers : answer'[d] = "waiting" <=> Awaited(queue, d)
    <3> SUFFICES ASSUME NEW d \in Callers PROVE answer'[d] = "waiting" <=> Awaited(queue, d)
      OBVIOUS
    <3>1. answer'[d] = IF d = running.by THEN result ELSE answer[d]
      BY <1>1 DEF QueueInv
    <3>2. d = running.by => ~Awaited(queue, d)
      BY <1>2 DEF Awaited
    <3>3. d # running.by => ~IsRun(d)
      BY DEF IsRun
    <3>4. result # "waiting"
      BY DEF Results
    <3> QED BY <3>1, <3>2, <3>3, <3>4 DEF QueueInv
  <2> QED BY <1>3, <2>1, <2>2 DEF QueueInv
<1>5. \A it \in Calls' : it \in Calls /\ it.by # running.by
  BY <1>2 DEF Calls
<1> QED BY <1>3, <1>4, <1>5 DEF Ended

LEMMA FinishIs ==
  ASSUME QueueInv, NEW result \in Results, Finish(result)
  PROVE  QueueInv' /\ Ended(result)
  BY EndIs DEF Finish

\* A call that is run again is the same call.
LEMMA LimitedIs ==
  ASSUME QueueInv, RateLimited
  PROVE  /\ QueueInv'
         /\ running.retries < MaxRetries =>
               /\ answer' = answer /\ SameCalls
               /\ \A d \in Callers : IsRun(d)' <=> IsRun(d)
         /\ ~(running.retries < MaxRetries) => Ended("failed")
<1>1. CASE ~(running.retries < MaxRetries)
  BY <1>1, EndIs DEF RateLimited, Results
<1>2. CASE running.retries < MaxRetries
  <2>1. /\ running \in Items /\ running' = [running EXCEPT !.retries = @ + 1]
        /\ queue' = queue /\ answer' = answer
    BY <1>2 DEF RateLimited, QueueInv
  <2>2. /\ running' \in Items /\ running'.by = running.by /\ running'.priority = running.priority
        /\ running # NoItem /\ running' # NoItem
    BY <2>1, QueueAssumption DEF Items
  <2>3. \A d \in Callers : IsRun(d)' <=> IsRun(d)
    BY <2>2 DEF IsRun
  <2>4. QueueInv'
    BY <2>1, <2>2, <2>3 DEF QueueInv
  <2>5. SameCalls
    BY <2>1, <2>2 DEF SameCalls, Calls
  <2> QED BY <1>2, <2>1, <2>3, <2>4, <2>5
<1> QED BY <1>1, <1>2

LEMMA TakeIs ==
  ASSUME QueueInv, NEW c \in Callers, TakeAnswer(c), queue' = queue, running' = running
  PROVE  /\ QueueInv' /\ Calls' = Calls
         /\ answer' = [answer EXCEPT ![c] = "none"] /\ answer[c] \in Results
         /\ \A d \in Callers : IsRun(d)' <=> IsRun(d)
<1>1. answer[c] # "waiting"
  BY DEF TakeAnswer, Results
<1>2. \A d \in Callers : IsRun(d)' <=> IsRun(d)
  BY DEF IsRun
<1>3. \A d \in Callers : answer'[d] = "waiting" <=> answer[d] = "waiting"
  BY <1>1 DEF TakeAnswer, QueueInv
<1>4. answer' \in [Callers -> {"none", "waiting"} \union Results]
  BY DEF TakeAnswer, QueueInv
<1> QED BY <1>2, <1>3, <1>4 DEF QueueInv, Calls, TakeAnswer

--------------------------------------------------------------------------------
(***************************************************************************)
(* The mirror: OneCopy, for every number of jobs, topics, posts, contents, *)
(* restarts and commands.                                                  *)
(*                                                                         *)
(* That a copy stands alone follows from CopyInv: a message of a topic     *)
(* that somebody may still come back to (Reached) is the one the tracker   *)
(* names, or a job is about to name it (Taking), or the topic is one of    *)
(* the excused.  A job posts when it saw no message tracked; the rest says *)
(* why that is still so when Telegram answers:                             *)
(*   TurnInv     a job whose turn it is is the only one, and a window has  *)
(*               one job unless a reset forgot one (Confused);             *)
(*   CallsInv    the calls in the queue are those of the waiting jobs, and *)
(*               the posts among them are the ones that count as sends;    *)
(*   BannerInv   what a job of the banner saw is still what is tracked, or *)
(*               nothing is: no two jobs send a banner of one topic, and   *)
(*               one that deletes it works on the same message as the one  *)
(*               that edits it, or goes before the one that posts anew,    *)
(*               because the queue runs edits first (AtOdds);              *)
(*   MessageInv  the same of the message, whose job is the window's only;  *)
(*   GoneInv     who was told that a message is gone, or deleted it, left  *)
(*               no copy that is not excused.                              *)
(* A step moves one job (GoesOn), calls Telegram for one (AsksFor), is     *)
(* Telegram's answer to one (Answers), takes it (Takes), or moves none     *)
(* (NobodyMoves); a lemma per kind, and one for a restart and a reset.     *)
(***************************************************************************)

JobKinds == {"none", "window", "patch", "sync", "unsync", "purge", "dedupe", "cleanup"}
Awaiting == {"deleting", "bannerSent", "messageSent"}
Sent == {"bannerSent", "messageSent"}
InTopic == {"sweep", "banner", "message"} \union Awaiting
OfWindow == {"route", "creating"} \union InTopic
JobPlaces == {"idle", "next", "syncing", "topics", "reset"} \union OfWindow
JobRecords == [kind : JobKinds, at : JobPlaces, thread : Nat, msg : Nat,
               seen : Snapshots \union {NoSnapshot}, todo : SUBSET Threads]
TrackRecords == [Threads \X Elements -> [version : Int, msg : Nat]]

MirrorTypeOK ==
    /\ QueueInv
    /\ track \in TrackRecords /\ disk \in TrackRecords
    /\ job \in [Jobs -> JobRecords]
    /\ created \in Nat /\ created <= MaxThreads /\ posts \in Nat
    /\ topics \subseteq [id : 1..created, bound : BOOLEAN]
    /\ chat \subseteq [id : Nat \ {0}, thread : 1..created, element : Elements]
    /\ win \in Snapshots /\ pendingSnapshot \in Snapshots \union {NoSnapshot}
    /\ processing \in BOOLEAN

\* A job whose turn it is, or whose answer is there to be taken.
Unquiet(j) == job[j].at \in Synchronous \/ answer[j] \in Results

\* A reset forgot a job under way: nothing is promised from then on.
Confused == Threads \X Elements \subseteq unsure

TurnInv ==
    /\ \A i, j \in Jobs : Unquiet(i) /\ Unquiet(j) => i = j
    /\ \A j \in Jobs :
          /\ job[j].at \in Awaiting <=> answer[j] # "none"
          /\ job[j].at \in OfWindow => MirrorJob(j) /\ job[j].seen \in Snapshots
          /\ job[j].at \in {"message", "messageSent"} => job[j].kind = "window"
          /\ job[j].at \in InTopic => Thread(j) \in 1..created
    /\ \A i \in Jobs : ~Confused /\ job[i].kind = "window" =>
          processing /\ \A j \in Jobs : job[j].kind = "window" => i = j

CallsInv ==
    /\ \A it \in Calls : it.by \in Jobs => (it.priority = "send" <=> Posting(it.by))
    /\ \A j \in Jobs : job[j].at \in Sent /\ answer[j] = "ok" => job[j].msg # 0

Tracks(k, msg) == track[k].msg = 0 \/ track[k].msg = msg
BannersTracked(s) == \A t \in Threads : s[<<t, "banner">>].msg = 0 => s[<<t, "banner">>] = Untracked

\* Two jobs with the banner of one topic: one that deletes what the other edits, or
\* one that deletes while the other's post still waits in the queue.
AtOdds(i, d) == job[i].msg = job[d].msg \/ (job[i].msg = 0 /\ ~IsRun(i))

BannerInv ==
    /\ BannersTracked(track) /\ BannersTracked(disk)
    /\ \A j \in Jobs : job[j].at \in {"deleting", "bannerSent"} => Tracks(Asked(j), job[j].msg)
    /\ \A j \in Jobs : job[j].at = "deleting" => job[j].msg # 0
    /\ \A j \in Jobs : job[j].at = "bannerSent" => Thread(j) \in inflight
    /\ \A i, j \in Jobs : Thread(i) = Thread(j) /\ job[i].at = "bannerSent" =>
          /\ job[j].at = "bannerSent" => i = j
          /\ job[j].at = "deleting" => AtOdds(i, j)

MessageInv == \A j \in Jobs : ~Confused /\ job[j].at = "messageSent" => Tracks(Asked(j), job[j].msg)

Key(m) == <<m.thread, m.element>>
Reached(t) == t \in Tracked \/ \E j \in Jobs : MirrorJob(j) /\ Thread(j) = t
Taking(j, m) == job[j].at \in Sent /\ answer[j] = "ok" /\ Asked(j) = Key(m) /\ job[j].msg = m.id
KnownCopy(m) == track[Key(m)].msg = m.id \/ \E j \in Jobs : Taking(j, m)

CopyInv == \A m \in chat : Reached(m.thread) => Key(m) \in unsure \/ KnownCopy(m)

Gone(j) ==
    \/ job[j].at = "deleting" /\ answer[j] \in Results
    \/ job[j].at = "messageSent" /\ answer[j] = "gone"
GoneInv == \A j \in Jobs : Gone(j) => \A m \in chat : Key(m) = Asked(j) => Asked(j) \in unsure

MirrorInv == MirrorTypeOK /\ TurnInv /\ CallsInv /\ BannerInv /\ MessageInv /\ CopyInv /\ GoneInv /\ OneCopy

LEMMA CallAwaited ==
  ASSUME QueueInv, NEW it \in Calls
  PROVE  it \in Items /\ it.by \in Callers /\ answer[it.by] = "waiting"
<1>1. it \in Items
  BY DEF Calls, QueueInv
<1>2. IsRun(it.by) \/ Awaited(queue, it.by)
  BY DEF Calls, IsRun, Awaited
<1> QED BY <1>1, <1>2 DEF Items, QueueInv

LEMMA JobsCall == Jobs \subseteq Callers /\ Other \in Callers /\ Other \notin Jobs
  BY MirrorAssumption

LEMMA OthersQuiet ==
  ASSUME TurnInv, NEW j \in Jobs, Quiet \/ Unquiet(j)
  PROVE  \A i \in Jobs \ {j} : ~Unquiet(i)
<1>1. CASE Quiet
  BY <1>1 DEF Quiet, Unquiet, Results
<1>2. CASE Unquiet(j)
  BY <1>2 DEF TurnInv
<1> QED BY <1>1, <1>2

LEMMA MirrorInvInit == MirrorInit => MirrorInv
<1> SUFFICES ASSUME MirrorInit PROVE MirrorInv
  OBVIOUS
<1>1. /\ queue = <<>> /\ running = NoItem /\ answer = [c \in Callers |-> "none"]
      /\ track = Blank /\ disk = Blank /\ topics = {} /\ chat = {} /\ created = 0 /\ posts = 0
      /\ job = [j \in Jobs |-> Idle] /\ processing = FALSE /\ pendingSnapshot = NoSnapshot
      /\ win = [message |-> 1, banner |-> 0, no |-> 1]
  BY DEF MirrorInit, QueueInit, TrackInit
<1>2. QueueInv
  <2>1. queue \in Seq(Items) /\ DOMAIN queue = {}
    BY <1>1
  <2> QED BY <1>1, <2>1 DEF QueueInv, EditsFirst, OneEach, Awaited, IsRun, Results
<1>3. Calls = {}
  BY <1>1 DEF Calls
<1>4. Idle \in JobRecords
  BY DEF Idle, JobRecords, JobKinds, JobPlaces
<1>5. Blank \in TrackRecords /\ \A k \in Threads \X Elements : Blank[k] = Untracked
  BY DEF Blank, TrackRecords, Untracked
<1>6. MirrorTypeOK
  <2>1. 0 <= MaxThreads
    BY MirrorAssumption
  <2> QED BY <1>1, <1>2, <1>4, <1>5, <2>1 DEF MirrorTypeOK, Snapshots
<1>7. \A j \in Jobs : job[j] = Idle /\ answer[j] = "none" /\ job[j].at = "idle" /\ job[j].kind = "none"
  BY <1>1, JobsCall DEF Idle
<1>8. TurnInv /\ CallsInv
  BY <1>3, <1>7 DEF TurnInv, CallsInv, Unquiet, Synchronous, Results, Awaiting, OfWindow, InTopic, Sent
<1>9. BannerInv /\ MessageInv /\ GoneInv
  <2>1. BannersTracked(track) /\ BannersTracked(disk)
    BY <1>1, <1>5, MirrorAssumption DEF BannersTracked
  <2> QED BY <1>7, <2>1 DEF BannerInv, MessageInv, GoneInv, Gone
<1>10. CopyInv /\ OneCopy
  BY <1>1 DEF CopyInv, OneCopy
<1> QED BY <1>6, <1>8, <1>9, <1>10 DEF MirrorInv

\* What a step leaves alone that neither asks Telegram nor hears from it.
Elsewhere == UNCHANGED <<queueVars, trackVars, inflight, posts, unsure>>

\* Topics may come, under an id never used before, or go with what is in them.
TopicsMove ==
    /\ created' \in {created, created + 1} /\ created' <= MaxThreads
    /\ topics' \subseteq [id : 1..created', bound : BOOLEAN]
    /\ Tracked' \subseteq Tracked \union {created + 1}
    /\ chat' \subseteq chat

WindowsSeen ==
    /\ win' \in Snapshots /\ pendingSnapshot' \in Snapshots \union {NoSnapshot}
    /\ processing' \in BOOLEAN

\* A job begins, goes on or ends, without a call.
GoesOn(j) ==
    /\ job' \in [Jobs -> JobRecords]
    /\ \A i \in Jobs \ {j} : job'[i] = job[i]
    /\ Quiet \/ Unquiet(j)
    /\ job[j].at \notin Awaiting /\ job'[j].at \notin Awaiting
    /\ job'[j].at \in OfWindow => MirrorJob(j)' /\ job'[j].seen \in Snapshots
    /\ job'[j].at = "message" => job'[j].kind = "window"
    /\ job'[j].at \in InTopic => job'[j].thread \in 1..created'
    /\ MirrorJob(j)' => \/ job'[j].thread \in Tracked \union {0, created + 1}
                        \/ MirrorJob(j) /\ job'[j].thread = job[j].thread
    /\ ~Confused /\ job'[j].kind = "window" => processing' /\ (job[j].kind = "window" \/ ~processing)
    /\ job[j].kind = "window" \/ processing' = processing \/ processing'

LEMMA GoesOnKeeps ==
  ASSUME MirrorInv, NEW j \in Jobs, GoesOn(j), TopicsMove, WindowsSeen, Elsewhere
  PROVE  MirrorInv'
<1>1. /\ MirrorTypeOK /\ TurnInv /\ CallsInv /\ BannerInv /\ MessageInv /\ CopyInv /\ GoneInv /\ OneCopy
      /\ QueueInv
  BY DEF MirrorInv, MirrorTypeOK
<1>2. /\ queue' = queue /\ running' = running /\ answer' = answer
      /\ track' = track /\ disk' = disk /\ inflight' = inflight /\ unsure' = unsure /\ posts' = posts
  BY DEF Elsewhere, queueVars, trackVars
<1>3. /\ \A i \in Jobs \ {j} : job'[i] = job[i]
      /\ answer[j] = "none"
  BY <1>1 DEF GoesOn, TurnInv
<1>4. QueueInv' /\ Calls' = Calls /\ Confused' = Confused
  BY <1>1, <1>2 DEF QueueInv, Calls, IsRun, Awaited, Confused
<1>5. MirrorTypeOK'
  <2>1. chat' \subseteq [id : Nat \ {0}, thread : 1..created', element : Elements]
    BY <1>1 DEF MirrorTypeOK, TopicsMove
  <2> QED BY <1>1, <1>2, <1>4, <2>1 DEF MirrorTypeOK, GoesOn, TopicsMove, WindowsSeen
<1>6. TurnInv'
  <2>1. \A i \in Jobs \ {j} : ~Unquiet(i) /\ (Unquiet(i)' <=> Unquiet(i))
    BY <1>1, <1>2, <1>3, OthersQuiet DEF GoesOn, Unquiet
  <2>2. 1..created \subseteq 1..created'
    BY <1>1 DEF TopicsMove, MirrorTypeOK
  <2>3. ASSUME NEW i \in Jobs
        PROVE  /\ (job[i].at \in Awaiting <=> answer[i] # "none")'
               /\ (job[i].at \in OfWindow => MirrorJob(i) /\ job[i].seen \in Snapshots)'
               /\ (job[i].at \in {"message", "messageSent"} => job[i].kind = "window")'
               /\ (job[i].at \in InTopic => Thread(i) \in 1..created)'
    <3>1. CASE i = j
      BY <1>2, <1>3, <3>1 DEF GoesOn, Thread, Awaiting
    <3>2. CASE i # j
      BY <1>1, <1>2, <1>3, <2>2, <3>2 DEF TurnInv, Thread, MirrorJob
    <3> QED BY <3>1, <3>2
  <2>4. ASSUME NEW i \in Jobs, ~Confused, job'[i].kind = "window"
        PROVE  processing' /\ \A k \in Jobs : job'[k].kind = "window" => i = k
    BY <1>1, <1>3, <2>4 DEF TurnInv, GoesOn
  <2> QED BY <1>4, <2>1, <2>3, <2>4 DEF TurnInv
<1>7. CallsInv'
  <2>1. \A it \in Calls : it.by # j
    BY <1>1, <1>3, CallAwaited
  <2>2. \A i \in Jobs \ {j} : Posting(i)' <=> Posting(i)
    BY <1>3 DEF Posting
  <2> QED BY <1>1, <1>2, <1>3, <1>4, <2>1, <2>2 DEF CallsInv
<1>8. BannerInv' /\ MessageInv' /\ GoneInv'
  <2>1. \A i \in Jobs : job'[i].at \in Awaiting => i # j /\ job'[i] = job[i]
    BY <1>3 DEF GoesOn
  <2>2. \A i \in Jobs : job'[i].at \in Awaiting => (Asked(i)' = Asked(i) /\ Thread(i)' = Thread(i))
    BY <2>1 DEF Asked, Thread
  <2>3. \A i \in Jobs : IsRun(i)' <=> IsRun(i)
    BY <1>2 DEF IsRun
  <2>4. BannerInv'
    BY <1>1, <1>2, <2>1, <2>2, <2>3 DEF BannerInv, Tracks, AtOdds, Awaiting, BannersTracked
  <2>5. MessageInv'
    BY <1>1, <1>2, <1>4, <2>1, <2>2 DEF MessageInv, Tracks, Awaiting
  <2>6. GoneInv'
    BY <1>1, <1>2, <2>1, <2>2 DEF GoneInv, Gone, Awaiting, TopicsMove, Key
  <2> QED BY <2>4, <2>5, <2>6
<1>9. CopyInv'
  <2> SUFFICES ASSUME NEW m \in chat', Reached(m.thread)'
               PROVE  Key(m) \in unsure \/ KnownCopy(m)'
    BY <1>2 DEF CopyInv, Key
  <2>1. m \in chat /\ m.thread \in 1..created
    BY <1>1 DEF TopicsMove, MirrorTypeOK
  <2>2. Reached(m.thread)
    <3>1. m.thread # 0 /\ m.thread # created + 1
      BY <1>1, <2>1 DEF MirrorTypeOK
    <3>2. \A i \in Jobs \ {j} : (MirrorJob(i) /\ Thread(i) = m.thread)' <=> MirrorJob(i) /\ Thread(i) = m.thread
      BY <1>3 DEF MirrorJob, Thread
    <3> QED BY <3>1, <3>2 DEF Reached, TopicsMove, GoesOn, Thread
  <2>3. Key(m) \in unsure \/ KnownCopy(m)
    BY <1>1, <2>1, <2>2 DEF CopyInv
  <2>4. \A i \in Jobs : Taking(i, m) => Taking(i, m)'
    BY <1>2, <1>3 DEF Taking, Asked, Thread, Key
  <2> QED BY <1>2, <2>3, <2>4 DEF KnownCopy, Key
<1>10. OneCopy'
  BY <1>1, <1>2 DEF OneCopy, TopicsMove
<1> QED BY <1>5, <1>6, <1>7, <1>8, <1>9, <1>10 DEF MirrorInv

\* Nobody's turn: what a call of somebody else, or a change of what the jobs do not
\* hold, may do to them.
NobodyMoves ==
    /\ job' = job /\ QueueInv'
    /\ \A i \in Jobs : answer'[i] = answer[i] \/ (Quiet /\ Drops(i))
    /\ \A i, k \in Jobs : answer'[i] # answer[i] /\ answer'[k] # answer[k] => i = k
    /\ \A it \in Calls' : it.by \in Jobs => \E old \in Calls : it.by = old.by /\ it.priority = old.priority
    /\ \A i \in Jobs : IsRun(i)' => \/ IsRun(i)
                                    \/ job[i].msg = 0 => \A d \in Jobs : job[d].at # "deleting"
    /\ disk' \in {track, disk}
    /\ UNCHANGED <<track, chat, created, posts, unsure, inflight, processing>>
    /\ topics' \subseteq [id : 1..created, bound : BOOLEAN] /\ Tracked' \subseteq Tracked

LEMMA NobodyMovesKeeps ==
  ASSUME MirrorInv, NobodyMoves, WindowsSeen
  PROVE  MirrorInv'
<1>1. /\ MirrorTypeOK /\ TurnInv /\ CallsInv /\ BannerInv /\ MessageInv /\ CopyInv /\ GoneInv /\ OneCopy
      /\ QueueInv
  BY DEF MirrorInv, MirrorTypeOK
<1>2. /\ job' = job /\ track' = track /\ inflight' = inflight /\ unsure' = unsure /\ posts' = posts
      /\ chat' = chat /\ created' = created /\ processing' = processing
  BY DEF NobodyMoves
<1>3. \A i \in Jobs : \/ answer'[i] = answer[i]
                      \/ /\ answer[i] = "waiting" /\ answer'[i] = "failed" /\ job[i].at \in Sent
                         /\ \A k \in Jobs : ~Unquiet(k) /\ (answer'[k] # answer[k] => k = i)
  <2> SUFFICES ASSUME NEW i \in Jobs, answer'[i] # answer[i]
               PROVE  /\ answer[i] = "waiting" /\ answer'[i] = "failed" /\ job[i].at \in Sent
                      /\ \A k \in Jobs : ~Unquiet(k) /\ (answer'[k] # answer[k] => k = i)
    OBVIOUS
  <2>1. Quiet /\ answer[i] = "waiting" /\ answer'[i] = "failed" /\ Sending(i)
    BY DEF NobodyMoves, Drops
  <2>2. Posting(i)
    BY <1>1, <2>1 DEF CallsInv, Sending
  <2>3. job[i].at \in Sent
    BY <1>1, <2>1, <2>2 DEF TurnInv, Posting, Awaiting, Sent
  <2>4. \A k \in Jobs : ~Unquiet(k)
    BY <2>1 DEF Quiet, Unquiet, Results
  <2> QED BY <2>1, <2>3, <2>4 DEF NobodyMoves
<1>4. MirrorTypeOK' /\ Confused' = Confused
  BY <1>1, <1>2 DEF MirrorTypeOK, NobodyMoves, WindowsSeen, Confused
<1>5. TurnInv'
  <2>1. \A i, k \in Jobs : (Unquiet(i) /\ Unquiet(k))' => i = k
    <3> SUFFICES ASSUME NEW i \in Jobs, NEW k \in Jobs, Unquiet(i)', Unquiet(k)' PROVE i = k
      OBVIOUS
    <3>1. CASE answer'[i] = answer[i] /\ answer'[k] = answer[k]
      BY <1>1, <1>2, <3>1 DEF TurnInv, Unquiet
    <3>2. CASE answer'[i] # answer[i]
      BY <1>2, <1>3, <3>2 DEF Unquiet
    <3>3. CASE answer'[k] # answer[k]
      BY <1>2, <1>3, <3>3 DEF Unquiet
    <3> QED BY <3>1, <3>2, <3>3
  <2>2. \A i \in Jobs : answer'[i] # "none" <=> answer[i] # "none"
    BY <1>3
  <2>3. \A i \in Jobs : (MirrorJob(i) <=> MirrorJob(i)') /\ Thread(i)' = Thread(i)
    BY <1>2 DEF MirrorJob, Thread
  <2> QED BY <1>1, <1>2, <1>4, <2>1, <2>2, <2>3 DEF TurnInv
<1>6. CallsInv'
  <2>1. \A i \in Jobs : Posting(i)' <=> Posting(i)
    BY <1>2 DEF Posting
  <2>2. \A it \in Calls' : it.by \in Jobs => (it.priority = "send" <=> Posting(it.by)')
    BY <1>1, <2>1 DEF NobodyMoves, CallsInv
  <2>3. \A i \in Jobs : answer'[i] = "ok" => answer[i] = "ok"
    BY <1>3
  <2> QED BY <1>1, <1>2, <2>2, <2>3 DEF CallsInv
<1>7. BannerInv'
  <2>1. \A i \in Jobs : Asked(i)' = Asked(i) /\ Thread(i)' = Thread(i) /\ \A k : (Tracks(k, job[i].msg))' = Tracks(k, job[i].msg)
    BY <1>2 DEF Asked, Thread, Tracks
  <2>2. ASSUME NEW i \in Jobs, NEW d \in Jobs, AtOdds(i, d), job[d].at = "deleting"
        PROVE  AtOdds(i, d)'
    BY <1>2, <2>2 DEF AtOdds, NobodyMoves
  <2>3. BannersTracked(track)' /\ BannersTracked(disk)'
    BY <1>1, <1>2 DEF NobodyMoves, BannerInv, BannersTracked
  <2> QED BY <1>1, <1>2, <2>1, <2>2, <2>3 DEF BannerInv, Tracks
<1>8. MessageInv'
  BY <1>1, <1>2, <1>4 DEF MessageInv, Tracks, Asked, Thread
<1>9. \A i \in Jobs : (answer'[i] = "ok" <=> answer[i] = "ok") /\ (answer'[i] = "gone" <=> answer[i] = "gone")
  BY <1>3
<1>10. CopyInv'
  <2> SUFFICES ASSUME NEW m \in chat, Reached(m.thread)'
               PROVE  Key(m) \in unsure \/ KnownCopy(m)'
    BY <1>2 DEF CopyInv, Key
  <2>1. Reached(m.thread)
    BY <1>2 DEF Reached, NobodyMoves, MirrorJob, Thread
  <2>2. \A i \in Jobs : Taking(i, m) => Taking(i, m)'
    BY <1>2, <1>9 DEF Taking, Asked, Thread, Key
  <2> QED BY <1>1, <1>2, <2>1, <2>2 DEF CopyInv, KnownCopy, Key
<1>11. GoneInv'
  <2>1. \A i \in Jobs : Gone(i)' => Gone(i)
    BY <1>2, <1>3, <1>9 DEF Gone, Sent
  <2> QED BY <1>1, <1>2, <2>1 DEF GoneInv, Key, Asked, Thread
<1>12. OneCopy'
  BY <1>1, <1>2 DEF OneCopy
<1> QED BY <1>4, <1>5, <1>6, <1>7, <1>8, <1>10, <1>11, <1>12 DEF MirrorInv

\* A job asks Telegram for something of its topic, and waits.
AsksFor(j, to, e, p) ==
    /\ job[j].at \in {"sweep", "banner", "message"} /\ to \in Awaiting
    /\ job[j].kind = "window" \/ to # "messageSent"
    /\ Enqueue(j, p)
    /\ job' = [job EXCEPT ![j].at = to, ![j].msg = Shown(j, e)]
    /\ e = IF to = "messageSent" THEN "message" ELSE "banner"
    /\ IF to = "deleting" THEN p = "edit" ELSE p = IF Shown(j, e) = 0 THEN "send" ELSE "edit"
    /\ to = "deleting" => IsTracked(Thread(j), e) /\ inflight' = inflight
    /\ to = "bannerSent" => Thread(j) \notin inflight /\ inflight' = inflight \union {Thread(j)}
    /\ to = "messageSent" => inflight' = inflight
    /\ UNCHANGED <<trackVars, topics, processing, pendingSnapshot, telegram, win, unsure>>

LEMMA AsksForKeeps ==
  ASSUME MirrorInv, NEW j \in Jobs, NEW to, NEW e, NEW p \in {"send", "edit"}, AsksFor(j, to, e, p)
  PROVE  MirrorInv'
<1> DEFINE t == Thread(j)
           k == <<t, e>>
           msg == Shown(j, e)
<1>1. /\ MirrorTypeOK /\ TurnInv /\ CallsInv /\ BannerInv /\ MessageInv /\ CopyInv /\ GoneInv /\ OneCopy
      /\ QueueInv
  BY DEF MirrorInv, MirrorTypeOK
<1>2. /\ track' = track /\ disk' = disk /\ unsure' = unsure /\ posts' = posts /\ chat' = chat
      /\ created' = created /\ processing' = processing /\ topics' = topics
      /\ win' = win /\ pendingSnapshot' = pendingSnapshot
  BY DEF AsksFor, trackVars, telegram
<1>3. /\ j \in Callers /\ job \in [Jobs -> JobRecords] /\ t \in 1..created /\ t \in Threads
      /\ job[j].kind \in {"window", "patch"} /\ Unquiet(j)
  <2>1. t \in 1..created /\ MirrorJob(j)
    BY <1>1 DEF AsksFor, TurnInv, InTopic, OfWindow
  <2>2. t \in Threads
    BY <1>1, <2>1, MirrorAssumption DEF MirrorTypeOK
  <2> QED BY <1>1, <2>1, <2>2, JobsCall DEF MirrorTypeOK, AsksFor, Unquiet, Synchronous, MirrorJob
<1>4. e \in Elements /\ k \in Threads \X Elements /\ track[k] \in [version : Int, msg : Nat] /\ msg = track[k].msg /\ msg \in Nat
  BY <1>1, <1>3, MirrorAssumption DEF AsksFor, MirrorTypeOK, TrackRecords, Shown
<1>5. /\ to \in Awaiting
      /\ \A i \in Jobs \ {j} : job'[i] = job[i]
      /\ job'[j].at = to /\ job'[j].msg = msg /\ job'[j].kind = job[j].kind
      /\ job'[j].thread = job[j].thread /\ job'[j].seen = job[j].seen
      /\ job' \in [Jobs -> JobRecords]
  <2>1. to \in JobPlaces
    BY DEF AsksFor, JobPlaces, OfWindow, InTopic
  <2> HIDE DEF msg
  <2>2. job' = [job EXCEPT ![j].at = to, ![j].msg = msg] /\ to \in Awaiting
    BY DEF AsksFor, msg
  <2>3. job'[j] = [job[j] EXCEPT !.at = to, !.msg = msg]
    BY <1>3, <2>2
  <2>4. job'[j] \in JobRecords
    <3>1. job[j] \in JobRecords /\ msg \in Nat
      BY <1>3, <1>4
    <3>2. [job[j] EXCEPT !.at = to] \in JobRecords
      BY <2>1, <3>1 DEF JobRecords
    <3>3. [[job[j] EXCEPT !.at = to] EXCEPT !.msg = msg] \in JobRecords
      BY <3>1, <3>2 DEF JobRecords
    <3> QED BY <2>3, <3>3
  <2>5. /\ job'[j].at = to /\ job'[j].msg = msg /\ job'[j].kind = job[j].kind
        /\ job'[j].thread = job[j].thread /\ job'[j].seen = job[j].seen
    BY <1>3, <2>3 DEF JobRecords
  <2>6. \A i \in Jobs \ {j} : job'[i] = job[i]
    BY <1>3, <2>2
  <2>7. job' \in [Jobs -> JobRecords]
    <3>1. job' = [i \in Jobs |-> job'[i]]
      BY <1>3, <2>2
    <3> QED BY <1>3, <2>4, <2>6, <3>1
  <2> QED BY <2>2, <2>5, <2>6, <2>7
<1>6. /\ QueueInv' /\ answer[j] = "none" /\ answer'[j] = "waiting"
      /\ \A d \in Callers \ {j} : answer'[d] = answer[d] \/ Drops(d)
      /\ \A d, f \in Callers \ {j} : answer'[d] # answer[d] /\ answer'[f] # answer[f] => d = f
      /\ \A it \in Calls' : it \in Calls \/ it = Item(j, p)
      /\ \A d \in Callers : IsRun(d)' =>
            IsRun(d) \/ (d = j /\ \A f \in Callers : answer[f] # "waiting")
  <2>1. Enqueue(j, p)
    BY DEF AsksFor
  <2> QED BY <1>1, <1>3, <2>1, EnqueueIs
<1> HIDE DEF msg, k, t
<1>7. \A i \in Jobs \ {j} : ~Unquiet(i) /\ (answer'[i] = answer[i] \/ (Drops(i) /\ job[i].at \in Sent))
  <2> SUFFICES ASSUME NEW i \in Jobs \ {j}
               PROVE  ~Unquiet(i) /\ (answer'[i] = answer[i] \/ (Drops(i) /\ job[i].at \in Sent))
    OBVIOUS
  <2>1. ~Unquiet(i)
    BY <1>1, <1>3, OthersQuiet
  <2>2. ASSUME Drops(i) PROVE job[i].at \in Sent
    <3>1. Posting(i)
      BY <1>1, <2>2 DEF CallsInv, Drops, Sending
    <3> QED BY <1>1, <2>2, <3>1 DEF TurnInv, Posting, Awaiting, Sent, Drops
  <2> QED BY <1>6, <2>1, <2>2, JobsCall
<1>8. MirrorTypeOK' /\ Confused' = Confused
  BY <1>1, <1>2, <1>5, <1>6 DEF MirrorTypeOK, Confused
<1>9. /\ \A i \in Jobs : Thread(i)' = Thread(i) /\ (MirrorJob(i) <=> MirrorJob(i)')
      /\ \A i \in Jobs \ {j} : Asked(i)' = Asked(i) /\ (Posting(i)' <=> Posting(i))
      /\ Asked(j)' = k
      /\ Posting(j)' <=> to # "deleting" /\ msg = 0
  <2>1. \A i \in Jobs : Thread(i)' = Thread(i) /\ (MirrorJob(i) <=> MirrorJob(i)')
    BY <1>5 DEF Thread, MirrorJob
  <2>2. \A i \in Jobs \ {j} : Asked(i)' = Asked(i) /\ (Posting(i)' <=> Posting(i))
    BY <1>5, <2>1 DEF Asked, Posting
  <2>3. Asked(j)' = k
    BY <1>5, <2>1 DEF Asked, AsksFor, k, t
  <2>4. Posting(j)' <=> to # "deleting" /\ msg = 0
    BY <1>5 DEF Posting
  <2> QED BY <2>1, <2>2, <2>3, <2>4
<1>10. TurnInv'
  <2>1. \A i, l \in Jobs : (Unquiet(i) /\ Unquiet(l))' => i = l
    <3>1. ~Unquiet(j)'
      BY <1>5, <1>6 DEF Unquiet, Synchronous, Awaiting, Results
    <3>2. \A i \in Jobs \ {j} : Unquiet(i)' => answer'[i] # answer[i]
      BY <1>5, <1>7 DEF Unquiet
    <3> QED BY <1>6, <3>1, <3>2, JobsCall
  <2>2. \A i \in Jobs \ {j} : answer'[i] # "none" <=> answer[i] # "none"
    BY <1>7 DEF Drops
  <2>3. ASSUME NEW i \in Jobs
        PROVE  /\ (job[i].at \in Awaiting <=> answer[i] # "none")'
               /\ (job[i].at \in OfWindow => MirrorJob(i) /\ job[i].seen \in Snapshots)'
               /\ (job[i].at \in {"message", "messageSent"} => job[i].kind = "window")'
               /\ (job[i].at \in InTopic => Thread(i) \in 1..created)'
    <3>1. CASE i = j
      <4>1. job[j].seen \in Snapshots /\ MirrorJob(j)
        BY <1>1 DEF AsksFor, TurnInv, OfWindow, InTopic
      <4>2. to = "messageSent" => job[j].kind = "window"
        BY DEF AsksFor
      <4>3. to # "message"
        BY <1>5 DEF Awaiting
      <4> QED BY <1>2, <1>3, <1>5, <1>6, <1>9, <3>1, <4>1, <4>2, <4>3 DEF t
    <3>2. CASE i # j
      BY <1>1, <1>2, <1>5, <1>9, <2>2, <3>2 DEF TurnInv
    <3> QED BY <3>1, <3>2
  <2>4. \A i \in Jobs : job'[i].kind = job[i].kind
    BY <1>5
  <2> QED BY <1>1, <1>2, <1>8, <2>1, <2>3, <2>4 DEF TurnInv
<1>11. CallsInv'
  <2>1. \A it \in Calls : it.by # j
    BY <1>1, <1>6, CallAwaited
  <2>2. Item(j, p).by = j /\ Item(j, p).priority = p
    BY DEF Item
  <2>3. p = "send" <=> to # "deleting" /\ msg = 0
    BY DEF AsksFor, msg
  <2>4. \A it \in Calls' : it.by \in Jobs => (it.priority = "send" <=> Posting(it.by)')
    BY <1>1, <1>6, <1>9, <2>1, <2>2, <2>3 DEF CallsInv
  <2>5. \A i \in Jobs : answer'[i] = "ok" => i # j /\ answer[i] = "ok"
    BY <1>6, <1>7 DEF Drops
  <2> QED BY <1>1, <1>5, <2>4, <2>5 DEF CallsInv
<1>12. BannerInv'
  <2>1. BannersTracked(track)' /\ BannersTracked(disk)'
    BY <1>1, <1>2 DEF BannerInv, BannersTracked
  <2>2. Tracks(k, msg)
    BY <1>4 DEF Tracks
  <2>3. \A i \in Jobs : (job[i].at \in {"deleting", "bannerSent"})' => Tracks(Asked(i), job[i].msg)'
    BY <1>1, <1>2, <1>5, <1>9, <2>2 DEF BannerInv, Tracks
  <2>4. to = "deleting" => msg # 0
    BY <1>1, <1>3, <1>4 DEF AsksFor, BannerInv, BannersTracked, IsTracked, k, t, msg
  <2>5. \A i \in Jobs : (job[i].at = "deleting")' => (job[i].msg # 0)'
    BY <1>1, <1>5, <2>4 DEF BannerInv
  <2>6. \A i \in Jobs : (job[i].at = "bannerSent")' => (Thread(i) \in inflight)'
    BY <1>1, <1>5, <1>9 DEF BannerInv, AsksFor, Awaiting
  <2>7. ASSUME NEW i \in Jobs, NEW d \in Jobs, (Thread(i) = Thread(d))', (job[i].at = "bannerSent")',
               (job[d].at = "bannerSent")'
        PROVE  i = d
    <3>1. CASE i # j /\ d # j
      BY <1>1, <1>5, <1>9, <2>7, <3>1 DEF BannerInv
    <3>2. CASE i # d /\ (i = j \/ d = j)
      <4>1. PICK o \in Jobs \ {j} : job[o].at = "bannerSent" /\ Thread(o) = t /\ to = "bannerSent"
        BY <1>5, <1>9, <2>7, <3>2 DEF t
      <4>2. t \in inflight
        BY <1>1, <4>1 DEF BannerInv
      <4> QED BY <4>1, <4>2 DEF AsksFor, t
    <3> QED BY <3>1, <3>2
  <2>8. ASSUME NEW i \in Jobs, NEW d \in Jobs, (Thread(i) = Thread(d))', (job[i].at = "bannerSent")',
               (job[d].at = "deleting")'
        PROVE  AtOdds(i, d)'
    <3>1. CASE i # j /\ d # j
      <4>1. AtOdds(i, d)
        BY <1>1, <1>5, <1>9, <2>8, <3>1 DEF BannerInv
      <4>2. IsRun(i)' => IsRun(i)
        BY <1>6, <3>1, JobsCall
      <4> QED BY <1>5, <3>1, <4>1, <4>2 DEF AtOdds
    <3>2. CASE i = j /\ d # j
      <4>1. job[d].at = "deleting" /\ Thread(d) = t /\ Asked(d) = k /\ e = "banner"
        BY <1>5, <1>9, <2>8, <3>2 DEF t, k, Asked, AsksFor
      <4>2. answer[d] = "waiting"
        <5>1. answer[d] # "none" /\ ~Unquiet(d) /\ d \in Callers
          BY <1>1, <1>7, <3>2, <4>1, JobsCall DEF TurnInv, Awaiting
        <5> QED BY <1>1, <5>1 DEF QueueInv, Unquiet
      <4>3. ~IsRun(j)
        BY <1>1, <1>3, <1>6 DEF QueueInv
      <4>4. ~IsRun(j)'
        BY <1>3, <1>6, <4>2, <4>3, JobsCall
      <4>5. Tracks(k, job[d].msg)
        BY <1>1, <4>1 DEF BannerInv
      <4> QED BY <1>4, <1>5, <3>2, <4>4, <4>5 DEF AtOdds, Tracks
    <3>3. CASE d = j
      <4>1. i # j /\ job[i].at = "bannerSent" /\ Thread(i) = t /\ Asked(i) = k /\ to = "deleting"
        BY <1>5, <1>9, <2>8, <3>3 DEF t, k, Asked, AsksFor
      <4>2. Tracks(k, job[i].msg) /\ msg # 0
        BY <1>1, <2>4, <4>1 DEF BannerInv
      <4> QED BY <1>4, <1>5, <3>3, <4>1, <4>2 DEF AtOdds, Tracks
    <3> QED BY <3>1, <3>2, <3>3
  <2> QED BY <2>1, <2>3, <2>5, <2>6, <2>7, <2>8 DEF BannerInv
<1>13. MessageInv'
  <2>1. Tracks(k, msg)
    BY <1>4 DEF Tracks
  <2> QED BY <1>1, <1>2, <1>5, <1>8, <1>9, <2>1 DEF MessageInv, Tracks
<1>14. CopyInv'
  <2> SUFFICES ASSUME NEW m \in chat, Reached(m.thread)'
               PROVE  Key(m) \in unsure \/ KnownCopy(m)'
    BY <1>2 DEF CopyInv, Key
  <2>1. Reached(m.thread)
    BY <1>2, <1>9 DEF Reached, Tracked
  <2>2. \A i \in Jobs : Taking(i, m) => Taking(i, m)'
    BY <1>5, <1>6, <1>7, <1>9 DEF Taking, Key, Drops
  <2> QED BY <1>1, <1>2, <2>1, <2>2 DEF CopyInv, KnownCopy, Key
<1>15. GoneInv'
  <2>1. \A i \in Jobs : Gone(i)' => i # j /\ Gone(i)
    BY <1>5, <1>6, <1>7 DEF Gone, Results, Drops, Sent
  <2> QED BY <1>1, <1>2, <1>9, <2>1 DEF GoneInv, Key
<1>16. OneCopy'
  BY <1>1, <1>2 DEF OneCopy
<1> QED BY <1>8, <1>10, <1>11, <1>12, <1>13, <1>14, <1>15, <1>16 DEF MirrorInv

\* A job takes the answer of its call, and tracks what it made of its message.
Keeps(j) == track' = track /\ job[j].at \in Sent /\ answer[j] # "ok"
Learns(j, v) == /\ track' = [track EXCEPT ![Asked(j)] = [version |-> v, msg |-> job[j].msg]]
                /\ job[j].at \in Sent /\ answer[j] = "ok"
Forgets(j, v) == /\ track' = [track EXCEPT ![Asked(j)] = [version |-> v, msg |-> 0]]
                 /\ Gone(j) /\ (job[j].at = "deleting" => v = 0)

Takes(j, to) ==
    /\ job[j].at \in Awaiting /\ to \in {"banner", "message", "next"}
    /\ to = "message" => job[j].kind = "window"
    /\ TakeAnswer(j)
    /\ job' = [job EXCEPT ![j].at = to, ![j].msg = 0]
    /\ inflight' = IF job[j].at = "bannerSent" THEN inflight \ {Thread(j)} ELSE inflight
    /\ Keeps(j) \/ (\E v \in Int : Learns(j, v)) \/ (\E v \in Int : Forgets(j, v))
    /\ UNCHANGED <<queue, running, disk, topics, processing, pendingSnapshot, telegram, win, unsure>>

LEMMA TakesKeeps ==
  ASSUME MirrorInv, NEW j \in Jobs, NEW to, Takes(j, to)
  PROVE  MirrorInv'
<1> DEFINE k == Asked(j)
<1>1. /\ MirrorTypeOK /\ TurnInv /\ CallsInv /\ BannerInv /\ MessageInv /\ CopyInv /\ GoneInv /\ OneCopy
      /\ QueueInv
  BY DEF MirrorInv, MirrorTypeOK
<1>2. /\ disk' = disk /\ unsure' = unsure /\ posts' = posts /\ chat' = chat
      /\ created' = created /\ processing' = processing /\ topics' = topics
      /\ win' = win /\ pendingSnapshot' = pendingSnapshot /\ queue' = queue /\ running' = running
  BY DEF Takes, telegram
<1>3. /\ j \in Callers /\ job \in [Jobs -> JobRecords] /\ Thread(j) \in 1..created /\ Thread(j) \in Threads
      /\ MirrorJob(j) /\ Unquiet(j) /\ job[j].seen \in Snapshots
  <2>1. Thread(j) \in 1..created /\ MirrorJob(j) /\ job[j].seen \in Snapshots
    BY <1>1 DEF Takes, TurnInv, InTopic, OfWindow
  <2>2. Thread(j) \in Threads
    BY <1>1, <2>1, MirrorAssumption DEF MirrorTypeOK
  <2> QED BY <1>1, <2>1, <2>2, JobsCall DEF MirrorTypeOK, Takes, Unquiet, TakeAnswer
<1>4. k \in Threads \X Elements /\ track \in TrackRecords
  BY <1>1, <1>3, MirrorAssumption DEF Asked, MirrorTypeOK
<1>5. /\ \A i \in Jobs \ {j} : job'[i] = job[i]
      /\ job'[j].at = to /\ job'[j].kind = job[j].kind
      /\ job'[j].thread = job[j].thread /\ job'[j].seen = job[j].seen
      /\ job' \in [Jobs -> JobRecords]
  <2>1. to \in JobPlaces
    BY DEF Takes, JobPlaces, OfWindow, InTopic
  <2>2. job' = [job EXCEPT ![j].at = to, ![j].msg = 0]
    BY DEF Takes
  <2>3. job'[j] = [job[j] EXCEPT !.at = to, !.msg = 0]
    BY <1>3, <2>2
  <2>4. job'[j] \in JobRecords
    <3>1. [job[j] EXCEPT !.at = to] \in JobRecords
      BY <1>3, <2>1 DEF JobRecords
    <3>2. [[job[j] EXCEPT !.at = to] EXCEPT !.msg = 0] \in JobRecords
      BY <3>1 DEF JobRecords
    <3> QED BY <2>3, <3>2
  <2>5. /\ job'[j].at = to /\ job'[j].kind = job[j].kind
        /\ job'[j].thread = job[j].thread /\ job'[j].seen = job[j].seen
    BY <1>3, <2>3 DEF JobRecords
  <2>6. \A i \in Jobs \ {j} : job'[i] = job[i]
    BY <1>3, <2>2
  <2>7. job' \in [Jobs -> JobRecords]
    <3>1. job' = [i \in Jobs |-> job'[i]]
      BY <1>3, <2>2
    <3> QED BY <1>3, <2>4, <2>6, <3>1
  <2> QED BY <2>5, <2>6, <2>7
<1>6. /\ QueueInv' /\ Calls' = Calls /\ answer'[j] = "none" /\ answer[j] \in Results
      /\ \A i \in Jobs \ {j} : answer'[i] = answer[i] /\ ~Unquiet(i)
      /\ \A i \in Jobs : IsRun(i)' <=> IsRun(i)
      /\ Confused' = Confused
  <2>1. /\ QueueInv' /\ Calls' = Calls /\ answer' = [answer EXCEPT ![j] = "none"] /\ answer[j] \in Results
        /\ \A d \in Callers : IsRun(d)' <=> IsRun(d)
    BY <1>1, <1>2, <1>3, TakeIs DEF Takes
  <2>2. answer \in [Callers -> {"none", "waiting"} \union Results]
    BY <1>1 DEF QueueInv
  <2>3. \A i \in Jobs \ {j} : ~Unquiet(i)
    BY <1>1, <1>3, OthersQuiet
  <2> QED BY <1>2, <1>3, <2>1, <2>2, <2>3, JobsCall DEF Confused
<1>7. /\ track' \in TrackRecords
      /\ \A l \in Threads \X Elements : l # k => track'[l] = track[l]
      /\ \/ track' = track /\ (job[j].at \in Sent => answer[j] # "ok")
         \/ job[j].at \in Sent /\ answer[j] = "ok" /\ track'[k].msg = job[j].msg
         \/ Gone(j) /\ track'[k].msg = 0 /\ (job[j].at = "deleting" => track'[k] = Untracked)
  <2>1. CASE Keeps(j)
    BY <1>4, <2>1 DEF Keeps
  <2>2. ASSUME NEW v \in Int, Learns(j, v) PROVE <1>7!1 /\ <1>7!2 /\ job[j].at \in Sent /\ answer[j] = "ok" /\ track'[k].msg = job[j].msg
    <3>1. [version |-> v, msg |-> job[j].msg] \in [version : Int, msg : Nat]
      BY <1>3 DEF JobRecords
    <3> HIDE DEF k
    <3>2. track' = [track EXCEPT ![k] = [version |-> v, msg |-> job[j].msg]]
      BY <2>2 DEF Learns, k
    <3>3. track' \in TrackRecords /\ track'[k] = [version |-> v, msg |-> job[j].msg]
      BY <1>4, <3>1, <3>2 DEF TrackRecords
    <3> QED BY <1>4, <2>2, <3>2, <3>3 DEF TrackRecords, Learns
  <2>3. ASSUME NEW v \in Int, Forgets(j, v)
        PROVE  <1>7!1 /\ <1>7!2 /\ Gone(j) /\ track'[k].msg = 0 /\ (job[j].at = "deleting" => track'[k] = Untracked)
    <3>1. [version |-> v, msg |-> 0] \in [version : Int, msg : Nat]
      OBVIOUS
    <3> HIDE DEF k
    <3>2. track' = [track EXCEPT ![k] = [version |-> v, msg |-> 0]]
      BY <2>3 DEF Forgets, k
    <3>3. track' \in TrackRecords /\ track'[k] = [version |-> v, msg |-> 0]
      BY <1>4, <3>1, <3>2 DEF TrackRecords
    <3> QED BY <1>4, <2>3, <3>2, <3>3 DEF TrackRecords, Forgets, Untracked
  <2> QED BY <2>1, <2>2, <2>3 DEF Takes
<1> HIDE DEF k
<1>8. MirrorTypeOK'
  BY <1>1, <1>2, <1>5, <1>6, <1>7 DEF MirrorTypeOK
<1>9. /\ \A i \in Jobs : Thread(i)' = Thread(i) /\ (MirrorJob(i) <=> MirrorJob(i)')
      /\ \A i \in Jobs \ {j} : Asked(i)' = Asked(i) /\ (Posting(i)' <=> Posting(i))
      /\ job'[j].at \notin Awaiting
  <2>1. \A i \in Jobs : Thread(i)' = Thread(i) /\ (MirrorJob(i) <=> MirrorJob(i)')
    BY <1>5 DEF Thread, MirrorJob
  <2>2. \A i \in Jobs \ {j} : Asked(i)' = Asked(i) /\ (Posting(i)' <=> Posting(i))
    BY <1>5, <2>1 DEF Asked, Posting
  <2>3. job'[j].at \notin Awaiting
    BY <1>5 DEF Takes, Awaiting
  <2> QED BY <2>1, <2>2, <2>3
<1>10. TurnInv'
  <2>1. \A i \in Jobs \ {j} : ~Unquiet(i)'
    BY <1>5, <1>6 DEF Unquiet
  <2>2. ASSUME NEW i \in Jobs
        PROVE  /\ (job[i].at \in Awaiting <=> answer[i] # "none")'
               /\ (job[i].at \in OfWindow => MirrorJob(i) /\ job[i].seen \in Snapshots)'
               /\ (job[i].at \in {"message", "messageSent"} => job[i].kind = "window")'
               /\ (job[i].at \in InTopic => Thread(i) \in 1..created)'
    <3>1. CASE i = j
      <4>1. to # "messageSent"
        BY DEF Takes
      <4> QED BY <1>2, <1>3, <1>5, <1>6, <1>9, <3>1, <4>1 DEF Takes
    <3>2. CASE i # j
      BY <1>1, <1>2, <1>5, <1>6, <1>9, <3>2 DEF TurnInv
    <3> QED BY <3>1, <3>2
  <2>3. \A i \in Jobs : job'[i].kind = job[i].kind
    BY <1>5
  <2> QED BY <1>1, <1>2, <1>6, <2>1, <2>2, <2>3 DEF TurnInv
<1>11. CallsInv'
  <2>1. \A it \in Calls : it.by # j
    BY <1>1, <1>6, CallAwaited DEF Results
  <2>2. \A i \in Jobs : answer'[i] = "ok" => i # j
    BY <1>6
  <2> QED BY <1>1, <1>5, <1>6, <1>9, <2>1, <2>2 DEF CallsInv
<1>12. \A i \in Jobs \ {j} : job[i].at \in {"deleting", "bannerSent"} => (Tracks(Asked(i), job[i].msg))'
  <2> SUFFICES ASSUME NEW i \in Jobs \ {j}, job[i].at \in {"deleting", "bannerSent"}
               PROVE  (Tracks(Asked(i), job[i].msg))'
    OBVIOUS
  <2>1. Tracks(Asked(i), job[i].msg) /\ Asked(i) = <<Thread(i), "banner">> /\ Asked(i) \in Threads \X Elements
    <3>1. Thread(i) \in Threads
      BY <1>1, MirrorAssumption DEF TurnInv, InTopic, Awaiting, MirrorTypeOK
    <3> QED BY <1>1, <3>1, MirrorAssumption DEF BannerInv, Asked
  <2>2. CASE track'[Asked(i)] = track[Asked(i)]
    BY <1>5, <1>9, <2>1, <2>2 DEF Tracks
  <2>3. CASE Asked(i) = k /\ track'[k].msg = 0
    BY <1>5, <1>9, <2>3 DEF Tracks
  <2>4. CASE Asked(i) = k /\ job[j].at \in Sent /\ answer[j] = "ok" /\ track'[k].msg = job[j].msg
    <3>1. job[j].at = "bannerSent" /\ Thread(i) = Thread(j)
      BY <2>1, <2>4 DEF k, Asked, Sent
    <3>2. job[i].at = "deleting" /\ AtOdds(j, i)
      BY <1>1, <2>4, <3>1 DEF BannerInv
    <3>3. job[j].msg = job[i].msg
      BY <1>1, <2>4, <3>2 DEF CallsInv, AtOdds
    <3> QED BY <1>5, <1>9, <2>4, <3>3 DEF Tracks
  <2> QED BY <1>7, <2>1, <2>2, <2>3, <2>4
<1>13. BannerInv'
  <2>1. BannersTracked(track)' /\ BannersTracked(disk)'
    <3>1. BannersTracked(disk)' /\ BannersTracked(track)
      BY <1>1, <1>2 DEF BannerInv, BannersTracked
    <3>2. ASSUME NEW t \in Threads, track'[<<t, "banner">>].msg = 0, k = <<t, "banner">>
          PROVE  track'[<<t, "banner">>] = Untracked
      <4>1. job[j].at # "messageSent"
        BY <3>2 DEF k, Asked
      <4>2. CASE track' = track
        BY <3>1, <3>2, <4>2 DEF BannersTracked
      <4>3. CASE job[j].at \in Sent /\ answer[j] = "ok" /\ track'[k].msg = job[j].msg
        BY <1>1, <3>2, <4>3 DEF CallsInv
      <4>4. CASE Gone(j) /\ (job[j].at = "deleting" => track'[k] = Untracked)
        BY <3>2, <4>1, <4>4 DEF Gone
      <4> QED BY <1>7, <4>2, <4>3, <4>4
    <3>3. \A t \in Threads : <<t, "banner">> \in Threads \X Elements
      BY MirrorAssumption
    <3> QED BY <1>7, <3>1, <3>2, <3>3 DEF BannersTracked
  <2>2. \A i \in Jobs : (job[i].at \in {"deleting", "bannerSent"})' => i # j /\ job'[i] = job[i]
    BY <1>5, <1>9 DEF Awaiting
  <2>3. ASSUME NEW i \in Jobs, (job[i].at = "bannerSent")' PROVE (Thread(i) \in inflight)'
    <3>1. i # j /\ job[i].at = "bannerSent" /\ Thread(i) \in inflight
      BY <1>1, <2>2, <2>3 DEF BannerInv
    <3>2. job[j].at = "bannerSent" => Thread(i) # Thread(j)
      BY <1>1, <3>1 DEF BannerInv
    <3>3. Thread(i) \in inflight'
      BY <3>1, <3>2 DEF Takes
    <3> QED BY <1>9, <3>3
  <2>4. ASSUME NEW i \in Jobs, NEW d \in Jobs, i # j, d # j, AtOdds(i, d) PROVE AtOdds(i, d)'
    BY <1>5, <1>6, <2>4 DEF AtOdds
  <2> QED BY <1>1, <1>9, <1>12, <2>1, <2>2, <2>3, <2>4 DEF BannerInv
<1>14. MessageInv'
  <2> SUFFICES ASSUME NEW i \in Jobs, ~Confused, (job[i].at = "messageSent")'
               PROVE  Tracks(Asked(i), job[i].msg)'
    BY <1>6 DEF MessageInv
  <2>1. i # j /\ job[i].at = "messageSent" /\ job[i].kind = "window"
    BY <1>1, <1>5, <1>9 DEF Awaiting, TurnInv
  <2>2. Tracks(Asked(i), job[i].msg) /\ Asked(i) = <<Thread(i), "message">> /\ Asked(i) \in Threads \X Elements
    <3>1. Thread(i) \in Threads
      BY <1>1, <2>1, MirrorAssumption DEF TurnInv, InTopic, Awaiting, MirrorTypeOK
    <3> QED BY <1>1, <2>1, <3>1, MirrorAssumption DEF MessageInv, Asked
  <2>3. job[j].at # "messageSent"
    BY <1>1, <2>1 DEF TurnInv
  <2>4. Asked(i) # k
    BY <2>2, <2>3 DEF k, Asked
  <2> QED BY <1>5, <1>7, <1>9, <2>1, <2>2, <2>4 DEF Tracks
<1>15. CopyInv'
  <2> SUFFICES ASSUME NEW m \in chat, Reached(m.thread)', Key(m) \notin unsure
               PROVE  KnownCopy(m)'
    BY <1>2 DEF CopyInv, Key
  <2>1. Reached(m.thread)
    BY <1>2, <1>9 DEF Reached, Tracked
  <2>2. KnownCopy(m)
    BY <1>1, <2>1 DEF CopyInv
  <2>3. Key(m) \in Threads \X Elements /\ m.id \in Nat \ {0} /\ Key(m)' = Key(m)
    BY <1>1, MirrorAssumption DEF MirrorTypeOK, Key
  <2>4. ~Confused
    BY <2>3 DEF Confused
  <2>5. \A i \in Jobs \ {j} : Taking(i, m) => Taking(i, m)'
    BY <1>5, <1>6, <1>9, <2>3 DEF Taking
  <2>6. CASE Key(m) # k
    <3>1. ~Taking(j, m)
      BY <2>6 DEF Taking, k
    <3> QED BY <1>7, <2>2, <2>3, <2>5, <2>6, <3>1 DEF KnownCopy
  <2>7. CASE Key(m) = k
    <3>1. ~Gone(j)
      BY <1>1, <2>7 DEF GoneInv, k
    <3>2. CASE track' = track /\ (job[j].at \in Sent => answer[j] # "ok")
      BY <2>2, <2>3, <2>5, <3>2 DEF KnownCopy, Taking
    <3>3. CASE job[j].at \in Sent /\ answer[j] = "ok" /\ track'[k].msg = job[j].msg
      <4>1. Tracks(k, job[j].msg)
        BY <1>1, <2>4, <3>3 DEF BannerInv, MessageInv, Sent, k
      <4>2. track[k].msg = m.id => job[j].msg = m.id
        BY <2>3, <4>1 DEF Tracks
      <4>3. Taking(j, m) => job[j].msg = m.id
        BY DEF Taking
      <4> QED BY <2>2, <2>3, <2>5, <2>7, <3>3, <4>2, <4>3 DEF KnownCopy
    <3> QED BY <1>7, <3>1, <3>2, <3>3
  <2> QED BY <2>6, <2>7
<1>16. GoneInv'
  <2>1. \A i \in Jobs : Gone(i)' => i # j /\ Gone(i)
    BY <1>5, <1>6, <1>9 DEF Gone, Results, Awaiting
  <2> QED BY <1>1, <1>2, <1>9, <2>1 DEF GoneInv, Key
<1>17. OneCopy'
  BY <1>1, <1>2 DEF OneCopy
<1> QED BY <1>8, <1>10, <1>11, <1>13, <1>14, <1>15, <1>16, <1>17 DEF MirrorInv

\* Telegram answers the call of a job: a post was made, heard of or not, or anything else.
Posts(j, result) ==
    /\ Posting(j) /\ posts' = posts + 1
    /\ chat' = chat \union {[id |-> posts + 1, thread |-> Thread(j), element |-> Asked(j)[2]]}
    /\ \/ result = "ok" /\ job' = [job EXCEPT ![j].msg = posts + 1] /\ unsure' = unsure
       \/ result = "failed" /\ job' = job /\ unsure' = unsure \union {Asked(j)}

AnswersOnly(j, result) ==
    /\ posts' = posts /\ job' = job
    /\ unsure' \in {unsure, unsure \union {Asked(j)}}
    /\ chat' \subseteq chat
    /\ job[j].at = "deleting" \/ result = "gone" =>
          Asked(j) \in unsure' \/ \A m \in chat' : m.id # job[j].msg
    /\ result = "ok" => ~Posting(j)

Answers(j, result) ==
    /\ Quiet /\ running # NoItem /\ running.by = j
    /\ QueueInv' /\ Ended(result) /\ result \in Results
    /\ Posts(j, result) \/ AnswersOnly(j, result)
    /\ UNCHANGED <<trackVars, inflight, topics, processing, pendingSnapshot, created, win>>

LEMMA AnswersKeeps ==
  ASSUME MirrorInv, NEW j \in Jobs, NEW result, Answers(j, result)
  PROVE  MirrorInv'
<1> DEFINE k == Asked(j)
           new == [id |-> posts + 1, thread |-> Thread(j), element |-> k[2]]
<1>1. /\ MirrorTypeOK /\ TurnInv /\ CallsInv /\ BannerInv /\ MessageInv /\ CopyInv /\ GoneInv /\ OneCopy
      /\ QueueInv
  BY DEF MirrorInv, MirrorTypeOK
<1>2. /\ track' = track /\ disk' = disk /\ inflight' = inflight
      /\ created' = created /\ processing' = processing /\ topics' = topics
      /\ win' = win /\ pendingSnapshot' = pendingSnapshot
  BY DEF Answers, trackVars
<1>3. /\ j \in Callers /\ job \in [Jobs -> JobRecords] /\ job[j].at \in Awaiting
      /\ Thread(j) \in 1..created /\ Thread(j) \in Threads /\ MirrorJob(j)
  <2>1. running \in Calls
    BY DEF Answers, Calls
  <2>2. answer[j] = "waiting"
    BY <1>1, <2>1, CallAwaited DEF Answers
  <2>3. job[j].at \in Awaiting
    BY <1>1, <2>2 DEF TurnInv
  <2>4. Thread(j) \in 1..created /\ MirrorJob(j)
    BY <1>1, <2>3 DEF TurnInv, InTopic, OfWindow
  <2>5. Thread(j) \in Threads
    BY <1>1, <2>4, MirrorAssumption DEF MirrorTypeOK
  <2> QED BY <1>1, <2>3, <2>4, <2>5, JobsCall DEF MirrorTypeOK
<1>4. /\ k \in Threads \X Elements /\ k = <<Thread(j), k[2]>> /\ k[2] \in Elements
  BY <1>3, MirrorAssumption DEF Asked
<1>5. /\ QueueInv' /\ answer'[j] = result /\ result \in Results
      /\ \A i \in Jobs \ {j} : answer'[i] = answer[i]
      /\ \A i \in Jobs : ~Unquiet(i) /\ ~IsRun(i)'
      /\ IsRun(j)
      /\ \A it \in Calls' : it \in Calls /\ it.by # j
  <2>1. answer' = [answer EXCEPT ![j] = result] /\ answer \in [Callers -> {"none", "waiting"} \union Results]
    BY <1>1 DEF Answers, Ended, QueueInv
  <2>2. \A i \in Jobs : ~Unquiet(i)
    BY DEF Answers, Quiet, Unquiet, Results
  <2> QED BY <1>3, <2>1, <2>2, JobsCall DEF Answers, Ended, IsRun
<1>6. /\ \A i \in Jobs \ {j} : job'[i] = job[i]
      /\ job'[j].at = job[j].at /\ job'[j].kind = job[j].kind
      /\ job'[j].thread = job[j].thread /\ job'[j].seen = job[j].seen
      /\ job' \in [Jobs -> JobRecords]
      /\ \/ job' = job /\ (result = "ok" => ~Posting(j))
         \/ Posts(j, result) /\ result = "ok" /\ job'[j].msg = posts + 1 /\ job[j].msg = 0 /\ job[j].at \in Sent
  <2>1. CASE job' = job /\ (result = "ok" => ~Posting(j))
    BY <1>3, <2>1
  <2>2. CASE Posts(j, result) /\ result = "ok" /\ job' = [job EXCEPT ![j].msg = posts + 1]
    <3>1. posts + 1 \in Nat
      BY <1>1 DEF MirrorTypeOK
    <3>2. job'[j] = [job[j] EXCEPT !.msg = posts + 1] /\ \A i \in Jobs \ {j} : job'[i] = job[i]
      BY <1>3, <2>2
    <3>3. [job[j] EXCEPT !.msg = posts + 1] \in JobRecords
      BY <1>3, <3>1 DEF JobRecords
    <3>4. /\ job'[j].at = job[j].at /\ job'[j].kind = job[j].kind /\ job'[j].msg = posts + 1
          /\ job'[j].thread = job[j].thread /\ job'[j].seen = job[j].seen
      BY <1>3, <3>2 DEF JobRecords
    <3>5. job' \in [Jobs -> JobRecords]
      <4>1. job' = [i \in Jobs |-> job'[i]]
        BY <1>3, <2>2
      <4> QED BY <1>3, <3>2, <3>3, <4>1
    <3>6. job[j].msg = 0 /\ job[j].at \in Sent
      BY <1>3, <2>2 DEF Posts, Posting, Awaiting, Sent
    <3> QED BY <2>2, <3>2, <3>4, <3>5, <3>6
  <2> QED BY <2>1, <2>2 DEF Answers, Posts, AnswersOnly
<1> HIDE DEF k, new
<1>7. /\ \A i \in Jobs : Thread(i)' = Thread(i) /\ (MirrorJob(i) <=> MirrorJob(i)') /\ Asked(i)' = Asked(i)
      /\ \A i \in Jobs \ {j} : Posting(i)' <=> Posting(i)
  <2>1. \A i \in Jobs : Thread(i)' = Thread(i) /\ (MirrorJob(i) <=> MirrorJob(i)')
    BY <1>6 DEF Thread, MirrorJob
  <2>2. \A i \in Jobs : Asked(i)' = Asked(i)
    BY <1>6, <2>1 DEF Asked
  <2> QED BY <1>6, <2>1, <2>2 DEF Posting
<1>8. unsure \subseteq unsure' /\ (Confused => Confused')
  BY DEF Answers, Posts, AnswersOnly, Confused
\* While nobody has an answer to take, what is known of a copy is what is tracked.
<1>9. \A m \in chat : Reached(m.thread) => Key(m) \in unsure \/ track[Key(m)].msg = m.id
  <2>1. \A i \in Jobs, m \in chat : ~Taking(i, m)
    BY <1>5 DEF Taking, Unquiet, Results
  <2> QED BY <1>1, <2>1 DEF CopyInv, KnownCopy
<1>10. \A m \in chat : Key(m) = k => k \in unsure \/ (track[k].msg = m.id /\ m.id = job[j].msg)
  <2> SUFFICES ASSUME NEW m \in chat, Key(m) = k, k \notin unsure
               PROVE  track[k].msg = m.id /\ m.id = job[j].msg
    OBVIOUS
  <2>1. m.thread = Thread(j) /\ m.id \in Nat \ {0}
    BY <1>1, <1>4 DEF Key, MirrorTypeOK
  <2>2. track[k].msg = m.id
    BY <1>3, <1>9, <2>1 DEF Reached
  <2>3. ~Confused
    BY <1>4 DEF Confused
  <2>4. Tracks(k, job[j].msg)
    BY <1>1, <1>3, <2>3 DEF BannerInv, MessageInv, Awaiting, k
  <2> QED BY <2>1, <2>2, <2>4 DEF Tracks
<1>11. MirrorTypeOK' /\ \A m \in chat' : m \in chat \/ (Posts(j, result) /\ m = new)
  <2>1. CASE Posts(j, result)
    <3>1. chat' = chat \union {new} /\ posts' = posts + 1
      BY <2>1 DEF Posts, new, k
    <3>2. new \in [id : Nat \ {0}, thread : 1..created, element : Elements] /\ posts' \in Nat
      BY <1>1, <1>3, <1>4, <3>1 DEF new, MirrorTypeOK
    <3> QED BY <1>1, <1>2, <1>5, <1>6, <2>1, <3>1, <3>2 DEF MirrorTypeOK
  <2>2. CASE AnswersOnly(j, result)
    BY <1>1, <1>2, <1>5, <1>6, <2>2 DEF MirrorTypeOK, AnswersOnly
  <2> QED BY <2>1, <2>2 DEF Answers
<1>12. TurnInv'
  <2>1. \A i \in Jobs \ {j} : ~Unquiet(i)'
    BY <1>5, <1>6 DEF Unquiet
  <2>2. \A i \in Jobs : answer'[i] # "none" <=> answer[i] # "none"
    <3>1. answer[j] # "none" /\ result # "none"
      BY <1>1, <1>3, <1>5 DEF TurnInv, Results
    <3> QED BY <1>5, <3>1
  <2>3. ASSUME NEW i \in Jobs
        PROVE  /\ (job[i].at \in Awaiting <=> answer[i] # "none")'
               /\ (job[i].at \in OfWindow => MirrorJob(i) /\ job[i].seen \in Snapshots)'
               /\ (job[i].at \in {"message", "messageSent"} => job[i].kind = "window")'
               /\ (job[i].at \in InTopic => Thread(i) \in 1..created)'
    <3>1. job'[i].at = job[i].at /\ job'[i].kind = job[i].kind /\ job'[i].seen = job[i].seen
      BY <1>6
    <3> QED BY <1>1, <1>2, <1>7, <2>2, <3>1 DEF TurnInv
  <2>4. \A i \in Jobs : job'[i].kind = job[i].kind
    BY <1>6
  <2> QED BY <1>1, <1>2, <1>8, <2>1, <2>3, <2>4 DEF TurnInv
<1>13. CallsInv'
  <2>1. result = "ok" /\ job[j].at \in Sent => job'[j].msg # 0
    <3>1. posts + 1 # 0
      BY <1>1 DEF MirrorTypeOK
    <3> QED BY <1>6, <3>1 DEF Posting, Sent
  <2> QED BY <1>1, <1>5, <1>6, <1>7, <2>1 DEF CallsInv
<1>14. \A i \in Jobs : Tracks(Asked(i), job[i].msg) => Tracks(Asked(i), job[i].msg)'
  <2>1. job[j].msg = 0 /\ Tracks(Asked(j), job[j].msg) => track[Asked(j)].msg = 0
    BY DEF Tracks
  <2> QED BY <1>2, <1>6, <1>7, <2>1 DEF Tracks
<1>15. BannerInv'
  <2>1. BannersTracked(track)' /\ BannersTracked(disk)'
    BY <1>1, <1>2 DEF BannerInv, BannersTracked
  <2>2. \A i \in Jobs : job'[i].at = job[i].at /\ (job'[i].msg = job[i].msg \/ job[i].at \in Sent)
    BY <1>6
  <2>3. ASSUME NEW i \in Jobs, NEW d \in Jobs, Thread(i) = Thread(d), job[i].at = "bannerSent", job[d].at = "deleting"
        PROVE  AtOdds(i, d)'
    <3>1. AtOdds(i, d) /\ job[d].msg # 0
      BY <1>1, <2>3 DEF BannerInv
    <3>2. CASE job' = job
      BY <1>5, <3>1, <3>2 DEF AtOdds
    <3>3. CASE job' # job
      <4>1. job[j].msg = 0 /\ job[j].at \in Sent
        BY <1>6, <3>3
      <4>2. i # j /\ d # j
        BY <1>5, <2>3, <3>1, <4>1 DEF AtOdds, Sent
      <4> QED BY <1>5, <1>6, <3>1, <4>2 DEF AtOdds
    <3> QED BY <3>2, <3>3
  <2> QED BY <1>1, <1>2, <1>7, <1>14, <2>1, <2>2, <2>3 DEF BannerInv, Sent
<1>16. MessageInv'
  BY <1>1, <1>6, <1>8, <1>14 DEF MessageInv
<1>17. CopyInv'
  <2> SUFFICES ASSUME NEW m \in chat', Reached(m.thread)', Key(m) \notin unsure'
               PROVE  KnownCopy(m)'
    BY DEF CopyInv, Key
  <2>1. CASE m \in chat
    <3>1. Reached(m.thread)
      BY <1>2, <1>7 DEF Reached, Tracked
    <3>2. track[Key(m)].msg = m.id
      BY <1>8, <1>9, <2>1, <3>1
    <3> QED BY <1>2, <3>2 DEF KnownCopy, Key
  <2>2. CASE Posts(j, result) /\ m = new
    <3>1. Key(m) = k /\ m.id = posts + 1 /\ Key(m)' = k
      BY <1>4, <2>2 DEF Key, new
    <3>2. result = "ok"
      BY <2>2, <3>1 DEF Posts, k
    <3>3. job'[j].msg = posts + 1 /\ job'[j].at \in Sent
      <4>1. Posting(j)
        BY <2>2 DEF Posts
      <4>2. job[j].at \in Sent
        BY <1>3, <2>2 DEF Posts, Posting, Awaiting, Sent
      <4> QED BY <1>6, <3>2, <4>1, <4>2
    <3>4. Taking(j, m)'
      BY <1>5, <1>7, <3>1, <3>2, <3>3 DEF Taking, k
    <3> QED BY <3>4 DEF KnownCopy
  <2> QED BY <1>11, <2>1, <2>2
<1>18. GoneInv'
  <2> SUFFICES ASSUME NEW i \in Jobs, Gone(i)', NEW m \in chat', Key(m) = Asked(i)
               PROVE  Asked(i) \in unsure'
    BY <1>7 DEF GoneInv, Key
  <2>1. CASE i # j
    <3>1. ~Gone(i)'
      BY <1>5, <1>6, <2>1 DEF Gone, Unquiet, Results
    <3> QED BY <3>1
  <2>2. CASE i = j
    <3>1. job[j].at = "deleting" \/ (job[j].at = "messageSent" /\ result = "gone")
      BY <1>5, <1>6, <2>2 DEF Gone
    <3>2. ~Posts(j, result)
      BY <3>1 DEF Posts, Posting
    <3>3. AnswersOnly(j, result) /\ m \in chat
      BY <3>2 DEF Answers, AnswersOnly
    <3>4. CASE \A n \in chat' : n.id # job[j].msg
      <4>1. m.id # job[j].msg
        BY <3>4
      <4> QED BY <1>8, <1>10, <2>2, <3>3, <4>1 DEF k
    <3> QED BY <2>2, <3>1, <3>3, <3>4 DEF AnswersOnly
  <2> QED BY <2>1, <2>2
<1>19. OneCopy'
  <2>1. ASSUME Posts(j, result), NEW m \in chat, Key(m) = k PROVE k \in unsure
    BY <1>1, <1>10, <2>1 DEF Posts, Posting, MirrorTypeOK
  <2>2. Posts(j, result) => new.thread = k[1] /\ new.element = k[2]
    BY <1>4 DEF new
  <2> SUFFICES ASSUME NEW m \in chat', NEW n \in chat', m.thread = n.thread, m.element = n.element, m # n
               PROVE  <<m.thread, m.element>> \in unsure'
    BY DEF OneCopy
  <2>3. CASE m \in chat /\ n \in chat
    BY <1>1, <1>8, <2>3 DEF OneCopy
  <2>4. CASE Posts(j, result) /\ (m = new \/ n = new)
    <3>1. Key(m) = k /\ Key(n) = k
      BY <1>4, <2>2, <2>4 DEF Key
    <3>2. m \in chat \/ n \in chat
      BY <1>11
    <3> QED BY <1>8, <2>1, <2>4, <3>1, <3>2 DEF Key
  <2> QED BY <1>11, <2>3, <2>4
<1> QED BY <1>11, <1>12, <1>13, <1>15, <1>16, <1>17, <1>18, <1>19 DEF MirrorInv

\* What the tracker knows is on disk, or a save is due, or the last one failed.
SaveInv == track = disk \/ dirty \/ unsaved

LEMMA TrackSaves ==
  ASSUME NEW t, NEW e, NEW msg, NEW version, Track(t, e, msg, version) \/ Untrack(t, e)
  PROVE  SaveInv'
  BY DEF Track, Untrack, SaveInv

LEMMA SaveInvInductive == SaveInv /\ [MirrorNext]_mirrorVars => SaveInv'
<1> SUFFICES ASSUME SaveInv, [MirrorNext]_mirrorVars PROVE SaveInv'
  OBVIOUS
<1>1. CASE UNCHANGED trackVars
  BY <1>1 DEF SaveInv, trackVars
<1>2. CASE TrackerSaves
  BY <1>2 DEF TrackerSaves, SaveTimer, Saved, Written, SaveInv
<1>3. CASE Restart
  BY <1>3 DEF Restart, Stops, Dies, Reload, SaveInv
<1>4. ASSUME NEW j \in Jobs, JobStep(j) PROVE SaveInv'
  <2>1. CASE Reset(j)
    BY <2>1 DEF Reset, ClearAll, Saved, Written, SaveInv
  <2>2. CASE BannerDeleted(j)
    BY <2>2, TrackSaves DEF BannerDeleted
  <2>3. CASE BannerSent(j)
    BY <1>1, <2>3, TrackSaves DEF BannerSent
  <2>4. CASE MessageSent(j)
    BY <1>1, <2>4, TrackSaves DEF MessageSent
  <2> QED BY <1>1, <1>4, <2>1, <2>2, <2>3, <2>4
          DEF JobStep, Route, RouteApprovals, RouteFrame, CreateTopic, SyncTopic, Sweep, Banner, Message,
              ProcessNext, DeleteTopic
<1>5. ASSUME NEW j \in Jobs, Answered(j) PROVE SaveInv'
  BY <1>1, <1>5 DEF Answered, Post, Done, NotFound, Refused, Limited
<1>6. ASSUME NEW j \in Jobs, StatePatch(j) \/ Sync(j) \/ SyncAll(j) \/ Unsync(j) \/ Purge(j) \/ Dedupe(j) \/ Cleanup(j)
      PROVE  SaveInv'
  BY <1>1, <1>6 DEF StatePatch, Sync, SyncAll, Unsync, Purge, Dedupe, Cleanup, CommandFrame
<1>7. CASE CursorChanges \/ WindowUpdate \/ OtherCalls \/ Resync \/ QueueGoesOn \/ OtherAnswered
  BY <1>1, <1>7 DEF CursorChanges, WindowUpdate, OtherCalls, Resync, QueueGoesOn, OtherAnswered
<1> QED BY <1>1, <1>2, <1>3, <1>4, <1>5, <1>6, <1>7 DEF MirrorNext, Progress, mirrorVars

\* A restart ends every job and every call; of the chat only what was saved is known.
LEMMA RestartKeeps ==
  ASSUME MirrorInv, SaveInv, Restart
  PROVE  MirrorInv'
<1>1. MirrorTypeOK /\ BannerInv /\ OneCopy
  BY DEF MirrorInv
<1>2. /\ queue' = <<>> /\ running' = NoItem /\ answer' = [c \in Callers |-> "none"]
      /\ track' = disk' /\ disk' \in {track, disk} /\ unsure' = unsure \union Unremembered
      /\ dirty \/ disk' = disk
      /\ job' = [j \in Jobs |-> Idle] /\ processing' = FALSE /\ pendingSnapshot' = NoSnapshot
      /\ topics' = topics /\ win' = win /\ created' = created /\ chat' = chat /\ posts' = posts
  BY DEF Restart, Stops, Dies, Reload, Written, telegram
<1>3. QueueInv' /\ Calls' = {}
  <2>1. queue' \in Seq(Items) /\ DOMAIN queue' = {}
    BY <1>2
  <2> QED BY <1>2, <2>1 DEF QueueInv, Calls, EditsFirst, OneEach, Awaited, IsRun, Results
<1>4. MirrorTypeOK'
  <2>1. Idle \in JobRecords
    BY DEF Idle, JobRecords, JobKinds, JobPlaces
  <2> QED BY <1>1, <1>2, <1>3, <2>1 DEF MirrorTypeOK
<1>5. \A j \in Jobs : job'[j] = Idle /\ answer'[j] = "none" /\ job'[j].at = "idle" /\ job'[j].kind = "none"
  BY <1>2, JobsCall DEF Idle
<1>6. TurnInv' /\ CallsInv'
  BY <1>3, <1>5 DEF TurnInv, CallsInv, Unquiet, Synchronous, Results, Awaiting, OfWindow, InTopic, Sent
<1>7. BannerInv' /\ MessageInv' /\ GoneInv'
  <2>1. BannersTracked(track)' /\ BannersTracked(disk)'
    BY <1>1, <1>2 DEF BannerInv, BannersTracked
  <2> QED BY <1>5, <2>1 DEF BannerInv, MessageInv, GoneInv, Gone
<1>8. CopyInv'
  <2> SUFFICES ASSUME NEW m \in chat, m.id # disk'[Key(m)].msg
               PROVE  Key(m) \in unsure'
    BY <1>2 DEF CopyInv, KnownCopy, Key
  <2>1. m.id # track[Key(m)].msg \/ dirty \/ unsaved
    BY <1>2 DEF SaveInv
  <2>2. NotOnDisk(m)
    BY <2>1 DEF NotOnDisk, Key
  <2>3. Key(m) \in Unremembered
    BY <2>2 DEF Unremembered, Key
  <2> QED BY <1>2, <2>3
<1>9. OneCopy'
  BY <1>1, <1>2 DEF OneCopy
<1> QED BY <1>4, <1>6, <1>7, <1>8, <1>9 DEF MirrorInv

\* A reset empties the tracker; with a job of the window under way nothing is promised
\* any more, and without one nobody comes back to a topic that was there before.
LEMMA ResetKeeps ==
  ASSUME MirrorInv, NEW j \in Jobs, Reset(j)
  PROVE  MirrorInv'
<1>1. /\ MirrorTypeOK /\ TurnInv /\ CallsInv /\ BannerInv /\ MessageInv /\ CopyInv /\ GoneInv /\ OneCopy
      /\ QueueInv
  BY DEF MirrorInv, MirrorTypeOK
<1>2. /\ queue' = queue /\ running' = running /\ answer' = answer
      /\ track' = Blank /\ disk' \in {Blank, disk} /\ inflight' = inflight /\ posts' = posts
      /\ topics' = {} /\ processing' = FALSE /\ pendingSnapshot' = NoSnapshot
      /\ created' = created /\ chat' = chat /\ win' = win
      /\ unsure' = IF \E k \in Jobs : MirrorJob(k) THEN Threads \X Elements ELSE unsure
  BY DEF Reset, ClearAll, Saved, Written, queueVars, telegram
<1>3. /\ job[j].at = "reset" /\ Unquiet(j) /\ job \in [Jobs -> JobRecords]
      /\ job' = [job EXCEPT ![j] = Idle] /\ Idle \in JobRecords
      /\ Idle.at = "idle" /\ Idle.kind = "none"
  BY <1>1 DEF Reset, Ends, Unquiet, Synchronous, MirrorTypeOK, Idle, JobRecords, JobKinds, JobPlaces
<1>4. /\ \A i \in Jobs \ {j} : job'[i] = job[i] /\ ~Unquiet(i)
      /\ job'[j] = Idle /\ answer[j] = "none" /\ job' \in [Jobs -> JobRecords]
  <2>1. answer[j] = "none"
    BY <1>1, <1>3 DEF TurnInv, Awaiting
  <2> QED BY <1>1, <1>3, <2>1, OthersQuiet
<1>5. Blank \in TrackRecords /\ \A k \in Threads \X Elements : Blank[k] = Untracked /\ Blank[k].msg = 0
  BY DEF Blank, TrackRecords, Untracked
<1>6. QueueInv' /\ Calls' = Calls
  BY <1>1, <1>2 DEF QueueInv, Calls, IsRun, Awaited
<1>7. MirrorTypeOK'
  BY <1>1, <1>2, <1>4, <1>5, <1>6 DEF MirrorTypeOK
<1>8. \A m \in chat : Key(m) \in Threads \X Elements
  BY <1>1, MirrorAssumption DEF MirrorTypeOK, Key
<1>9. \A i \in Jobs : job'[i].at \in Awaiting =>
         i # j /\ job'[i] = job[i] /\ Thread(i)' = Thread(i) /\ Asked(i)' = Asked(i) /\ Asked(i) \in Threads \X Elements
  <2> SUFFICES ASSUME NEW i \in Jobs, job'[i].at \in Awaiting
               PROVE  i # j /\ job'[i] = job[i] /\ Thread(i)' = Thread(i) /\ Asked(i)' = Asked(i) /\ Asked(i) \in Threads \X Elements
    OBVIOUS
  <2>1. i # j /\ job'[i] = job[i]
    BY <1>3, <1>4 DEF Awaiting
  <2>2. Thread(i) \in Threads
    BY <1>1, <2>1, MirrorAssumption DEF TurnInv, InTopic, MirrorTypeOK
  <2> QED BY <2>1, <2>2, MirrorAssumption DEF Asked, Thread
<1>10. BannerInv' /\ MessageInv'
  <2>1. BannersTracked(track)' /\ BannersTracked(disk)'
    <3>1. \A t \in Threads : <<t, "banner">> \in Threads \X Elements
      BY MirrorAssumption
    <3> QED BY <1>1, <1>2, <1>5, <3>1 DEF BannerInv, BannersTracked
  <2>2. \A i \in Jobs : job'[i].at \in Awaiting => Tracks(Asked(i), job[i].msg)'
    BY <1>2, <1>5, <1>9 DEF Tracks
  <2>3. \A i \in Jobs : IsRun(i)' <=> IsRun(i)
    BY <1>2 DEF IsRun
  <2>4. MessageInv'
    BY <2>2 DEF MessageInv, Awaiting
  <2>5. \A i \in Jobs : (job[i].at \in {"deleting", "bannerSent"})' => job'[i].at \in Awaiting
    BY DEF Awaiting
  <2>6. ASSUME NEW i \in Jobs, NEW d \in Jobs, AtOdds(i, d), job'[i] = job[i], job'[d] = job[d]
        PROVE  AtOdds(i, d)'
    BY <2>3, <2>6 DEF AtOdds
  <2>7. BannerInv'
    BY <1>1, <1>2, <1>9, <2>1, <2>2, <2>5, <2>6 DEF BannerInv
  <2> QED BY <2>4, <2>7
<1>11. CallsInv'
  <2>1. \A it \in Calls : it.by # j
    BY <1>1, <1>4, CallAwaited
  <2>2. \A i \in Jobs \ {j} : Posting(i)' <=> Posting(i)
    BY <1>4 DEF Posting
  <2> QED BY <1>1, <1>2, <1>3, <1>4, <1>6, <2>1, <2>2 DEF CallsInv, Sent
<1>12. ASSUME NEW i \in Jobs
       PROVE  /\ (job[i].at \in Awaiting <=> answer[i] # "none")'
              /\ (job[i].at \in OfWindow => MirrorJob(i) /\ job[i].seen \in Snapshots)'
              /\ (job[i].at \in {"message", "messageSent"} => job[i].kind = "window")'
              /\ (job[i].at \in InTopic => Thread(i) \in 1..created)'
  <2>1. CASE i = j
    BY <1>2, <1>3, <1>4, <2>1 DEF Awaiting, OfWindow, InTopic
  <2>2. CASE i # j
    BY <1>1, <1>2, <1>4, <2>2 DEF TurnInv, MirrorJob, Thread
  <2> QED BY <2>1, <2>2
<1>13. \A i \in Jobs \ {j} : ~Unquiet(i)'
  BY <1>2, <1>4 DEF Unquiet
<1>14. CASE \E k \in Jobs : MirrorJob(k)
  <2>1. unsure' = Threads \X Elements
    BY <1>2, <1>14
  <2>2. TurnInv'
    BY <1>12, <1>13, <2>1 DEF TurnInv, Confused
  <2>3. CopyInv' /\ OneCopy'
    BY <1>2, <1>8, <2>1 DEF CopyInv, OneCopy, Key
  <2>4. GoneInv'
    BY <1>9, <2>1 DEF GoneInv, Gone, Awaiting
  <2> QED BY <1>7, <1>10, <1>11, <2>2, <2>3, <2>4 DEF MirrorInv
<1>15. CASE ~\E k \in Jobs : MirrorJob(k)
  <2>1. unsure' = unsure
    BY <1>2, <1>15
  <2>2. \A i \in Jobs : ~MirrorJob(i)' /\ job'[i].kind # "window"
    BY <1>3, <1>4, <1>15 DEF MirrorJob
  <2>3. TurnInv'
    BY <1>12, <1>13, <2>2 DEF TurnInv
  <2>4. CopyInv'
    BY <1>2, <2>2 DEF CopyInv, Reached, Tracked
  <2>5. GoneInv'
    BY <1>12, <2>2 DEF GoneInv, Gone, OfWindow, InTopic, Awaiting
  <2>6. OneCopy'
    BY <1>1, <1>2, <2>1 DEF OneCopy
  <2> QED BY <1>7, <1>10, <1>11, <2>3, <2>4, <2>5, <2>6 DEF MirrorInv
<1> QED BY <1>14, <1>15

Still == UNCHANGED <<win, pendingSnapshot, processing>>

LEMMA StillSeen == MirrorInv /\ Still => WindowsSeen
  BY DEF MirrorInv, MirrorTypeOK, Still, WindowsSeen

LEMMA TopicsStay == MirrorInv /\ topics' = topics /\ created' = created /\ chat' = chat => TopicsMove
  BY DEF MirrorInv, MirrorTypeOK, TopicsMove, Tracked

\* A job goes on to another place of its own.
LEMMA GoesKeeps ==
  ASSUME MirrorInv, NEW j \in Jobs, NEW at \in {"creating", "banner", "message", "next"}, Goes(j, at),
         Quiet \/ Unquiet(j), job[j].at \notin Awaiting,
         at = "creating" => job[j].at \in OfWindow,
         at \in {"banner", "message"} => job[j].at \in InTopic,
         at = "message" => job[j].kind = "window",
         Elsewhere, TopicsMove, Still
  PROVE  MirrorInv'
<1>1. /\ MirrorTypeOK /\ TurnInv /\ job \in [Jobs -> JobRecords] /\ at \in JobPlaces
      /\ created \in Nat /\ created' \in {created, created + 1}
  BY DEF MirrorInv, MirrorTypeOK, JobPlaces, OfWindow, InTopic, TopicsMove
<1>2. /\ \A i \in Jobs \ {j} : job'[i] = job[i]
      /\ job'[j].at = at /\ job'[j].kind = job[j].kind /\ job'[j].thread = job[j].thread
      /\ job'[j].seen = job[j].seen /\ job' \in [Jobs -> JobRecords]
  <2>1. job'[j] = [job[j] EXCEPT !.at = at, !.msg = 0] /\ \A i \in Jobs \ {j} : job'[i] = job[i]
    BY <1>1 DEF Goes
  <2>2. [job[j] EXCEPT !.at = at] \in JobRecords
    BY <1>1 DEF JobRecords
  <2>3. [[job[j] EXCEPT !.at = at] EXCEPT !.msg = 0] \in JobRecords
    BY <2>2 DEF JobRecords
  <2>4. job' = [i \in Jobs |-> job'[i]]
    BY <1>1 DEF Goes
  <2>5. job' \in [Jobs -> JobRecords]
    BY <1>1, <2>1, <2>3, <2>4
  <2> QED BY <1>1, <2>1, <2>5 DEF JobRecords
<1>3. GoesOn(j)
  <2>1. at \notin Awaiting
    BY DEF Awaiting
  <2>2. at \in OfWindow => MirrorJob(j)' /\ job'[j].seen \in Snapshots
    <3>1. at \in OfWindow => job[j].at \in OfWindow
      BY DEF OfWindow, InTopic, Awaiting
    <3> QED BY <1>1, <1>2, <3>1 DEF TurnInv, MirrorJob
  <2>3. at \in InTopic => job'[j].thread \in 1..created'
    <3>1. at \in InTopic => job[j].at \in InTopic
      BY DEF InTopic, Awaiting
    <3>2. job[j].at \in InTopic => job[j].thread \in 1..created
      BY <1>1 DEF TurnInv, Thread
    <3> QED BY <1>1, <1>2, <3>1, <3>2
  <2>4. ~Confused /\ job[j].kind = "window" => processing'
    BY <1>1 DEF TurnInv, Still
  <2> QED BY <1>2, <2>1, <2>2, <2>3, <2>4 DEF GoesOn, MirrorJob, Still
<1> QED BY <1>3, StillSeen, GoesOnKeeps

\* A job found its topic.
LEMMA ToTopicKeeps ==
  ASSUME MirrorInv, NEW j \in Jobs, NEW t, ToTopic(j, t), t \in Tracked \union {created + 1}, t \in 1..created',
         Quiet \/ Unquiet(j), job[j].at \in {"route", "creating"},
         Elsewhere, TopicsMove, Still
  PROVE  MirrorInv'
<1>1. /\ MirrorTypeOK /\ TurnInv /\ job \in [Jobs -> JobRecords] /\ "sweep" \in JobPlaces
      /\ created \in Nat /\ created' \in Nat
  BY DEF MirrorInv, MirrorTypeOK, JobPlaces, OfWindow, InTopic, TopicsMove
<1>2. /\ \A i \in Jobs \ {j} : job'[i] = job[i]
      /\ job'[j].at = "sweep" /\ job'[j].kind = job[j].kind /\ job'[j].thread = t
      /\ job'[j].seen = job[j].seen /\ job' \in [Jobs -> JobRecords]
  <2>1. job'[j] = [job[j] EXCEPT !.thread = t, !.at = "sweep"] /\ \A i \in Jobs \ {j} : job'[i] = job[i]
    BY <1>1 DEF ToTopic
  <2>2. [job[j] EXCEPT !.thread = t] \in JobRecords
    BY <1>1 DEF JobRecords
  <2>3. [[job[j] EXCEPT !.thread = t] EXCEPT !.at = "sweep"] \in JobRecords
    BY <1>1, <2>2 DEF JobRecords
  <2>4. job' = [i \in Jobs |-> job'[i]]
    BY <1>1 DEF ToTopic
  <2>5. job' \in [Jobs -> JobRecords]
    BY <1>1, <2>1, <2>3, <2>4
  <2> QED BY <1>1, <2>1, <2>5 DEF JobRecords
<1>3. GoesOn(j)
  <2>1. MirrorJob(j)' /\ job'[j].seen \in Snapshots
    BY <1>1, <1>2 DEF TurnInv, OfWindow, MirrorJob
  <2>2. ~Confused /\ job[j].kind = "window" => processing'
    BY <1>1 DEF TurnInv, Still
  <2> QED BY <1>2, <2>1, <2>2 DEF GoesOn, MirrorJob, Still, Awaiting
<1> QED BY <1>3, StillSeen, GoesOnKeeps

\* A job begins, or ends, or begins again.
LEMMA BecomesKeeps ==
  ASSUME MirrorInv, NEW j \in Jobs, NEW r \in JobRecords, job' = [job EXCEPT ![j] = r],
         r.at \in {"idle", "route", "syncing", "topics"}, r.thread = 0,
         r.at = "route" => r.kind \in {"window", "patch"} /\ r.seen \in Snapshots,
         Quiet \/ Unquiet(j), job[j].at \notin Awaiting,
         ~Confused /\ r.kind = "window" => processing' /\ (job[j].kind = "window" \/ ~processing),
         job[j].kind = "window" \/ processing' = processing \/ processing',
         Elsewhere, TopicsMove, WindowsSeen
  PROVE  MirrorInv'
<1>1. job \in [Jobs -> JobRecords]
  BY DEF MirrorInv, MirrorTypeOK
<1>2. job' \in [Jobs -> JobRecords] /\ job'[j] = r /\ \A i \in Jobs \ {j} : job'[i] = job[i]
  BY <1>1
<1>3. GoesOn(j)
  BY <1>2 DEF GoesOn, MirrorJob, OfWindow, InTopic, Awaiting
<1> QED BY <1>3, GoesOnKeeps

LEMMA IdleJob ==
  /\ Idle \in JobRecords /\ Idle.at = "idle" /\ Idle.kind = "none" /\ Idle.thread = 0
  /\ \A kind \in JobKinds, at \in JobPlaces, seen \in Snapshots, todo \in SUBSET Threads :
        /\ [Idle EXCEPT !.kind = kind, !.at = at, !.seen = seen] \in JobRecords
        /\ [Idle EXCEPT !.kind = kind, !.at = at, !.todo = todo] \in JobRecords
  BY DEF Idle, JobRecords, JobKinds, JobPlaces

\* Nothing of a job, a call or a topic's message changes.
LEMMA NothingKeeps ==
  ASSUME MirrorInv, job' = job, UNCHANGED queueVars, track' = track, disk' \in {track, disk},
         chat' = chat, created' = created, posts' = posts, unsure' = unsure, inflight' = inflight,
         processing' = processing, topics' \subseteq [id : 1..created, bound : BOOLEAN], Tracked' \subseteq Tracked, WindowsSeen
  PROVE  MirrorInv'
<1>1. QueueInv /\ queue' = queue /\ running' = running /\ answer' = answer
  BY DEF MirrorInv, MirrorTypeOK, queueVars
<1>2. QueueInv' /\ Calls' = Calls /\ \A i \in Jobs : IsRun(i)' <=> IsRun(i)
  BY <1>1 DEF QueueInv, Calls, IsRun, Awaited
<1>3. NobodyMoves
  BY <1>1, <1>2 DEF NobodyMoves
<1> QED BY <1>3, NobodyMovesKeeps

LEMMA RoutedIs ==
  ASSUME MirrorInv
  PROVE  /\ Bound \subseteq Tracked /\ Tracked \subseteq 1..created /\ Tracked \subseteq Threads
         /\ Routed # 0 => Routed \in Tracked
<1>1. /\ topics \subseteq [id : 1..created, bound : BOOLEAN] /\ created \in Nat /\ created <= MaxThreads
  BY DEF MirrorInv, MirrorTypeOK
<1>2. Bound \subseteq Tracked
  BY DEF Bound, Tracked
<1>3. Tracked \subseteq 1..created /\ Tracked \subseteq Threads
  <2>1. 1..created \subseteq Threads
    BY <1>1, MirrorAssumption
  <2>2. Tracked \subseteq 1..created
    BY <1>1 DEF Tracked
  <2> QED BY <2>1, <2>2
<1>4. ASSUME Routed # 0 PROVE Routed \in Tracked
  <2>1. Bound # {} /\ Routed = Max(Bound)
    BY <1>4 DEF Routed
  <2>2. Bound \subseteq 0..created
    BY <1>1, <1>2, <1>3
  <2>3. Max(Bound) \in Bound
    BY <1>1, <2>1, <2>2, LastIs
  <2> QED BY <1>2, <2>1, <2>3
<1> QED BY <1>2, <1>3, <1>4

LEMMA CursorChangesKeeps == MirrorInv /\ CursorChanges => MirrorInv'
<1> SUFFICES ASSUME MirrorInv, CursorChanges PROVE MirrorInv'
  OBVIOUS
<1>1. win \in Snapshots /\ pendingSnapshot \in Snapshots \union {NoSnapshot} /\ processing \in BOOLEAN
      /\ topics \subseteq [id : 1..created, bound : BOOLEAN]
  BY DEF MirrorInv, MirrorTypeOK
<1>2. WindowsSeen
  <2>1. win' \in Snapshots
    <3>1. PICK n \in Nat : \/ win' = [win EXCEPT !.message = n, !.no = @ + 1]
                          \/ win' = [win EXCEPT !.banner = n, !.no = @ + 1]
      <4>1. 1..MaxVersion \subseteq Nat /\ 0..MaxVersion \subseteq Nat
        BY MirrorAssumption
      <4>2. CASE \E m \in 1..MaxVersion : win' = [win EXCEPT !.message = m, !.no = @ + 1]
        BY <4>1, <4>2
      <4>3. CASE \E b \in {0, win.banner, win.banner + 1} \intersect 0..MaxVersion : win' = [win EXCEPT !.banner = b, !.no = @ + 1]
        BY <4>1, <4>3
      <4> QED BY <4>2, <4>3 DEF CursorChanges
    <3>2. win.no + 1 \in Nat
      BY <1>1 DEF Snapshots
    <3>3. [win EXCEPT !.message = n] \in Snapshots /\ [win EXCEPT !.banner = n] \in Snapshots
      BY <1>1 DEF Snapshots
    <3> QED BY <1>1, <3>1, <3>2, <3>3 DEF Snapshots
  <2> QED BY <1>1, <2>1 DEF CursorChanges, mirror, WindowsSeen
<1> QED BY <1>1, <1>2, NothingKeeps DEF CursorChanges, trackVars, mirror, telegram, Tracked

LEMMA WindowUpdateKeeps == MirrorInv /\ WindowUpdate => MirrorInv'
<1> SUFFICES ASSUME MirrorInv, WindowUpdate PROVE MirrorInv'
  OBVIOUS
<1>1. win \in Snapshots /\ pendingSnapshot \in Snapshots \union {NoSnapshot} /\ processing \in BOOLEAN
      /\ topics \subseteq [id : 1..created, bound : BOOLEAN]
  BY DEF MirrorInv, MirrorTypeOK
<1>2. TopicsMove
  BY TopicsStay DEF WindowUpdate, telegram
<1>3. CASE processing
  <2>1. WindowsSeen /\ job' = job
    BY <1>1, <1>3 DEF WindowUpdate, WindowsSeen
  <2> QED BY <1>1, <1>3, <2>1, NothingKeeps DEF WindowUpdate, trackVars, telegram, Tracked
<1>4. CASE ~processing
  <2> DEFINE r == [Idle EXCEPT !.kind = "window", !.at = "route", !.seen = win]
  <2>1. PICK j \in Jobs : Free(j) /\ job' = [job EXCEPT ![j] = r]
    BY <1>4 DEF WindowUpdate
  <2>2. r \in JobRecords /\ r.at = "route" /\ r.thread = 0 /\ r.kind = "window" /\ r.seen \in Snapshots
    BY <1>1 DEF Idle, JobRecords, JobKinds, JobPlaces, OfWindow
  <2>3. WindowsSeen /\ processing' /\ Quiet /\ Elsewhere
    BY <1>1, <1>4 DEF WindowUpdate, WindowsSeen, Elsewhere, telegram
  <2>4. job[j].at \notin Awaiting
    BY <2>1 DEF Free, Idle, Awaiting
  <2> HIDE DEF r
  <2> QED BY <1>2, <1>4, <2>1, <2>2, <2>3, <2>4, BecomesKeeps
<1> QED BY <1>3, <1>4

LEMMA StatePatchKeeps == ASSUME NEW j \in Jobs PROVE MirrorInv /\ StatePatch(j) => MirrorInv'
<1> SUFFICES ASSUME MirrorInv, StatePatch(j) PROVE MirrorInv'
  OBVIOUS
<1>1. win \in Snapshots
  BY DEF MirrorInv, MirrorTypeOK
<1> DEFINE r == [Idle EXCEPT !.kind = "patch", !.at = "route", !.seen = win]
<1>2. TopicsMove /\ WindowsSeen /\ Elsewhere /\ processing' = processing /\ Quiet
  BY TopicsStay, StillSeen DEF StatePatch, telegram, mirror, Still, Elsewhere
<1>3. r \in JobRecords /\ r.at = "route" /\ r.thread = 0 /\ r.kind = "patch" /\ r.seen \in Snapshots
  BY <1>1 DEF Idle, JobRecords, JobKinds, JobPlaces, OfWindow
<1>4. job[j].at \notin Awaiting /\ job' = [job EXCEPT ![j] = r]
  BY DEF StatePatch, Free, Idle, Awaiting
<1> HIDE DEF r
<1> QED BY <1>2, <1>3, <1>4, BecomesKeeps

LEMMA RouteKeeps == ASSUME NEW j \in Jobs PROVE MirrorInv /\ (Route(j) \/ RouteApprovals(j)) => MirrorInv'
<1> SUFFICES ASSUME MirrorInv, Route(j) \/ RouteApprovals(j) PROVE MirrorInv'
  OBVIOUS
<1>1. /\ TopicsMove /\ Elsewhere /\ Still /\ created' = created
      /\ job[j].at = "route" /\ Unquiet(j) /\ job[j].at \notin Awaiting /\ job[j].at \in OfWindow
  BY TopicsStay DEF Route, RouteApprovals, RouteFrame, telegram, window, Still, Elsewhere, Unquiet, Synchronous, Awaiting, OfWindow
<1>2. CASE ToTopic(j, Routed) /\ Routed # 0
  <2>1. Routed \in Tracked /\ Routed \in 1..created'
    BY <1>1, <1>2, RoutedIs
  <2> QED BY <1>1, <1>2, <2>1, ToTopicKeeps
<1>3. CASE Goes(j, "creating")
  BY <1>1, <1>3, GoesKeeps
<1>4. CASE Goes(j, "next")
  BY <1>1, <1>4, GoesKeeps
<1> QED BY <1>2, <1>3, <1>4 DEF Route, RouteApprovals

\* Whatever became of createForumTopic.
LEMMA TopicMadeMoves ==
  ASSUME MirrorInv
  PROVE  /\ \A heard \in BOOLEAN : TopicMade(heard) => TopicsMove /\ created' = created + 1 /\ posts' = posts
         /\ TopicNotMade => TopicsMove /\ posts' = posts
<1>1. topics \subseteq [id : 1..created, bound : BOOLEAN] /\ created \in Nat /\ created <= MaxThreads
  BY DEF MirrorInv, MirrorTypeOK
<1>2. ASSUME NEW heard \in BOOLEAN, TopicMade(heard)
      PROVE  TopicsMove /\ created' = created + 1 /\ posts' = posts
  <2>1. created' = created + 1 /\ created' <= MaxThreads /\ chat' = chat /\ posts' = posts
    BY <1>1, <1>2, MirrorAssumption DEF TopicMade
  <2>2. topics' \subseteq topics \union {[id |-> created + 1, bound |-> TRUE]}
    BY <1>2 DEF TopicMade, Registered
  <2>3. Tracked' \subseteq Tracked \union {created + 1}
    BY <2>2 DEF Tracked
  <2>4. topics' \subseteq [id : 1..created', bound : BOOLEAN]
    <3>1. 1..created \subseteq 1..created' /\ created + 1 \in 1..created'
      BY <1>1, <2>1
    <3>2. [id |-> created + 1, bound |-> TRUE] \in [id : 1..created', bound : BOOLEAN]
      BY <3>1
    <3> QED BY <1>1, <2>2, <3>1, <3>2
  <2> QED BY <2>1, <2>3, <2>4 DEF TopicsMove
<1>3. TopicNotMade => TopicsMove /\ posts' = posts
  BY TopicsStay DEF TopicNotMade, telegram
<1> QED BY <1>2, <1>3

LEMMA CreateTopicKeeps == ASSUME NEW j \in Jobs PROVE MirrorInv /\ CreateTopic(j) => MirrorInv'
<1> SUFFICES ASSUME MirrorInv, CreateTopic(j) PROVE MirrorInv'
  OBVIOUS
<1>1. /\ Still /\ job[j].at = "creating" /\ job[j].at \notin Awaiting /\ Quiet
      /\ UNCHANGED <<queueVars, trackVars, inflight, unsure>> /\ created \in Nat
  BY DEF CreateTopic, window, Still, Awaiting, MirrorInv, MirrorTypeOK
<1>2. CASE TopicMade(TRUE) /\ ToTopic(j, created + 1)
  <2>1. TopicsMove /\ created' = created + 1 /\ Elsewhere
    BY <1>1, <1>2, TopicMadeMoves DEF Elsewhere
  <2> QED BY <1>1, <1>2, <2>1, ToTopicKeeps
<1>3. CASE (TopicMade(FALSE) \/ TopicNotMade) /\ Goes(j, "next")
  <2>1. TopicsMove /\ Elsewhere
    BY <1>1, <1>3, TopicMadeMoves DEF Elsewhere
  <2> QED BY <1>1, <1>3, <2>1, GoesKeeps
<1> QED BY <1>2, <1>3 DEF CreateTopic

LEMMA SyncTopicKeeps == ASSUME NEW j \in Jobs PROVE MirrorInv /\ SyncTopic(j) => MirrorInv'
<1> SUFFICES ASSUME MirrorInv, SyncTopic(j) PROVE MirrorInv'
  OBVIOUS
<1>1. /\ Still /\ job[j].at \notin Awaiting /\ Quiet /\ Goes(j, "next")
      /\ UNCHANGED <<queueVars, trackVars, inflight, unsure>>
  BY DEF SyncTopic, window, Still, Awaiting
<1>2. TopicsMove /\ Elsewhere
  BY <1>1, TopicMadeMoves DEF SyncTopic, Elsewhere
<1> QED BY <1>1, <1>2, GoesKeeps

LEMMA ProcessNextKeeps == ASSUME NEW j \in Jobs PROVE MirrorInv /\ ProcessNext(j) => MirrorInv'
<1> SUFFICES ASSUME MirrorInv, ProcessNext(j) PROVE MirrorInv'
  OBVIOUS
<1>1. /\ TurnInv /\ win \in Snapshots /\ pendingSnapshot \in Snapshots \union {NoSnapshot} /\ processing \in BOOLEAN
      /\ job[j].at = "next" /\ Unquiet(j) /\ job[j].at \notin Awaiting /\ win' = win
      /\ ~Confused /\ job[j].kind = "window" => processing
  BY DEF MirrorInv, MirrorTypeOK, TurnInv, ProcessNext, Unquiet, Synchronous, Awaiting
<1>2. TopicsMove /\ Elsewhere
  BY TopicsStay DEF ProcessNext, telegram, Elsewhere
<1>3. WindowsSeen
  BY <1>1 DEF ProcessNext, WindowsSeen
<1>4. CASE Ends(j) /\ (job[j].kind = "window" \/ processing' = processing)
  <2>1. job' = [job EXCEPT ![j] = Idle]
    BY <1>4 DEF Ends
  <2> QED BY <1>1, <1>2, <1>3, <1>4, <2>1, IdleJob, BecomesKeeps
<1>5. CASE /\ NextSnapshot # NoSnapshot /\ job[j].kind = "window" /\ processing' = processing
           /\ job' = [job EXCEPT ![j] = [Idle EXCEPT !.kind = "window", !.at = "route", !.seen = NextSnapshot]]
  <2> DEFINE r == [Idle EXCEPT !.kind = "window", !.at = "route", !.seen = NextSnapshot]
  <2>1. NextSnapshot \in Snapshots
    BY <1>1, <1>5 DEF NextSnapshot
  <2>2. r \in JobRecords /\ r.at = "route" /\ r.thread = 0 /\ r.kind = "window" /\ r.seen \in Snapshots
    BY <2>1 DEF Idle, JobRecords, JobKinds, JobPlaces, OfWindow
  <2>3. job' = [job EXCEPT ![j] = r]
    BY <1>5
  <2> HIDE DEF r
  <2> QED BY <1>1, <1>2, <1>3, <1>5, <2>2, <2>3, BecomesKeeps
<1> QED BY <1>4, <1>5 DEF ProcessNext

LEMMA DeleteTopicKeeps == ASSUME NEW j \in Jobs PROVE MirrorInv /\ DeleteTopic(j) => MirrorInv'
<1> SUFFICES ASSUME MirrorInv, DeleteTopic(j) PROVE MirrorInv'
  OBVIOUS
<1>1. /\ MirrorTypeOK /\ TurnInv /\ job \in [Jobs -> JobRecords] /\ job[j].at = "topics" /\ Quiet
      /\ Still /\ created' = created /\ Elsewhere
  BY DEF MirrorInv, MirrorTypeOK, DeleteTopic, window, Still, Elsewhere
<1>2. PICK left \in SUBSET Threads, at \in {"topics", "next", "reset"} :
         job' = [job EXCEPT ![j].todo = left, ![j].at = at]
  <2> DEFINE rest == job[j].todo \ {Min(job[j].todo)}
             to == CASE rest # {} -> "topics"
                     [] rest = {} /\ job[j].kind \in {"dedupe", "cleanup"} -> "next"
                     [] OTHER -> "reset"
  <2>1. job' = [job EXCEPT ![j].todo = rest, ![j].at = to]
    BY DEF DeleteTopic
  <2>2. rest \in SUBSET Threads
    BY <1>1 DEF JobRecords
  <2>3. to \in {"topics", "next", "reset"}
    OBVIOUS
  <2> HIDE DEF rest, to
  <2> QED BY <2>1, <2>2, <2>3
<1>3. /\ \A i \in Jobs \ {j} : job'[i] = job[i]
      /\ job'[j].at = at /\ job'[j].kind = job[j].kind /\ job'[j].thread = job[j].thread
      /\ job' \in [Jobs -> JobRecords]
  <2>1. job'[j] = [job[j] EXCEPT !.todo = left, !.at = at] /\ \A i \in Jobs \ {j} : job'[i] = job[i]
    BY <1>1, <1>2
  <2>2. at \in JobPlaces
    BY DEF JobPlaces
  <2>3. [job[j] EXCEPT !.todo = left] \in JobRecords
    BY <1>1 DEF JobRecords
  <2>4. [[job[j] EXCEPT !.todo = left] EXCEPT !.at = at] \in JobRecords
    BY <2>2, <2>3 DEF JobRecords
  <2>5. job' = [i \in Jobs |-> job'[i]]
    BY <1>1, <1>2
  <2>6. job' \in [Jobs -> JobRecords]
    BY <1>1, <2>1, <2>4, <2>5
  <2> QED BY <1>1, <2>1, <2>6 DEF JobRecords
<1>4. GoesOn(j)
  <2>1. ~Confused /\ job[j].kind = "window" => processing'
    BY <1>1 DEF TurnInv, Still
  <2> QED BY <1>1, <1>3, <2>1 DEF GoesOn, MirrorJob, Still, Awaiting, OfWindow, InTopic
<1>5. TopicsMove
  <2>1. topics' \subseteq topics /\ chat' \subseteq chat
    BY DEF DeleteTopic, Unmapped
  <2>2. Tracked' \subseteq Tracked
    BY <2>1 DEF Tracked
  <2> QED BY <1>1, <2>1, <2>2 DEF TopicsMove, MirrorTypeOK
<1> QED BY <1>1, <1>4, <1>5, StillSeen, GoesOnKeeps

LEMMA WorksKeeps ==
  ASSUME MirrorInv, NEW j \in Jobs, Command(j), CommandFrame,
         NEW kind \in {"sync", "unsync", "purge", "dedupe", "cleanup"}, NEW at \in {"syncing", "topics"},
         NEW todo \in SUBSET Threads, Works(j, kind, at, todo)
  PROVE  MirrorInv'
<1> DEFINE r == [Idle EXCEPT !.kind = kind, !.at = at, !.todo = todo]
<1>1. TopicsMove /\ WindowsSeen /\ Elsewhere /\ processing' = processing /\ Quiet
  BY TopicsStay, StillSeen DEF Command, CommandFrame, telegram, window, Still, Elsewhere
<1>2. r \in JobRecords /\ r.at = at /\ r.thread = 0 /\ r.kind = kind
  BY DEF Idle, JobRecords, JobKinds, JobPlaces
<1>3. job[j].at \notin Awaiting /\ job' = [job EXCEPT ![j] = r]
  BY DEF Command, Free, Idle, Awaiting, Works
<1> HIDE DEF r
<1> QED BY <1>1, <1>2, <1>3, BecomesKeeps

LEMMA CommandFrameKeeps == MirrorInv /\ CommandFrame /\ job' = job => MirrorInv'
<1> SUFFICES ASSUME MirrorInv, CommandFrame, job' = job PROVE MirrorInv'
  OBVIOUS
<1>1. topics \subseteq [id : 1..created, bound : BOOLEAN]
  BY DEF MirrorInv, MirrorTypeOK
<1>2. WindowsSeen
  BY StillSeen DEF CommandFrame, window, Still
<1> QED BY <1>1, <1>2, NothingKeeps DEF CommandFrame, trackVars, telegram, Tracked

LEMMA CommandsKeep ==
  ASSUME NEW j \in Jobs
  PROVE  MirrorInv /\ (Sync(j) \/ SyncAll(j) \/ Unsync(j) \/ Purge(j) \/ Dedupe(j) \/ Cleanup(j)) => MirrorInv'
<1> SUFFICES ASSUME MirrorInv, Sync(j) \/ SyncAll(j) \/ Unsync(j) \/ Purge(j) \/ Dedupe(j) \/ Cleanup(j) PROVE MirrorInv'
  OBVIOUS
<1>1. Command(j) /\ CommandFrame
  BY DEF Sync, SyncAll, Unsync, Purge, Dedupe, Cleanup
<1>2. /\ {} \in SUBSET Threads /\ Threads \in SUBSET Threads /\ Tracked \in SUBSET Threads
      /\ Bound \ {Routed} \in SUBSET Threads /\ Threads \ Tracked \in SUBSET Threads
  BY RoutedIs
<1>3. CASE job' = job
  BY <1>1, <1>3, CommandFrameKeeps
<1>4. CASE Works(j, "sync", "syncing", {})
  BY <1>1, <1>2, <1>4, WorksKeeps
<1>5. CASE Works(j, "unsync", "topics", Tracked)
  BY <1>1, <1>2, <1>5, WorksKeeps
<1>6. CASE Works(j, "purge", "topics", Threads)
  BY <1>1, <1>2, <1>6, WorksKeeps
<1>7. CASE Works(j, "dedupe", "topics", Bound \ {Routed})
  BY <1>1, <1>2, <1>7, WorksKeeps
<1>8. CASE Works(j, "cleanup", "topics", Threads \ Tracked)
  BY <1>1, <1>2, <1>8, WorksKeeps
<1> QED BY <1>3, <1>4, <1>5, <1>6, <1>7, <1>8 DEF Sync, SyncAll, Unsync, Purge, Dedupe, Cleanup

LEMMA ResyncKeeps == MirrorInv /\ Resync => MirrorInv'
<1> SUFFICES ASSUME MirrorInv, Resync PROVE MirrorInv'
  OBVIOUS
<1>1. topics \subseteq [id : 1..created, bound : BOOLEAN]
  BY DEF MirrorInv, MirrorTypeOK
<1>2. WindowsSeen
  BY StillSeen DEF Resync, window, Still
<1>3. PICK t : topics' = Rebound(t)
  BY DEF Resync
<1>4. topics' \subseteq [id : 1..created, bound : BOOLEAN] /\ Tracked' \subseteq Tracked
  <2>1. \A m \in topics' : \E n \in topics : m.id = n.id /\ m \in [id : 1..created, bound : BOOLEAN]
    BY <1>1, <1>3 DEF Rebound
  <2> QED BY <2>1 DEF Tracked
<1> QED BY <1>2, <1>4, NothingKeeps DEF Resync, trackVars, telegram

LEMMA TrackerSavesKeeps == MirrorInv /\ TrackerSaves => MirrorInv'
<1> SUFFICES ASSUME MirrorInv, TrackerSaves PROVE MirrorInv'
  OBVIOUS
<1>1. topics \subseteq [id : 1..created, bound : BOOLEAN]
  BY DEF MirrorInv, MirrorTypeOK
<1>2. WindowsSeen
  BY StillSeen DEF TrackerSaves, mirror, window, Still
<1> QED BY <1>1, <1>2, NothingKeeps DEF TrackerSaves, SaveTimer, Saved, Written, mirror, telegram, Tracked

LEMMA SweepKeeps == ASSUME NEW j \in Jobs PROVE MirrorInv /\ Sweep(j) => MirrorInv'
<1> SUFFICES ASSUME MirrorInv, Sweep(j) PROVE MirrorInv'
  OBVIOUS
<1>1. /\ TopicsMove /\ Still /\ job[j].at = "sweep" /\ Unquiet(j) /\ job[j].at \notin Awaiting /\ job[j].at \in InTopic
      /\ UNCHANGED <<trackVars, topics, processing, pendingSnapshot, telegram, win, unsure, inflight>>
  BY TopicsStay DEF Sweep, telegram, window, Still, Unquiet, Synchronous, Awaiting, InTopic
<1>2. CASE UNCHANGED queueVars /\ (Goes(j, "banner") \/ Goes(j, After(j)))
  <2>1. /\ After(j) \in {"message", "next"}
        /\ After(j) = "message" => job[j].kind = "window"
    BY DEF After
  <2>2. Elsewhere
    BY <1>1, <1>2 DEF Elsewhere, telegram
  <2>3. CASE Goes(j, "banner")
    BY <1>1, <2>2, <2>3, GoesKeeps
  <2>4. CASE Goes(j, After(j))
    BY <1>1, <2>1, <2>2, <2>4, GoesKeeps
  <2> QED BY <1>2, <2>3, <2>4
<1>3. CASE /\ Enqueue(j, "edit") /\ IsTracked(Thread(j), "banner")
           /\ job' = [job EXCEPT ![j].at = "deleting", ![j].msg = Shown(j, "banner")]
  <2>1. AsksFor(j, "deleting", "banner", "edit")
    BY <1>1, <1>3 DEF AsksFor, Awaiting
  <2> QED BY <2>1, AsksForKeeps
<1> QED BY <1>2, <1>3 DEF Sweep

LEMMA BannerKeeps == ASSUME NEW j \in Jobs PROVE MirrorInv /\ Banner(j) => MirrorInv'
<1> SUFFICES ASSUME MirrorInv, Banner(j) PROVE MirrorInv'
  OBVIOUS
<1>1. /\ TopicsMove /\ Still /\ job[j].at = "banner" /\ Unquiet(j) /\ job[j].at \notin Awaiting /\ job[j].at \in InTopic
      /\ UNCHANGED <<trackVars, topics, processing, pendingSnapshot, telegram, win, unsure>>
  BY TopicsStay DEF Banner, telegram, window, Still, Unquiet, Synchronous, Awaiting, InTopic
<1>2. CASE UNCHANGED <<queueVars, inflight>> /\ Goes(j, After(j))
  <2>1. /\ After(j) \in {"message", "next"}
        /\ After(j) = "message" => job[j].kind = "window"
    BY DEF After
  <2>2. Elsewhere
    BY <1>1, <1>2 DEF Elsewhere, telegram
  <2> QED BY <1>1, <1>2, <2>1, <2>2, GoesKeeps
<1>3. CASE /\ ~InFlight(Thread(j)) /\ inflight' = inflight \union {Thread(j)}
           /\ Enqueue(j, IF Shown(j, "banner") # 0 THEN "edit" ELSE "send")
           /\ job' = [job EXCEPT ![j].at = "bannerSent", ![j].msg = Shown(j, "banner")]
  <2> DEFINE p == IF Shown(j, "banner") # 0 THEN "edit" ELSE "send"
  <2>1. p \in {"send", "edit"} /\ p = IF Shown(j, "banner") = 0 THEN "send" ELSE "edit"
    OBVIOUS
  <2>2. Enqueue(j, p)
    BY <1>3
  <2> HIDE DEF p
  <2>3. AsksFor(j, "bannerSent", "banner", p)
    BY <1>1, <1>3, <2>1, <2>2 DEF AsksFor, Awaiting, InFlight
  <2> QED BY <2>1, <2>3, AsksForKeeps
<1> QED BY <1>2, <1>3 DEF Banner

LEMMA MessageKeeps == ASSUME NEW j \in Jobs PROVE MirrorInv /\ Message(j) => MirrorInv'
<1> SUFFICES ASSUME MirrorInv, Message(j) PROVE MirrorInv'
  OBVIOUS
<1>1. /\ TopicsMove /\ Still /\ job[j].at = "message" /\ Unquiet(j) /\ job[j].at \notin Awaiting /\ job[j].kind = "window"
      /\ UNCHANGED <<trackVars, topics, processing, pendingSnapshot, telegram, win, unsure, inflight>>
  BY TopicsStay DEF Message, telegram, window, mirror, Still, Unquiet, Synchronous, Awaiting, MirrorInv, TurnInv
<1>2. CASE UNCHANGED queueVars /\ Goes(j, "next")
  <2>1. Elsewhere
    BY <1>1, <1>2 DEF Elsewhere, telegram
  <2> QED BY <1>1, <1>2, <2>1, GoesKeeps
<1>3. CASE /\ IsTracked(Thread(j), "message") => Shown(j, "message") # 0
           /\ Enqueue(j, IF IsTracked(Thread(j), "message") THEN "edit" ELSE "send")
           /\ job' = [job EXCEPT ![j].at = "messageSent", ![j].msg = Shown(j, "message")]
  <2> DEFINE p == IF IsTracked(Thread(j), "message") THEN "edit" ELSE "send"
  <2>1. p \in {"send", "edit"} /\ p = IF Shown(j, "message") = 0 THEN "send" ELSE "edit"
    BY <1>3 DEF IsTracked, Untracked, Shown
  <2>2. Enqueue(j, p)
    BY <1>3
  <2> HIDE DEF p
  <2>3. AsksFor(j, "messageSent", "message", p)
    BY <1>1, <1>3, <2>1, <2>2 DEF AsksFor, Awaiting
  <2> QED BY <2>1, <2>3, AsksForKeeps
<1> QED BY <1>2, <1>3 DEF Message

LEMMA BannerDeletedKeeps == ASSUME NEW j \in Jobs PROVE MirrorInv /\ BannerDeleted(j) => MirrorInv'
<1> SUFFICES ASSUME MirrorInv, BannerDeleted(j) PROVE MirrorInv'
  OBVIOUS
<1>1. Forgets(j, 0)
  BY DEF BannerDeleted, Untrack, Untracked, Forgets, Gone, Asked, TakeAnswer
<1>2. Takes(j, "banner")
  BY <1>1 DEF BannerDeleted, Takes, Awaiting, Goes, Untrack, window
<1> QED BY <1>2, TakesKeeps

LEMMA SeenIs ==
  ASSUME MirrorInv, NEW j \in Jobs, job[j].at \in Awaiting
  PROVE  job[j].seen.banner \in Int /\ job[j].seen.message \in Int
<1>1. job[j].seen \in Snapshots
  BY DEF MirrorInv, TurnInv, OfWindow, InTopic
<1> QED BY <1>1 DEF Snapshots

LEMMA BannerSentKeeps == ASSUME NEW j \in Jobs PROVE MirrorInv /\ BannerSent(j) => MirrorInv'
<1> SUFFICES ASSUME MirrorInv, BannerSent(j) PROVE MirrorInv'
  OBVIOUS
<1>1. job[j].at = "bannerSent" /\ job[j].at \in Awaiting /\ job[j].at \in Sent /\ Asked(j) = <<Thread(j), "banner">>
  BY DEF BannerSent, Awaiting, Sent, Asked
<1>2. Keeps(j) \/ \E v \in Int : Learns(j, v)
  <2>1. CASE answer[j] = "ok"
    <3>1. Learns(j, job[j].seen.banner)
      BY <1>1, <2>1 DEF BannerSent, Track, Learns
    <3> QED BY <1>1, <3>1, SeenIs
  <2>2. CASE answer[j] # "ok"
    BY <1>1, <2>2 DEF BannerSent, trackVars, Keeps
  <2> QED BY <2>1, <2>2
<1>3. disk' = disk /\ After(j) \in {"message", "next"} /\ (After(j) = "message" => job[j].kind = "window")
  BY DEF BannerSent, Track, trackVars, After
<1>4. Takes(j, After(j))
  BY <1>1, <1>2, <1>3 DEF BannerSent, Takes, Goes, window
<1> QED BY <1>4, TakesKeeps

LEMMA MessageSentKeeps == ASSUME NEW j \in Jobs PROVE MirrorInv /\ MessageSent(j) => MirrorInv'
<1> SUFFICES ASSUME MirrorInv, MessageSent(j) PROVE MirrorInv'
  OBVIOUS
<1>1. job[j].at = "messageSent" /\ job[j].at \in Awaiting /\ job[j].at \in Sent /\ Asked(j) = <<Thread(j), "message">>
  BY DEF MessageSent, Awaiting, Sent, Asked
<1>2. /\ disk' = disk
      /\ Keeps(j) \/ (\E v \in Int : Learns(j, v)) \/ (\E v \in Int : Forgets(j, v))
  <2>1. CASE answer[j] = "ok" /\ Track(Thread(j), "message", job[j].msg, job[j].seen.message)
    <3>1. Learns(j, job[j].seen.message)
      BY <1>1, <2>1 DEF Track, Learns
    <3> QED BY <1>1, <2>1, <3>1, SeenIs DEF Track
  <2>2. CASE answer[j] = "gone" /\ Track(Thread(j), "message", 0, Dead)
    <3>1. Forgets(j, Dead)
      BY <1>1, <2>2 DEF Track, Forgets, Gone
    <3>2. Dead \in Int
      BY MirrorAssumption DEF Dead
    <3> QED BY <2>2, <3>1, <3>2 DEF Track
  <2>3. CASE answer[j] = "failed" /\ UNCHANGED trackVars
    BY <1>1, <2>3 DEF trackVars, Keeps
  <2> QED BY <2>1, <2>2, <2>3 DEF MessageSent
<1>3. Takes(j, "next")
  BY <1>1, <1>2 DEF MessageSent, Takes, Goes, mirror, window
<1> QED BY <1>3, TakesKeeps

LEMMA OtherCallsKeeps == MirrorInv /\ OtherCalls => MirrorInv'
<1> SUFFICES ASSUME MirrorInv, OtherCalls PROVE MirrorInv'
  OBVIOUS
<1>1. QueueInv /\ topics \subseteq [id : 1..created, bound : BOOLEAN]
  BY DEF MirrorInv, MirrorTypeOK
<1>2. PICK p \in {"send", "edit"} : Enqueue(Other, p)
  BY DEF OtherCalls, RoutingNotice, ConnectionNotice, ActivityLine, Questionnaire, PromptQueue
<1>3. /\ QueueInv'
      /\ \A d \in Callers \ {Other} : answer'[d] = answer[d] \/ Drops(d)
      /\ \A d, f \in Callers \ {Other} : answer'[d] # answer[d] /\ answer'[f] # answer[f] => d = f
      /\ \A it \in Calls' : it \in Calls \/ it = Item(Other, p)
      /\ \A d \in Callers : IsRun(d)' => IsRun(d) \/ d = Other
  BY <1>1, <1>2, JobsCall, EnqueueIs
<1>4. WindowsSeen
  BY StillSeen DEF OtherCalls, mirror, window, Still
<1>5. Item(Other, p).by = Other
  BY DEF Item
<1>6. NobodyMoves
  BY <1>1, <1>3, <1>5, JobsCall DEF NobodyMoves, OtherCalls, trackVars, mirror, telegram, Tracked
<1> QED BY <1>4, <1>6, NobodyMovesKeeps

LEMMA OtherAnsweredKeeps == MirrorInv /\ OtherAnswered => MirrorInv'
<1> SUFFICES ASSUME MirrorInv, OtherAnswered PROVE MirrorInv'
  OBVIOUS
<1>1. /\ QueueInv /\ topics \subseteq [id : 1..created, bound : BOOLEAN]
      /\ answer \in [Callers -> {"none", "waiting"} \union Results]
  BY DEF MirrorInv, MirrorTypeOK, QueueInv
<1>2. WindowsSeen
  BY StillSeen DEF OtherAnswered, mirror, window, Still
<1>3. /\ QueueInv'
      /\ \A d \in Callers \ {Other} : answer'[d] = answer[d]
      /\ \A it \in Calls' : it \in Calls
      /\ \A d \in Callers : IsRun(d)' => IsRun(d)
  <2>1. CASE running # NoItem /\ running.by = Other /\ Finish("ok")
    <3>1. QueueInv' /\ Ended("ok")
      BY <1>1, <2>1, FinishIs DEF Results
    <3> QED BY <1>1, <2>1, <3>1 DEF Ended
  <2>2. CASE TakeAnswer(Other) /\ UNCHANGED <<queue, running>>
    <3>1. /\ QueueInv' /\ Calls' = Calls
          /\ answer' = [answer EXCEPT ![Other] = "none"]
          /\ \A d \in Callers : IsRun(d)' <=> IsRun(d)
      BY <1>1, <2>2, JobsCall, TakeIs
    <3> QED BY <1>1, <3>1
  <2> QED BY <2>1, <2>2 DEF OtherAnswered
<1>4. NobodyMoves
  BY <1>1, <1>3, JobsCall DEF NobodyMoves, OtherAnswered, trackVars, mirror, telegram, Tracked
<1> QED BY <1>2, <1>4, NobodyMovesKeeps

LEMMA QueueGoesOnKeeps == MirrorInv /\ QueueGoesOn => MirrorInv'
<1> SUFFICES ASSUME MirrorInv, QueueGoesOn PROVE MirrorInv'
  OBVIOUS
<1>1. /\ QueueInv /\ TurnInv /\ CallsInv /\ BannerInv /\ topics \subseteq [id : 1..created, bound : BOOLEAN]
      /\ answer \in [Callers -> {"none", "waiting"} \union Results]
  BY DEF MirrorInv, MirrorTypeOK, QueueInv
<1>2. WindowsSeen
  BY StillSeen DEF QueueGoesOn, mirror, window, Still
<1>3. /\ QueueInv' /\ answer' = answer
      /\ \A it \in Calls' : it \in Calls
      /\ running' \in Calls
      /\ running'.priority = "send" => \A it \in Calls : it.priority = "send"
  BY <1>1, StartNextIs DEF QueueGoesOn
\* A post begins only when no edit waits, so nobody's deletion does.
<1>4. ASSUME NEW i \in Jobs, IsRun(i)', job[i].msg = 0, NEW d \in Jobs, job[d].at = "deleting"
      PROVE  FALSE
  <2>1. job[i].at # "deleting"
    BY <1>1, <1>4 DEF BannerInv
  <2>2. running'.priority = "send"
    <3>1. Posting(i)
      BY <1>4, <2>1 DEF Posting
    <3>2. running'.by = i
      BY <1>4 DEF IsRun
    <3> QED BY <1>1, <1>3, <3>1, <3>2 DEF CallsInv
  <2>3. answer[d] = "waiting"
    BY <1>1, <1>4, JobsCall DEF TurnInv, Awaiting, QueueGoesOn, Quiet
  <2>4. PICK it \in Calls : it.by = d
    <3>1. IsRun(d) \/ Awaited(queue, d)
      BY <1>1, <2>3, JobsCall DEF QueueInv
    <3> QED BY <3>1 DEF IsRun, Awaited, Calls
  <2>5. it.priority = "send"
    BY <1>3, <2>2, <2>4
  <2> QED BY <1>1, <1>4, <2>4, <2>5 DEF CallsInv, Posting
<1>5. NobodyMoves
  <2>1. \A i \in Jobs : IsRun(i)' => (job[i].msg = 0 => \A d \in Jobs : job[d].at # "deleting")
    BY <1>4
  <2> QED BY <1>1, <1>3, <2>1 DEF NobodyMoves, QueueGoesOn, trackVars, mirror, telegram, Tracked
<1> QED BY <1>2, <1>5, NobodyMovesKeeps

\* The next answer of a job's call.
LEMMA AnsweredKeeps == ASSUME NEW j \in Jobs PROVE MirrorInv /\ Answered(j) => MirrorInv'
<1> SUFFICES ASSUME MirrorInv, Answered(j) PROVE MirrorInv'
  OBVIOUS
<1>1. /\ QueueInv /\ topics \subseteq [id : 1..created, bound : BOOLEAN]
      /\ chat \subseteq [id : Nat \ {0}, thread : 1..created, element : Elements]
  BY DEF MirrorInv, MirrorTypeOK
<1>2. /\ Quiet /\ running # NoItem /\ running.by = j
      /\ UNCHANGED <<trackVars, inflight, topics, processing, pendingSnapshot, created, win>>
  BY DEF Answered, Post, Done, NotFound, Refused, Limited, Answering, mirror, telegram, window
<1>3. ASSUME NEW result \in Results, Finish(result), Posts(j, result) \/ AnswersOnly(j, result)
      PROVE  MirrorInv'
  <2>1. QueueInv' /\ Ended(result)
    BY <1>1, <1>3, FinishIs
  <2>2. Answers(j, result)
    BY <1>2, <1>3, <2>1 DEF Answers
  <2> QED BY <2>2, AnswersKeeps
<1>4. /\ "ok" \in Results /\ "failed" \in Results /\ "gone" \in Results
      /\ \A m \in chat : m.id # 0
  BY <1>1 DEF Results
<1>5. ASSUME NEW result \in {"ok", "failed"}, Post(j, result) PROVE MirrorInv'
  <2>1. Posts(j, result) /\ Finish(result)
    BY <1>5 DEF Post, Posts
  <2> QED BY <1>3, <1>4, <2>1
<1>6. CASE Done(j)
  <2>1. AnswersOnly(j, "ok") /\ Finish("ok")
    BY <1>6 DEF Done, AnswersOnly
  <2> QED BY <1>3, <1>4, <2>1
<1>7. CASE NotFound(j)
  <2>1. \A m \in chat : m.id # job[j].msg
    BY <1>4, <1>7 DEF NotFound, Posting, Live
  <2>2. AnswersOnly(j, "gone") /\ Finish("gone")
    BY <1>7, <2>1 DEF NotFound, AnswersOnly, telegram
  <2> QED BY <1>3, <1>4, <2>2
\* A deletion that failed leaves a copy nobody knows of, if there was one.
<1>8. ASSUME unsure' = UnknownCopy(j), UNCHANGED <<job, telegram>> PROVE AnswersOnly(j, "failed")
  BY <1>8 DEF UnknownCopy, Live, AnswersOnly, telegram
<1>9. CASE Refused(j)
  BY <1>3, <1>4, <1>8, <1>9 DEF Refused
<1>10. CASE Limited(j) /\ ~(running.retries < MaxRetries)
  <2>1. QueueInv' /\ Ended("failed")
    BY <1>1, <1>10, LimitedIs DEF Limited
  <2>2. Answers(j, "failed")
    BY <1>2, <1>4, <1>8, <1>10, <2>1 DEF Limited, Answers
  <2> QED BY <2>2, AnswersKeeps
<1>11. CASE Limited(j) /\ running.retries < MaxRetries
  <2>1. /\ QueueInv' /\ answer' = answer /\ SameCalls
        /\ \A d \in Callers : IsRun(d)' <=> IsRun(d)
    BY <1>1, <1>11, LimitedIs DEF Limited
  <2>2. WindowsSeen
    BY <1>2, StillSeen DEF Still
  <2>3. NobodyMoves
    BY <1>1, <1>2, <1>11, <2>1, JobsCall DEF NobodyMoves, Limited, SameCalls, trackVars, telegram, Tracked
  <2> QED BY <2>2, <2>3, NobodyMovesKeeps
<1> QED BY <1>4, <1>5, <1>6, <1>7, <1>9, <1>10, <1>11 DEF Answered

LEMMA NothingHappensKeeps == MirrorInv /\ UNCHANGED mirrorVars => MirrorInv'
<1> SUFFICES ASSUME MirrorInv, UNCHANGED mirrorVars PROVE MirrorInv'
  OBVIOUS
<1>1. topics \subseteq [id : 1..created, bound : BOOLEAN]
  BY DEF MirrorInv, MirrorTypeOK
<1>2. WindowsSeen
  BY StillSeen DEF mirrorVars, mirror, window, Still
<1> QED BY <1>1, <1>2, NothingKeeps DEF mirrorVars, trackVars, mirror, telegram, Tracked

LEMMA MirrorInvInductive == MirrorInv /\ SaveInv /\ [MirrorNext]_mirrorVars => MirrorInv'
<1> SUFFICES ASSUME MirrorInv, SaveInv, [MirrorNext]_mirrorVars PROVE MirrorInv'
  OBVIOUS
<1>1. CASE UNCHANGED mirrorVars
  BY <1>1, NothingHappensKeeps
<1>2. CASE CursorChanges
  BY <1>2, CursorChangesKeeps
<1>3. CASE WindowUpdate
  BY <1>3, WindowUpdateKeeps
<1>4. CASE TrackerSaves
  BY <1>4, TrackerSavesKeeps
<1>5. CASE Restart
  BY <1>5, RestartKeeps
<1>6. CASE OtherCalls
  BY <1>6, OtherCallsKeeps
<1>7. CASE Resync
  BY <1>7, ResyncKeeps
<1>8. CASE Progress
  <2>1. ASSUME NEW j \in Jobs, JobStep(j) PROVE MirrorInv'
    BY <2>1, RouteKeeps, CreateTopicKeeps, SyncTopicKeeps, SweepKeeps, BannerDeletedKeeps, BannerKeeps,
       BannerSentKeeps, MessageKeeps, MessageSentKeeps, ProcessNextKeeps, DeleteTopicKeeps, ResetKeeps DEF JobStep
  <2> QED BY <1>8, <2>1, QueueGoesOnKeeps, OtherAnsweredKeeps, AnsweredKeeps DEF Progress
<1>9. ASSUME NEW j \in Jobs, StatePatch(j) PROVE MirrorInv'
  BY <1>9, StatePatchKeeps
<1>10. ASSUME NEW j \in Jobs, Sync(j) \/ SyncAll(j) \/ Unsync(j) \/ Purge(j) \/ Dedupe(j) \/ Cleanup(j)
       PROVE  MirrorInv'
  BY <1>10, CommandsKeep
<1> QED BY <1>1, <1>2, <1>3, <1>4, <1>5, <1>6, <1>7, <1>8, <1>9, <1>10 DEF MirrorNext

LEMMA MirrorStays == MirrorSpec => []MirrorInv
<1>1. MirrorInit => SaveInv
  BY DEF MirrorInit, TrackInit, SaveInv
<1> QED
  BY <1>1, MirrorInvInit, MirrorInvInductive, SaveInvInductive, PTL DEF MirrorSpec

(***************************************************************************)
(* No message and no approval banner stands twice in a topic, except where *)
(* the program could not know of a copy or a reset forgot a job under way: *)
(* whichever of a window update, a state patch and a command run between   *)
(* the steps of another, and wherever the program ends.                    *)
(***************************************************************************)
THEOREM NoMessageTwice == MirrorSpec => []OneCopy
<1>1. MirrorInv => OneCopy
  BY DEF MirrorInv
<1> QED
  BY <1>1, MirrorStays, PTL

(***************************************************************************)
(* The safety half of EveryCallIsAnswered: a caller that waits has its     *)
(* call in the queue, or running, and only once; one that was answered,    *)
(* dropped or given up has none left that could still be run.              *)
(***************************************************************************)
Waited == \A c \in Callers : answer[c] = "waiting" <=> IsRun(c) \/ Awaited(queue, c)
WaitedOnce == OneEach(queue) /\ \A c \in Callers : ~(IsRun(c) /\ Awaited(queue, c))

THEOREM NoCallerForgotten == MirrorSpec => [](Waited /\ WaitedOnce)
<1>1. MirrorInv => Waited /\ WaitedOnce
  BY DEF MirrorInv, MirrorTypeOK, QueueInv, Waited, WaitedOnce
<1> QED
  BY <1>1, MirrorStays, PTL

(***************************************************************************)
(* The safety half of LatestSnapshotIsTaken: until a reset forgets a job   *)
(* under way, a window has at most one job, and its turn (processing) is   *)
(* held while it has: what arrives meanwhile waits for that job.           *)
(***************************************************************************)
OneTurn ==
    ~Confused => \A i, j \in Jobs :
        job[i].kind = "window" /\ job[j].kind = "window" => i = j /\ processing

THEOREM OneTurnAtATime == MirrorSpec => []OneTurn
<1>1. MirrorInv => OneTurn
  BY DEF MirrorInv, TurnInv, OneTurn
<1> QED
  BY <1>1, MirrorStays, PTL
=============================================================================
