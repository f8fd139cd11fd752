---------------------------- MODULE PersistenceProofs ----------------------------
(***************************************************************************)
(* Proofs about the files of the server: the operation journal, for every  *)
(* set of ids and digests and every capacity; the writes they all rest on; *)
(* the sessions of the web app, for any tokens and times; and the adapters *)
(* with their backups, for any number of each.                             *)
(***************************************************************************)
EXTENDS MCPersistence, FiniteSetTheorems, WellFoundedInduction, TLAPS

--------------------------------------------------------------------------------
(* What the store operators preserve.                                      *)

\* The empty store is sound: the journal starts from it.
LEMMA EmptySound == Sound(EmptyStore)
  BY JournalAssumption DEF Sound, EmptyStore, Stores, Loadable, Present

\* Changing the status of a record keeps a store sound.
LEMMA SetStatusSound ==
  ASSUME NEW s, Sound(s), NEW o \in Ops, Present(s, o), NEW st \in Statuses
  PROVE  Sound(SetStatus(s, o, st))
  BY DEF Sound, SetStatus, Stores, Loadable, Present, Statuses, Undispatched, Unresolved, Terminal

\* Inserting a record for an id without one, when there is room, keeps a store
\* sound.
LEMMA InsertSound ==
  ASSUME NEW s, Sound(s), NEW o \in Ops, NEW d \in Digests,
         ~Present(s, o), HasRoom(s)
  PROVE  Sound(Insert(s, o, d))
<1> DEFINE t == Insert(s, o, d)
<1>1. /\ t.order = Append(s.order, o)
      /\ t.status = [s.status EXCEPT ![o] = "recorded"]
      /\ t.digest = [s.digest EXCEPT ![o] = d]
  BY DEF Insert
<1>2. /\ s.order \in Seq(Ops) /\ s.status \in [Ops -> Statuses \cup {"absent"}]
      /\ s.digest \in [Ops -> Digests \cup {NoDigest}]
  BY DEF Sound, Stores
<1>3. /\ Len(t.order) = Len(s.order) + 1
      /\ t.order \in Seq(Ops)
      /\ \A i \in 1 .. Len(s.order) : t.order[i] = s.order[i]
      /\ t.order[Len(s.order) + 1] = o
      /\ Len(s.order) \in Nat
      /\ DOMAIN s.order = 1 .. Len(s.order)
      /\ DOMAIN t.order = 1 .. (Len(s.order) + 1)
  BY <1>1, <1>2
<1>4. t \in Stores
  BY <1>1, <1>2, <1>3 DEF Insert, Stores, Statuses, Undispatched
<1>5. \A i \in DOMAIN s.order : s.order[i] # o
  BY DEF Sound
<1>6. Loadable(t)
  <2>1. Len(t.order) <= MaxRecords
    BY <1>3, JournalAssumption DEF HasRoom
  <2>2. ASSUME NEW i \in DOMAIN t.order, NEW j \in DOMAIN t.order, i # j
        PROVE  t.order[i] # t.order[j]
    <3> DEFINE n == Len(s.order) + 1
    <3>1. CASE i = n
      BY <3>1, <2>2, <1>3, <1>5
    <3>2. CASE j = n
      BY <3>2, <2>2, <1>3, <1>5
    <3>3. CASE i # n /\ j # n
      <4>1. i \in DOMAIN s.order /\ j \in DOMAIN s.order
        BY <3>3, <1>3
      <4> QED BY <4>1, <2>2, <1>3 DEF Sound, Loadable
    <3> QED BY <3>1, <3>2, <3>3
  <2> QED BY <2>1, <2>2 DEF Loadable
<1>7. \A p \in Ops : Present(t, p) <=> \E i \in DOMAIN t.order : t.order[i] = p
  <2> TAKE p \in Ops
  <2>1. CASE p = o
    <3>1. Present(t, p)
      BY <2>1, <1>1, <1>2 DEF Present
    <3>2. Len(s.order) + 1 \in DOMAIN t.order /\ t.order[Len(s.order) + 1] = p
      BY <2>1, <1>3
    <3> QED BY <3>1, <3>2
  <2>2. CASE p # o
    <3>1. Present(t, p) <=> Present(s, p)
      BY <2>2, <1>1, <1>2 DEF Present
    <3>2. (\E i \in DOMAIN t.order : t.order[i] = p)
             <=> \E i \in DOMAIN s.order : s.order[i] = p
      BY <2>2, <1>3
    <3> QED BY <3>1, <3>2 DEF Sound
  <2> QED BY <2>1, <2>2
<1> QED BY <1>4, <1>6, <1>7 DEF Sound

\* Dropping a record keeps a store sound and makes room.
LEMMA DropSound ==
  ASSUME NEW s, Sound(s), NEW i \in DOMAIN s.order
  PROVE  /\ Sound(Drop(s, i))
         /\ HasRoom(Drop(s, i))
         /\ s.order[i] \in Ops
         /\ Drop(s, i).status = [s.status EXCEPT ![s.order[i]] = "absent"]
<1> DEFINE t == Drop(s, i)
           n == Len(s.order)
           src(k) == IF k < i THEN k ELSE k + 1
<1>1. /\ t.order = [k \in 1 .. (n - 1) |-> s.order[src(k)]]
      /\ t.status = [s.status EXCEPT ![s.order[i]] = "absent"]
      /\ t.digest = [s.digest EXCEPT ![s.order[i]] = NoDigest]
  BY DEF Drop
<1>2. /\ s.order \in Seq(Ops) /\ s.status \in [Ops -> Statuses \cup {"absent"}]
      /\ s.digest \in [Ops -> Digests \cup {NoDigest}]
      /\ n \in Nat /\ DOMAIN s.order = 1 .. n /\ i \in 1 .. n
      /\ n <= MaxRecords
  BY DEF Sound, Stores, Loadable
<1>3. \A k \in 1 .. (n - 1) : src(k) \in 1 .. n /\ src(k) # i
  BY <1>2
<1>4. \A k \in 1 .. n : s.order[k] \in Ops
  BY <1>2
<1>5. t.order \in Seq(Ops) /\ DOMAIN t.order = 1 .. (n - 1) /\ Len(t.order) = n - 1
  <2>1. t.order \in [1 .. (n - 1) -> Ops]
    BY <1>1, <1>3, <1>4
  <2>2. n - 1 \in Nat
    BY <1>2
  <2> QED BY <2>1, <2>2
<1>6. t \in Stores
  BY <1>1, <1>2, <1>4, <1>5 DEF Drop, Stores
<1>7. Loadable(t) /\ HasRoom(t)
  <2>1. Len(t.order) < MaxRecords
    BY <1>2, <1>5, JournalAssumption
  <2>2. ASSUME NEW j \in DOMAIN t.order, NEW k \in DOMAIN t.order, j # k
        PROVE  t.order[j] # t.order[k]
    <3>1. src(j) # src(k) /\ src(j) \in 1 .. n /\ src(k) \in 1 .. n
      BY <1>2, <1>5, <2>2
    <3>2. s.order[src(j)] # s.order[src(k)]
      BY <3>1, <1>2 DEF Sound, Loadable
    <3> QED BY <3>2, <1>1, <1>5
  <2> QED BY <2>1, <2>2, <1>5, <1>2, JournalAssumption DEF Loadable, HasRoom
<1>8. \A p \in Ops : Present(t, p) <=> \E k \in DOMAIN t.order : t.order[k] = p
  <2> TAKE p \in Ops
  <2>1. CASE p = s.order[i]
    <3>1. ~Present(t, p)
      BY <2>1, <1>1, <1>2 DEF Present
    <3>2. \A k \in 1 .. (n - 1) : s.order[src(k)] # s.order[i]
      BY <1>2, <1>3 DEF Sound, Loadable
    <3> QED BY <3>1, <3>2, <2>1, <1>1, <1>5
  <2>2. CASE p # s.order[i]
    <3>1. Present(t, p) <=> Present(s, p)
      BY <2>2, <1>1, <1>2 DEF Present
    <3>2. ASSUME NEW k \in 1 .. n, s.order[k] = p
          PROVE  \E m \in 1 .. (n - 1) : s.order[src(m)] = p
      <4>1. k # i
        BY <3>2, <2>2
      <4>2. CASE k < i
        BY <4>2, <3>2, <1>2
      <4>3. CASE k > i
        <5>1. k - 1 \in 1 .. (n - 1) /\ src(k - 1) = k
          BY <4>3, <1>2
        <5> QED BY <5>1, <3>2
      <4> QED BY <4>1, <4>2, <4>3, <1>2
    <3>3. (\E m \in 1 .. (n - 1) : s.order[src(m)] = p)
             <=> \E k \in 1 .. n : s.order[k] = p
      BY <3>2, <1>3
    <3> QED BY <3>1, <3>3, <1>1, <1>2, <1>5 DEF Sound
  <2> QED BY <2>1, <2>2
<1> QED BY <1>1, <1>2, <1>4, <1>6, <1>7, <1>8 DEF Sound

\* Recovery keeps a store sound, and recovering twice is recovering once.
LEMMA RecoverSound ==
  ASSUME NEW s, Sound(s)
  PROVE  Sound(Recover(s)) /\ Recover(Recover(s)) = Recover(s)
<1>1. /\ s.order \in Seq(Ops) /\ s.status \in [Ops -> Statuses \cup {"absent"}]
      /\ s.digest \in [Ops -> Digests \cup {NoDigest}]
      /\ s = [order |-> s.order, status |-> s.status, digest |-> s.digest]
  BY DEF Sound, Stores
<1>2. Sound(Recover(s))
  BY <1>1 DEF Sound, Recover, Stores, Loadable, Present, Statuses, Undispatched, Unresolved, Terminal
<1>3. Recover(Recover(s)) = Recover(s)
  BY <1>1 DEF Recover
<1> QED BY <1>2, <1>3

--------------------------------------------------------------------------------
(* Type correctness.                                                       *)

\* Whatever a commit does to memory and file, sound stores stay sound.
LEMMA CommitSound ==
  ASSUME Sound(journal), Sound(journalDisk), NEW next, Sound(next),
         Commits(next) \/ CommitFails(next)
  PROVE  Sound(journal') /\ Sound(journalDisk')
  BY EmptySound DEF Commits, CommitFails, FileAfterFailure

\* The journal only ever holds, in memory and on disk, a store of records with
\* distinct ids, at most MaxRecords of them, that the next start will accept.
THEOREM JournalTypeCorrect == JournalSpec => []JournalTypeOK
<1>1. JournalInit => JournalTypeOK
  BY EmptySound DEF JournalInit, JournalTypeOK
<1>2. JournalTypeOK /\ [JournalNext]_journalVars => JournalTypeOK'
  <2> SUFFICES ASSUME JournalTypeOK, [JournalNext]_journalVars
               PROVE  JournalTypeOK'
    OBVIOUS
  <2>0. /\ Sound(journal) /\ Sound(journalDisk)
        /\ journalUp \in BOOLEAN /\ begun \subseteq Ops
        /\ journal.status \in [Ops -> Statuses \cup {"absent"}]
    BY DEF JournalTypeOK, Sound, Stores
  <2>a. ASSUME NEW next, Sound(next), Commits(next) \/ CommitFails(next),
               journalUp' = journalUp, begun' \subseteq Ops
        PROVE  JournalTypeOK'
    BY <2>0, <2>a, CommitSound DEF JournalTypeOK
  <2>1. ASSUME NEW o \in Ops, NEW d \in Digests, NEW ok \in BOOLEAN, CreateWithRoom(o, d, ok)
        PROVE  JournalTypeOK'
    BY <2>0, <2>1, <2>a, InsertSound DEF CreateWithRoom, Commit, Write
  <2>2. ASSUME NEW o \in Ops, NEW d \in Digests, NEW ok \in BOOLEAN, CreateDroppingOldest(o, d, ok)
        PROVE  JournalTypeOK'
    <3>1. PICK i \in OldestDroppable(journal) :
             LET next == Insert(Drop(journal, i), o, d) IN
             /\ Commits(next) \/ CommitFails(next)
             /\ begun' = begun \ {journal.order[i]} \/ begun' = begun
      BY <2>2 DEF CreateDroppingOldest, Write
    <3>2. i \in DOMAIN journal.order
      BY DEF OldestDroppable, Droppable
    <3> DEFINE t == Drop(journal, i)
    <3>3. Sound(t) /\ HasRoom(t) /\ t.status = [journal.status EXCEPT ![journal.order[i]] = "absent"]
      BY <2>0, <3>2, DropSound
    <3>4. ~Present(t, o)
      BY <2>0, <2>2, <3>3 DEF Present, CreateDroppingOldest
    <3>5. Sound(Insert(t, o, d))
      BY <3>3, <3>4, InsertSound
    <3>6. begun' \subseteq Ops /\ journalUp' = journalUp
      BY <2>0, <2>2, <3>1 DEF CreateDroppingOldest, Write
    <3> QED BY <3>1, <3>5, <3>6, <2>a
  <2>3. ASSUME NEW o \in Ops, NEW st \in Statuses, Present(journal, o),
               Commits(SetStatus(journal, o, st)) \/ CommitFails(SetStatus(journal, o, st)),
               journalUp' = journalUp, begun' \subseteq Ops
        PROVE  JournalTypeOK'
    BY <2>0, <2>3, <2>a, SetStatusSound
  <2>4. ASSUME NEW o \in Ops, NEW ok \in BOOLEAN, MarkPending(o, ok) PROVE JournalTypeOK'
    BY <2>0, <2>3, <2>4 DEF MarkPending, Commit, Write, Statuses, Undispatched, Present
  <2>5. ASSUME NEW o \in Ops, NEW ok \in BOOLEAN, MarkDispatching(o, ok) PROVE JournalTypeOK'
    BY <2>0, <2>3, <2>5 DEF MarkDispatching, Write, Statuses, Undispatched, Unresolved, Present
  <2>6. ASSUME NEW o \in Ops, NEW ok \in BOOLEAN, MarkDispatched(o, ok) PROVE JournalTypeOK'
    BY <2>0, <2>3, <2>6 DEF MarkDispatched, Commit, Write, Statuses, Unresolved, Present
  <2>7. ASSUME NEW o \in Ops, NEW outcome \in {"confirmed", "failed", "unknown"},
               NEW ok \in BOOLEAN, Settle(o, outcome, ok)
        PROVE  JournalTypeOK'
    BY <2>0, <2>3, <2>7 DEF Settle, Commit, Write, Statuses, Undispatched, Unresolved, Terminal, Present
  <2>8. ASSUME NEW o \in Ops, NEW ok \in BOOLEAN, CancelPending(o, ok) PROVE JournalTypeOK'
    BY <2>0, <2>3, <2>8 DEF CancelPending, Commit, Write, Statuses, Undispatched, Terminal, Present
  <2>9. CASE JournalCrash
    BY <2>0, <2>9, EmptySound DEF JournalCrash, JournalTypeOK
  <2>10. CASE JournalRestart
    BY <2>0, <2>10, RecoverSound, EmptySound DEF JournalRestart, CommitFails, FileAfterFailure, JournalTypeOK
  <2>11. CASE UNCHANGED journalVars
    BY <2>0, <2>11 DEF journalVars, JournalTypeOK
  <2> QED
    BY <2>1, <2>2, <2>4, <2>5, <2>6, <2>7, <2>8, <2>9, <2>10, <2>11 DEF JournalNext
<1> QED BY <1>1, <1>2, PTL DEF JournalSpec

--------------------------------------------------------------------------------
(* Durability.  BegunIsDurable is not inductive: it needs to know how far  *)
(* a failed write can have taken the file from memory.                     *)

\* The status in the file is the one in memory, or the one an attempted change of
\* that record, or of the store's room, would have given it.
MayBeAhead(inMemory, inFile) ==
    \/ inFile = inMemory
    \/ inMemory = "absent" /\ inFile = "recorded"
    \/ /\ inMemory \in Undispatched
       /\ inFile \in {"pending", "dispatching", "failed", "cancelled"}
    \/ /\ inMemory \in Unresolved
       /\ inFile \in {"dispatched", "unknown", "confirmed", "failed"}
    \/ inMemory \in Terminal /\ inFile = "absent"

FileOneAhead ==
    journalUp => \A o \in Ops : MayBeAhead(journal.status[o], journalDisk.status[o])

DurableInv == JournalTypeOK /\ FileOneAhead /\ BegunIsDurable

\* A commit of a store one change ahead of memory keeps the file at most one
\* change ahead, where rename() replaces the old file.
LEMMA CommitKeepsDurable ==
  ASSUME ~UnlinkFallback, DurableInv, JournalTypeOK', journalUp, journalUp',
         NEW next,
         \A o \in Ops : MayBeAhead(journal.status[o], next.status[o]),
         \/ /\ Commits(next)
            /\ \A o \in begun' : /\ next.status[o] # "absent"
                                 /\ o \in begun \/ next.status[o] = "dispatching"
         \/ CommitFails(next) /\ begun' = begun
  PROVE  DurableInv'
<1>1. begun \subseteq Ops /\ begun' \subseteq Ops
  BY DEF DurableInv, JournalTypeOK
<1>2. FileOneAhead'
  BY DEF FileOneAhead, DurableInv, Commits, CommitFails, FileAfterFailure, MayBeAhead
<1>3. BegunIsDurable'
  <2>1. CASE Commits(next)
    BY <2>1, <1>1 DEF BegunIsDurable, DurableInv, Commits, CommitFails, FileAfterFailure, MayBeAhead,
                      Undispatched, Unresolved, Terminal
  <2>2. CASE CommitFails(next) /\ begun' = begun
    BY <2>2, <1>1 DEF BegunIsDurable, DurableInv, CommitFails, FileAfterFailure, MayBeAhead,
                      Undispatched, Unresolved, Terminal
  <2> QED BY <2>1, <2>2
<1> QED BY <1>2, <1>3 DEF DurableInv

\* The statuses a step of the journal moves a record to are one change ahead.
LEMMA SetStatusAhead ==
  ASSUME JournalTypeOK, NEW o \in Ops, NEW st \in Statuses,
         MayBeAhead(journal.status[o], st)
  PROVE  /\ \A p \in Ops : MayBeAhead(journal.status[p], SetStatus(journal, o, st).status[p])
         /\ SetStatus(journal, o, st).status[o] = st
         /\ \A p \in Ops : p # o =>
               SetStatus(journal, o, st).status[p] = journal.status[p]
  BY DEF SetStatus, MayBeAhead, JournalTypeOK, Sound, Stores

LEMMA DurableStep ==
  ASSUME ~UnlinkFallback
  PROVE  DurableInv /\ JournalTypeOK' /\ [JournalNext]_journalVars => DurableInv'
<1> SUFFICES ASSUME DurableInv, JournalTypeOK', [JournalNext]_journalVars
             PROVE  DurableInv'
  OBVIOUS
<1>0. /\ Sound(journal) /\ Sound(journalDisk) /\ begun \subseteq Ops
      /\ journalUp \in BOOLEAN
      /\ journal.status \in [Ops -> Statuses \cup {"absent"}]
      /\ journalDisk.status \in [Ops -> Statuses \cup {"absent"}]
      /\ JournalTypeOK
      /\ journalUp => \A o \in begun : journal.status[o] \in Unresolved \cup {"confirmed", "failed"}
  BY DEF DurableInv, JournalTypeOK, Sound, Stores, BegunIsDurable
<1>a. ASSUME NEW o \in Ops, NEW st \in Statuses, MayBeAhead(journal.status[o], st),
             journalUp, journalUp', begun' = begun,
             LET next == SetStatus(journal, o, st) IN Commits(next) \/ CommitFails(next)
      PROVE  DurableInv'
  <2> DEFINE next == SetStatus(journal, o, st)
  <2>1. \A p \in begun : next.status[p] # "absent"
    BY <1>0, <1>a, SetStatusAhead DEF Statuses, Undispatched, Unresolved, Terminal
  <2> QED BY <2>1, <1>0, <1>a, SetStatusAhead, CommitKeepsDurable
<1>1. ASSUME NEW o \in Ops, NEW d \in Digests, NEW ok \in BOOLEAN, CreateWithRoom(o, d, ok)
      PROVE  DurableInv'
  <2> DEFINE next == Insert(journal, o, d)
  <2>1. \A p \in Ops : next.status[p] = IF p = o THEN "recorded" ELSE journal.status[p]
    BY <1>0 DEF Insert
  <2>2. \A p \in Ops : MayBeAhead(journal.status[p], next.status[p])
    BY <2>1, <1>1 DEF CreateWithRoom, Present, MayBeAhead
  <2>3. \A p \in begun : next.status[p] # "absent"
    BY <2>1, <1>0, <1>1 DEF CreateWithRoom, Unresolved
  <2>4. journalUp /\ journalUp' /\ begun' = begun /\ (Commits(next) \/ CommitFails(next))
    BY <1>1 DEF CreateWithRoom, Commit, Write
  <2> QED BY <2>2, <2>3, <2>4, CommitKeepsDurable
<1>2. ASSUME NEW o \in Ops, NEW d \in Digests, NEW ok \in BOOLEAN, CreateDroppingOldest(o, d, ok)
      PROVE  DurableInv'
  <2>1. PICK i \in OldestDroppable(journal) :
           LET next == Insert(Drop(journal, i), o, d) IN
           \/ Commits(next) /\ begun' = begun \ {journal.order[i]}
           \/ CommitFails(next) /\ begun' = begun
    BY <1>2 DEF CreateDroppingOldest, Write
  <2> DEFINE v == journal.order[i]
             t == Drop(journal, i)
             next == Insert(t, o, d)
  <2>2. /\ journal.status[v] \in Terminal
        /\ i \in DOMAIN journal.order
    BY DEF OldestDroppable, Droppable
  <2>3. v \in Ops /\ t.status = [journal.status EXCEPT ![v] = "absent"]
    BY <2>2, <1>0, DropSound
  <2>4. journal.status[o] = "absent" /\ o # v /\ journalUp /\ journalUp'
    BY <1>2, <2>2 DEF CreateDroppingOldest, Present, Terminal
  <2>5. \A p \in Ops : next.status[p] = IF p = o THEN "recorded"
                                       ELSE IF p = v THEN "absent"
                                       ELSE journal.status[p]
    BY <2>3, <2>4, <1>0 DEF Insert
  <2>6. \A p \in Ops : MayBeAhead(journal.status[p], next.status[p])
    BY <2>2, <2>4, <2>5 DEF MayBeAhead
  <2>7. \A p \in begun \ {v} : next.status[p] # "absent"
    BY <2>5, <2>4, <1>0 DEF Unresolved
  <2> QED BY <2>1, <2>4, <2>6, <2>7, CommitKeepsDurable
<1>3. ASSUME NEW o \in Ops, NEW ok \in BOOLEAN, MarkPending(o, ok) PROVE DurableInv'
  BY <1>3, <1>a DEF MarkPending, Commit, Write, MayBeAhead, Statuses, Undispatched
<1>4. ASSUME NEW o \in Ops, NEW ok \in BOOLEAN, MarkDispatching(o, ok) PROVE DurableInv'
  <2> DEFINE next == SetStatus(journal, o, "dispatching")
  <2>1. MayBeAhead(journal.status[o], "dispatching") /\ "dispatching" \in Statuses
    BY <1>4 DEF MarkDispatching, Write, MayBeAhead, Statuses, Undispatched, Unresolved
  <2>2. \A p \in begun : next.status[p] # "absent"
    BY <1>0, <1>4, <2>1, SetStatusAhead DEF MarkDispatching, Unresolved
  <2>3. next.status[o] = "dispatching"
    BY <1>0, <2>1, SetStatusAhead
  <2>4. /\ journalUp /\ journalUp'
        /\ \/ Commits(next) /\ begun' = begun \cup {o}
           \/ CommitFails(next) /\ begun' = begun
    BY <1>4 DEF MarkDispatching, Write
  <2> HIDE DEF next
  <2>5. \A p \in Ops : MayBeAhead(journal.status[p], next.status[p])
    BY <1>0, <2>1, SetStatusAhead DEF next
  <2> QED BY <2>2, <2>3, <2>4, <2>5, CommitKeepsDurable
<1>5. ASSUME NEW o \in Ops, NEW ok \in BOOLEAN, MarkDispatched(o, ok) PROVE DurableInv'
  BY <1>5, <1>a DEF MarkDispatched, Commit, Write, MayBeAhead, Statuses, Unresolved
<1>6. ASSUME NEW o \in Ops, NEW outcome \in {"confirmed", "failed", "unknown"},
             NEW ok \in BOOLEAN, Settle(o, outcome, ok)
      PROVE  DurableInv'
  BY <1>6, <1>a DEF Settle, Commit, Write, MayBeAhead, Statuses, Undispatched, Unresolved, Terminal
<1>7. ASSUME NEW o \in Ops, NEW ok \in BOOLEAN, CancelPending(o, ok) PROVE DurableInv'
  BY <1>7, <1>a DEF CancelPending, Commit, Write, MayBeAhead, Statuses, Undispatched, Terminal
<1>8. CASE JournalCrash
  BY <1>8, <1>0 DEF JournalCrash, DurableInv, FileOneAhead, BegunIsDurable, Present, Terminal
<1>9. CASE JournalRestart
  <2>1. \A o \in Ops : Recover(journalDisk).status[o] =
            IF journalDisk.status[o] = "recorded" THEN "cancelled"
            ELSE IF journalDisk.status[o] \in {"pending", "dispatching", "dispatched"}
                 THEN "unknown" ELSE journalDisk.status[o]
    BY <1>0 DEF Recover, Sound, Stores
  <2>2. \A o \in begun : Recover(journalDisk).status[o] \in Unresolved \cup {"confirmed", "failed"}
    BY <1>0, <1>9, <2>1 DEF DurableInv, BegunIsDurable, JournalRestart, Unresolved
  <2>3. FileOneAhead'
    BY <1>9 DEF JournalRestart, FileOneAhead, MayBeAhead
  <2>4. BegunIsDurable'
    BY <1>9, <2>2 DEF JournalRestart, CommitFails, FileAfterFailure, DurableInv, BegunIsDurable
  <2> QED BY <2>3, <2>4 DEF DurableInv
<1>10. CASE UNCHANGED journalVars
  BY <1>10 DEF journalVars, DurableInv, FileOneAhead, BegunIsDurable
<1> QED
  BY <1>1, <1>2, <1>3, <1>4, <1>5, <1>6, <1>7, <1>8, <1>9, <1>10 DEF JournalNext

\* Where rename() replaces the old file, an operation whose dispatch was authorised
\* can never be authorised or cancelled again, in memory or from the file, for any
\* interleaving of calls, failed writes, crashes and restarts.
THEOREM BegunDurable ==
  ASSUME ~UnlinkFallback
  PROVE  JournalSpec => []BegunIsDurable
<1>1. JournalInit => FileOneAhead /\ BegunIsDurable
  BY DEF JournalInit, FileOneAhead, BegunIsDurable, MayBeAhead
<1>2. DurableInv /\ JournalTypeOK' /\ [JournalNext]_journalVars => DurableInv'
  BY DurableStep
<1>3. DurableInv <=> JournalTypeOK /\ FileOneAhead /\ BegunIsDurable
  BY DEF DurableInv
<1> QED BY <1>1, <1>2, <1>3, JournalTypeCorrect, PTL DEF JournalSpec

--------------------------------------------------------------------------------
(* What the process knows: how one step of the journal can move the statuses, *)
(* seen through the recovery that a restart will apply.  Both the action      *)
(* property and the refinement are read off this summary.                     *)

\* The moves of one record that the journal's methods make.
Moves(from, to) ==
    \/ from \in Undispatched /\ to \in {"pending", "dispatching", "failed", "cancelled"}
    \/ from = "dispatching" /\ to \in {"dispatching", "dispatched", "unknown", "confirmed", "failed"}
    \/ from \in {"dispatched", "unknown"} /\ to \in {"dispatched", "unknown", "confirmed", "failed"}

\* What recovery may make of a status, the file being at most one change ahead.
Survives(from, to) ==
    \/ from = "absent" /\ to \in {"absent", "cancelled"}
    \/ from \in Undispatched /\ to \in {"unknown", "failed", "cancelled"}
    \/ from \in Unresolved /\ to \in {"unknown", "confirmed", "failed"}
    \/ from \in Terminal /\ to \in {from, "absent"}

\* `o` gained a record, and only records with an outcome made way for it.
Added(was, is, o) ==
    /\ was[o] = "absent" /\ is[o] = "recorded"
    /\ \A p \in Ops \ {o} : is[p] = was[p] \/ (was[p] \in Terminal /\ is[p] = "absent")

KnownStatus == KnownStore.status

\* One step, in what the process knows.
KnownMoves ==
    \/ KnownStatus' = KnownStatus
    \/ \E o \in Ops, st \in Statuses :
          /\ Moves(KnownStatus[o], st)
          /\ KnownStatus' = [KnownStatus EXCEPT ![o] = st]
    \/ \E o \in Ops : Added(KnownStatus, KnownStatus', o)
    \/ \A o \in Ops : Survives(KnownStatus[o], KnownStatus'[o])

\* What a restart makes of each status it finds.
LEMMA RecoverStatus ==
  ASSUME NEW s, Sound(s)
  PROVE  Recover(s).status =
            [o \in Ops |-> IF s.status[o] = "recorded" THEN "cancelled"
                           ELSE IF s.status[o] \in {"pending", "dispatching", "dispatched"}
                                THEN "unknown" ELSE s.status[o]]
  BY DEF Recover, Sound, Stores

\* The known statuses are statuses.
LEMMA KnownTyped ==
  ASSUME JournalTypeOK
  PROVE  KnownStatus \in [Ops -> Statuses \cup {"absent"}]
<1>1. Sound(journal) /\ Sound(journalDisk)
  BY DEF JournalTypeOK
<1>2. Sound(Recover(journalDisk))
  BY <1>1, RecoverSound
<1> QED BY <1>1, <1>2 DEF KnownStatus, KnownStore, Sound, Stores

\* Every step of the journal moves what the process knows as KnownMoves says.
LEMMA KnownStep ==
  ASSUME ~UnlinkFallback, DurableInv, JournalTypeOK', [JournalNext]_journalVars
  PROVE  KnownMoves
<1>0. /\ Sound(journal) /\ Sound(journalDisk)
      /\ journal.status \in [Ops -> Statuses \cup {"absent"}]
      /\ journalDisk.status \in [Ops -> Statuses \cup {"absent"}]
      /\ JournalTypeOK
  BY DEF DurableInv, JournalTypeOK, Sound, Stores
<1>1. ASSUME journalUp, journalUp', journal' = journal
      PROVE  KnownMoves
  BY <1>1 DEF KnownMoves, KnownStatus, KnownStore
<1>2. ASSUME NEW o \in Ops, NEW st \in Statuses, Moves(journal.status[o], st),
             journalUp, journalUp',
             Commits(SetStatus(journal, o, st)) \/ CommitFails(SetStatus(journal, o, st))
      PROVE  KnownMoves
  <2>1. CASE Commits(SetStatus(journal, o, st))
    <3>1. journal'.status = [journal.status EXCEPT ![o] = st]
      BY <2>1, <1>0 DEF Commits, SetStatus, Sound, Stores
    <3> QED BY <3>1, <1>2 DEF KnownMoves, KnownStatus, KnownStore
  <2>2. CASE CommitFails(SetStatus(journal, o, st))
    BY <2>2, <1>1, <1>2 DEF CommitFails
  <2> QED BY <2>1, <2>2, <1>2
<1>3. ASSUME NEW o \in Ops, NEW next, journalUp, journalUp',
             Commits(next) \/ CommitFails(next),
             Added(journal.status, next.status, o)
      PROVE  KnownMoves
  <2>1. CASE Commits(next)
    BY <2>1, <1>3 DEF Commits, KnownMoves, KnownStatus, KnownStore
  <2>2. CASE CommitFails(next)
    BY <2>2, <1>1, <1>3 DEF CommitFails
  <2> QED BY <2>1, <2>2, <1>3
<1>4. ASSUME NEW o \in Ops, NEW d \in Digests, NEW ok \in BOOLEAN, CreateWithRoom(o, d, ok)
      PROVE  KnownMoves
  <2> DEFINE next == Insert(journal, o, d)
  <2>1. Added(journal.status, next.status, o)
    BY <1>0, <1>4 DEF Insert, Added, CreateWithRoom, Present
  <2>2. journalUp /\ journalUp' /\ (Commits(next) \/ CommitFails(next))
    BY <1>4 DEF CreateWithRoom, Commit, Write
  <2> QED BY <2>1, <2>2, <1>3
<1>5. ASSUME NEW o \in Ops, NEW d \in Digests, NEW ok \in BOOLEAN, CreateDroppingOldest(o, d, ok)
      PROVE  KnownMoves
  <2>1. PICK i \in OldestDroppable(journal) :
           LET next == Insert(Drop(journal, i), o, d) IN Commits(next) \/ CommitFails(next)
    BY <1>5 DEF CreateDroppingOldest, Write
  <2> DEFINE v == journal.order[i]
             next == Insert(Drop(journal, i), o, d)
  <2>2. journal.status[v] \in Terminal /\ i \in DOMAIN journal.order
    BY DEF OldestDroppable, Droppable
  <2>3. v \in Ops /\ Drop(journal, i).status = [journal.status EXCEPT ![v] = "absent"]
    BY <2>2, <1>0, DropSound
  <2>4. journal.status[o] = "absent" /\ o # v /\ journalUp /\ journalUp'
    BY <1>5, <2>2 DEF CreateDroppingOldest, Present, Terminal
  <2>5. Added(journal.status, next.status, o)
    BY <2>2, <2>3, <2>4, <1>0 DEF Insert, Added
  <2> QED BY <2>1, <2>4, <2>5, <1>3
<1>6. ASSUME NEW o \in Ops, NEW ok \in BOOLEAN,
             \/ MarkPending(o, ok) \/ MarkDispatching(o, ok) \/ MarkDispatched(o, ok)
             \/ \E outcome \in {"confirmed", "failed", "unknown"} : Settle(o, outcome, ok)
             \/ CancelPending(o, ok)
      PROVE  KnownMoves
  <2>1. PICK st \in Statuses :
           /\ Moves(journal.status[o], st)
           /\ Commits(SetStatus(journal, o, st)) \/ CommitFails(SetStatus(journal, o, st))
    <3> USE DEF Commit, Write, Moves, Statuses, Undispatched, Unresolved, Terminal
    <3>1. CASE MarkPending(o, ok)
      BY <3>1 DEF MarkPending
    <3>2. CASE MarkDispatching(o, ok)
      BY <3>2 DEF MarkDispatching
    <3>3. CASE MarkDispatched(o, ok)
      BY <3>3 DEF MarkDispatched
    <3>4. CASE \E outcome \in {"confirmed", "failed", "unknown"} : Settle(o, outcome, ok)
      BY <3>4 DEF Settle
    <3>5. CASE CancelPending(o, ok)
      BY <3>5 DEF CancelPending
    <3> QED BY <1>6, <3>1, <3>2, <3>3, <3>4, <3>5
  <2>2. journalUp /\ journalUp'
    BY <1>6 DEF MarkPending, MarkDispatching, MarkDispatched, Settle, CancelPending, Commit
  <2> QED BY <2>1, <2>2, <1>2
<1>7. CASE JournalCrash
  <2>1. KnownStatus = journal.status /\ KnownStatus' = Recover(journalDisk).status
    BY <1>7 DEF JournalCrash, KnownStatus, KnownStore, Recover
  <2>2. ASSUME NEW o \in Ops
        PROVE  Survives(journal.status[o], Recover(journalDisk).status[o])
    <3>1. MayBeAhead(journal.status[o], journalDisk.status[o])
      BY <1>7 DEF JournalCrash, DurableInv, FileOneAhead
    <3> DEFINE disk == journalDisk.status[o]
    <3>2. Recover(journalDisk).status[o] =
             IF disk = "recorded" THEN "cancelled"
             ELSE IF disk \in {"pending", "dispatching", "dispatched"} THEN "unknown" ELSE disk
      BY <1>0, RecoverStatus
    <3>3. journal.status[o] \in Statuses \cup {"absent"}
      BY <1>0
    <3> QED BY <3>1, <3>2, <3>3 DEF MayBeAhead, Survives, Statuses, Undispatched, Unresolved, Terminal
  <2> QED BY <2>1, <2>2 DEF KnownMoves
<1>8. CASE JournalRestart
  <2>1. KnownStatus = Recover(journalDisk).status
    BY <1>8 DEF JournalRestart, KnownStatus, KnownStore
  <2>2. CASE journalUp' /\ journal' = Recover(journalDisk)
    BY <2>1, <2>2 DEF KnownMoves, KnownStatus, KnownStore
  <2>3. CASE ~journalUp' /\ journalDisk' \in {journalDisk, Recover(journalDisk)}
    BY <2>1, <2>3, <1>0, RecoverSound DEF KnownMoves, KnownStatus, KnownStore
  <2> QED BY <1>8, <2>2, <2>3 DEF JournalRestart, CommitFails, FileAfterFailure
<1>9. CASE UNCHANGED journalVars
  BY <1>9 DEF journalVars, KnownMoves, KnownStatus, KnownStore
<1> QED BY <1>4, <1>5, <1>6, <1>7, <1>8, <1>9 DEF JournalNext

\* The strengthened invariant holds throughout.
LEMMA DurableInvHolds ==
  ASSUME ~UnlinkFallback
  PROVE  JournalSpec => []DurableInv
<1>1. JournalInit => FileOneAhead /\ BegunIsDurable
  BY DEF JournalInit, FileOneAhead, BegunIsDurable, MayBeAhead
<1>2. DurableInv /\ JournalTypeOK' /\ [JournalNext]_journalVars => DurableInv'
  BY DurableStep
<1>3. DurableInv <=> JournalTypeOK /\ FileOneAhead /\ BegunIsDurable
  BY DEF DurableInv
<1> QED BY <1>1, <1>2, <1>3, JournalTypeCorrect, PTL DEF JournalSpec

--------------------------------------------------------------------------------
(* The action property and the refinement.                                    *)

\* Where rename() replaces the old file, a record whose outcome is not known is
\* never dropped, reset by a restart or overwritten by anything but an outcome,
\* for any number of ids and any capacity.
THEOREM UnresolvedSettles ==
  ASSUME ~UnlinkFallback
  PROVE  JournalSpec => UnresolvedOnlySettles
<1>1. ASSUME DurableInv, JournalTypeOK', [JournalNext]_journalVars
      PROVE  [\A o \in Ops : KnownStore.status[o] \in Unresolved =>
                 KnownStore.status[o]' \in Unresolved \cup {"confirmed", "failed"}]_journalVars
  <2>1. KnownMoves
    BY <1>1, KnownStep
  <2>2. KnownStatus \in [Ops -> Statuses \cup {"absent"}]
    BY <1>1, KnownTyped DEF DurableInv
  <2>3. ASSUME NEW o \in Ops, KnownStatus[o] \in Unresolved
        PROVE  KnownStatus'[o] \in Unresolved \cup {"confirmed", "failed"}
    BY <2>1, <2>2, <2>3
    DEF KnownMoves, Moves, Added, Survives, Undispatched, Unresolved, Terminal
  <2> QED BY <2>3 DEF KnownStatus
<1> QED BY <1>1, DurableInvHolds, JournalTypeCorrect, PTL DEF JournalSpec, UnresolvedOnlySettles

\* The phase of each status.
LEMMA PhaseOfStatus ==
  /\ PhaseOf("absent") = "absent"
  /\ \A st \in Undispatched : PhaseOf(st) = "undispatched"
  /\ PhaseOf("dispatching") = "inflight"
  /\ \A st \in {"dispatched", "unknown"} : PhaseOf(st) = "uncertain"
  /\ \A st \in Terminal : PhaseOf(st) = "done"
  BY DEF PhaseOf, Undispatched, Terminal

\* Every move of the known statuses is a step of the ledger, or none.
LEMMA LedgerStep ==
  ASSUME KnownStatus \in [Ops -> Statuses \cup {"absent"}],
         KnownStatus' \in [Ops -> Statuses \cup {"absent"}],
         KnownMoves
  PROVE  [Ledger!LedgerNext]_KnownPhases
<1>0. /\ KnownPhases = [o \in Ops |-> PhaseOf(KnownStatus[o])]
      /\ KnownPhases' = [o \in Ops |-> PhaseOf(KnownStatus'[o])]
  BY DEF KnownStatus, KnownPhases
<1>1. CASE KnownStatus' = KnownStatus
  BY <1>0, <1>1
<1>2. ASSUME NEW o \in Ops, NEW st \in Statuses,
             Moves(KnownStatus[o], st), KnownStatus' = [KnownStatus EXCEPT ![o] = st]
      PROVE  [Ledger!LedgerNext]_KnownPhases
  <2>1. KnownPhases' = [KnownPhases EXCEPT ![o] = PhaseOf(st)]
    BY <1>0, <1>2
  <2>2. CASE KnownStatus[o] \in Undispatched
    <3>1. KnownPhases[o] = "undispatched"
      BY <1>0, <2>2, PhaseOfStatus
    <3>2. CASE st = "pending"
      BY <1>0, <2>1, <3>1, <3>2, PhaseOfStatus DEF Undispatched
    <3>3. CASE st = "dispatching"
      BY <2>1, <3>1, <3>3, PhaseOfStatus DEF Ledger!Begin, Ledger!LedgerNext
    <3>4. CASE st \in Terminal
      BY <2>1, <3>1, <3>4, PhaseOfStatus DEF Ledger!Resolve, Ledger!LedgerNext
    <3> QED BY <1>2, <2>2, <3>2, <3>3, <3>4 DEF Moves, Undispatched, Terminal
  <2>3. CASE KnownStatus[o] \in Unresolved
    <3>1. KnownPhases[o] \in {"inflight", "uncertain"}
      BY <1>0, <2>3, PhaseOfStatus DEF Unresolved
    <3>2. CASE st = "dispatching"
      <4>1. KnownStatus[o] = "dispatching"
        BY <3>2, <2>3, <1>2 DEF Moves, Undispatched, Unresolved
      <4> QED BY <4>1, <1>0, <2>1, <3>2
    <3>3. CASE st \in {"dispatched", "unknown"}
      BY <2>1, <3>1, <3>3, PhaseOfStatus DEF Ledger!Resolve, Ledger!LedgerNext
    <3>4. CASE st \in Terminal
      BY <2>1, <3>1, <3>4, PhaseOfStatus DEF Ledger!Resolve, Ledger!LedgerNext
    <3> QED BY <1>2, <2>3, <3>2, <3>3, <3>4 DEF Moves, Undispatched, Unresolved, Terminal
  <2> QED BY <1>2, <2>2, <2>3 DEF Moves, Unresolved
<1>3. ASSUME NEW o \in Ops, Added(KnownStatus, KnownStatus', o)
      PROVE  [Ledger!LedgerNext]_KnownPhases
  <2> DEFINE forgotten == {p \in Ops : KnownStatus[p] \in Terminal /\ KnownStatus'[p] = "absent"}
  <2>1. forgotten \in SUBSET {p \in Ops : KnownPhases[p] = "done"}
    BY <1>0, PhaseOfStatus
  <2>2. KnownPhases[o] = "absent"
    BY <1>0, <1>3, PhaseOfStatus DEF Added
  <2>3. \A p \in Ops : PhaseOf(KnownStatus'[p]) =
           IF p = o THEN "undispatched" ELSE IF p \in forgotten THEN "absent" ELSE KnownPhases[p]
    BY <1>0, <1>3, PhaseOfStatus DEF Added, Undispatched
  <2>4. KnownPhases' = [p \in Ops |-> IF p = o THEN "undispatched"
                                      ELSE IF p \in forgotten THEN "absent"
                                      ELSE KnownPhases[p]]
    BY <1>0, <2>3
  <2> HIDE DEF forgotten
  <2> QED BY <2>1, <2>2, <2>4 DEF Ledger!Accept, Ledger!LedgerNext
<1>4. CASE \A o \in Ops : Survives(KnownStatus[o], KnownStatus'[o])
  <2>1. ASSUME NEW o \in Ops
        PROVE  /\ KnownPhases'[o] \in Ledger!Phases
               /\ KnownPhases'[o] \in Ledger!AfterCrash(KnownPhases[o])
    <3>1. KnownPhases[o] = PhaseOf(KnownStatus[o]) /\ KnownPhases'[o] = PhaseOf(KnownStatus'[o])
      BY <1>0
    <3>2. Survives(KnownStatus[o], KnownStatus'[o])
      BY <1>4
    <3>3. CASE KnownStatus[o] = "absent"
      BY <3>1, <3>2, <3>3, PhaseOfStatus
      DEF Survives, Ledger!Phases, Ledger!AfterCrash, Undispatched, Unresolved, Terminal
    <3>4. CASE KnownStatus[o] \in Undispatched
      BY <3>1, <3>2, <3>4, PhaseOfStatus
      DEF Survives, Ledger!Phases, Ledger!AfterCrash, Undispatched, Unresolved, Terminal
    <3>5. CASE KnownStatus[o] \in Unresolved
      BY <3>1, <3>2, <3>5, PhaseOfStatus
      DEF Survives, Ledger!Phases, Ledger!AfterCrash, Undispatched, Unresolved, Terminal
    <3>6. CASE KnownStatus[o] \in Terminal
      BY <3>1, <3>2, <3>6, PhaseOfStatus
      DEF Survives, Ledger!Phases, Ledger!AfterCrash, Undispatched, Unresolved, Terminal
    <3> QED BY <3>2, <3>3, <3>4, <3>5, <3>6 DEF Survives
  <2>2. KnownPhases' \in [Ops -> Ledger!Phases]
    BY <1>0, <2>1
  <2> QED BY <2>1, <2>2 DEF Ledger!CrashAndRecover, Ledger!LedgerNext
<1> QED BY <1>1, <1>2, <1>3, <1>4 DEF KnownMoves

\* Where rename() replaces the old file, the journal implements the ledger: through
\* write failures, compaction, crashes and restarts, no operation that may have
\* begun is ever one that may begin, and only one with an outcome is forgotten.
THEOREM JournalImplementsLedger ==
  ASSUME ~UnlinkFallback
  PROVE  JournalSpec => ImplementsLedger
<1>1. JournalInit => Ledger!LedgerInit
  BY PhaseOfStatus DEF JournalInit, Ledger!LedgerInit, KnownPhases, KnownStore, EmptyStore
<1>2. DurableInv /\ JournalTypeOK' /\ [JournalNext]_journalVars
         => [Ledger!LedgerNext]_KnownPhases
  <2> SUFFICES ASSUME DurableInv, JournalTypeOK', [JournalNext]_journalVars
               PROVE  [Ledger!LedgerNext]_KnownPhases
    OBVIOUS
  <2>1. KnownStatus \in [Ops -> Statuses \cup {"absent"}]
    BY KnownTyped DEF DurableInv
  <2>2. KnownStatus' \in [Ops -> Statuses \cup {"absent"}]
    <3>1. Sound(journal') /\ Sound(journalDisk')
      BY DEF JournalTypeOK
    <3>2. Sound(Recover(journalDisk'))
      BY <3>1, RecoverSound
    <3> QED BY <3>1, <3>2 DEF KnownStatus, KnownStore, Sound, Stores
  <2> QED BY <2>1, <2>2, KnownStep, LedgerStep
<1> QED
  BY <1>1, <1>2, DurableInvHolds, JournalTypeCorrect, PTL
  DEF JournalSpec, ImplementsLedger, Ledger!LedgerSpec

--------------------------------------------------------------------------------
(* One file: what the system calls of writeFileAtomic leave.               *)

\* What a write that failed may leave for readers.
Left == {old, written, Absent}

\* Until the rename nothing of the old file is touched; a strict write renames only
\* what is on the disk; and what a power loss may bring back is what it might have
\* before, what was written, or nothing.
FileInv ==
    /\ pc \in {"idle", "writeTemp", "syncTemp", "rename", "unlink", "renameAgain", "syncDir"}
    /\ pc # "idle" => result = "none"
    /\ pc \in {"writeTemp", "syncTemp", "rename", "unlink"} => file = old /\ images = before
    /\ pc = "renameAgain" => file \in {old, Absent} /\ images \subseteq before \cup {Absent}
    /\ pc = "syncDir" => strict /\ file = written
    /\ strict /\ pc \in {"rename", "unlink", "renameAgain", "syncDir"} => synced
    /\ strict /\ result = "returned" => file = written /\ images = {written}
    /\ strict /\ result # "returned" => images \subseteq Left \cup before
    /\ result \in {"threw", "died"} => file \in Left
    /\ strict /\ result = "lost" => file \in Left \cup before

\* The file's invariant holds at first, also of the parts without a file.
LEMMA FileInitInv == Init => FileInv
<1> SUFFICES ASSUME Init PROVE FileInv
  OBVIOUS
<1>1. CASE NoFile
  BY <1>1 DEF NoFile, FileInv, Left
<1>2. CASE F!FileInit
  BY <1>2 DEF F!FileInit, FileInv, Left
<1> QED BY <1>1, <1>2 DEF Init

\* Every system call, and every death of the process or the machine, keeps it.
LEMMA FileStepInv == ASSUME FileInv, F!FileNext PROVE FileInv'
<1> USE DEF FileInv, Left
<1>1. ASSUME NEW v \in Values, F!StartWrite(v) PROVE FileInv'
  BY <1>1 DEF F!StartWrite
<1>2. ASSUME NEW ok \in BOOLEAN, F!WriteTemp(ok) PROVE FileInv'
  BY <1>2 DEF F!WriteTemp, F!Throw
<1>3. ASSUME NEW ok \in BOOLEAN, F!SyncTemp(ok) PROVE FileInv'
  BY <1>3 DEF F!SyncTemp, F!Throw
<1>4. ASSUME NEW ok \in BOOLEAN, F!Rename(ok) PROVE FileInv'
  BY <1>4 DEF F!Rename, F!Renamed, F!MayPersist, F!Throw
<1>5. ASSUME NEW ok \in BOOLEAN, F!Unlink(ok) PROVE FileInv'
  BY <1>5 DEF F!Unlink, F!Throw
<1>6. ASSUME NEW ok \in BOOLEAN, F!RenameAgain(ok) PROVE FileInv'
  BY <1>6 DEF F!RenameAgain, F!Renamed, F!MayPersist, F!Throw
<1>7. ASSUME NEW ok \in BOOLEAN, F!SyncDir(ok) PROVE FileInv'
  BY <1>7 DEF F!SyncDir, F!MayPersist, F!Throw
<1>8. CASE F!RenameRefused
  BY <1>8 DEF F!RenameRefused
<1>9. CASE F!Die
  BY <1>9 DEF F!Die
<1>10. CASE F!LosePower
  BY <1>10 DEF F!LosePower
<1> QED
  BY <1>1, <1>2, <1>3, <1>4, <1>5, <1>6, <1>7, <1>8, <1>9, <1>10 DEF F!FileNext

\* A strict write that returned is on the disk, whatever failed in the writes before
\* it; one that threw or was cut short leaves what Persist lets the other modules
\* assume (persist.ts, writeFileAtomic).
THEOREM WritesLeaveWhatTheyMay == Spec => []WritesKeepTheirPromise
<1>1. FileInv /\ [Next]_vars => FileInv'
  <2> SUFFICES ASSUME FileInv, [Next]_vars PROVE FileInv'
    OBVIOUS
  <2>1. CASE UNCHANGED fileVars
    BY <2>1 DEF fileVars, FileInv, Left
  <2>2. CASE F!FileNext
    BY <2>2, FileStepInv
  <2> QED BY <2>1, <2>2 DEF Next, vars
<1>2. FileInv => WritesKeepTheirPromise
  BY DEF FileInv, Left, WritesKeepTheirPromise, F!ReturnedIsDurable, F!OutcomesAsAssumed, F!FileAfterFailure
<1> QED BY <1>1, <1>2, FileInitInv, PTL DEF Spec

--------------------------------------------------------------------------------
(* The sessions of the web app.                                            *)

SessionRecords == [created : Nat, seen : Nat]

Rolls == UNION {[S -> SessionRecords] : S \in SUBSET Tokens}

\* The use of `t` that the file does not know of yet waits for a timer that is set.
Awaited(t) == dirty /\ timer # 0 /\ sessions[t].seen >= lastPersist

InStep ==
    /\ DOMAIN saved = DOMAIN sessions
    /\ \A t \in DOMAIN sessions :
          /\ saved[t].created = sessions[t].created
          /\ saved[t].seen # sessions[t].seen => Awaited(t)

\* A timer is set for the end of the interval that the latest write began.
SessionInv ==
    /\ now \in Nat /\ lastPersist \in 0..now
    /\ sessions \in Rolls /\ saved \in Rolls
    /\ timer # 0 => timer = lastPersist + PersistInterval /\ now <= timer
    /\ unsaved \/ InStep

\* Keeping some of the sessions.
LEMMA OnlyRolls ==
  ASSUME NEW s \in Rolls, NEW kept \in SUBSET DOMAIN s
  PROVE  W!Only(s, kept) \in Rolls
  BY DEF Rolls, W!Only

LEMMA NoSessionsRoll == W!NoSessions \in Rolls
  BY DEF Rolls, W!NoSessions

\* A save leaves the file in step with what it wrote, or says that it failed.
LEMMA SaveInv ==
  ASSUME SessionInv, NEW s \in Rolls, NEW flag, W!Save(s, flag), sessions' = s, timer' = 0, now' = now
  PROVE  SessionInv'
<1>1. saved' \in Rolls
  BY NoSessionsRoll DEF SessionInv, W!Save, FileAfterFailure, W!FileAfterFailure
<1>2. lastPersist' \in 0..now'
  BY DEF SessionInv, W!Save
<1>3. unsaved' \/ InStep'
  BY DEF W!Save, InStep
<1> QED BY <1>1, <1>2, <1>3 DEF SessionInv

\* What evictOverflow leaves.
LEMMA EvictedRolls ==
  ASSUME NEW s \in Rolls, NEW t, NEW r \in W!Evicted(s, t)
  PROVE  r \in Rolls
<1>1. r = s \/ \E u \in DOMAIN s : r = W!Only(s, DOMAIN s \ {u})
  BY DEF W!Evicted
<1> QED BY <1>1, OnlyRolls

LEMMA AddInv == ASSUME SessionInv, NEW t \in Tokens, W!Add(t) PROVE SessionInv'
<1> DEFINE joined == [u \in DOMAIN W!Purged(sessions) \cup {t} |->
                         IF u = t THEN [created |-> now, seen |-> now] ELSE sessions[u]]
<1>1. PICK s \in W!Evicted(joined, t) : W!SaveNow(s, dirty)
  BY DEF W!Add
<1>2. W!Purged(sessions) \in Rolls /\ DOMAIN W!Purged(sessions) \subseteq DOMAIN sessions
  BY OnlyRolls DEF SessionInv, W!Purged, W!Only
<1>3. joined \in Rolls
  <2>1. PICK S \in SUBSET Tokens : sessions \in [S -> SessionRecords]
    BY DEF SessionInv, Rolls
  <2>2. joined \in [DOMAIN joined -> SessionRecords]
    BY <1>2, <2>1 DEF SessionInv, SessionRecords
  <2>3. DOMAIN joined \in SUBSET Tokens
    BY <1>2, <2>1
  <2> QED BY <2>2, <2>3 DEF Rolls
<1> HIDE DEF joined
<1>4. s \in Rolls
  BY <1>1, <1>3, EvictedRolls
<1> QED BY <1>1, <1>4, SaveInv DEF W!SaveNow

LEMMA ExpireInv == ASSUME SessionInv, NEW t \in Tokens, W!Expire(t) PROVE SessionInv'
<1> DEFINE s == W!Only(sessions, DOMAIN sessions \ {t})
<1>1. s \in Rolls
  BY OnlyRolls DEF SessionInv
<1> QED BY <1>1, SaveInv DEF W!Expire, W!SaveNow

LEMMA SeenRolls ==
  ASSUME SessionInv, NEW t \in DOMAIN sessions
  PROVE  /\ W!Seen(sessions, t) \in Rolls
         /\ DOMAIN W!Seen(sessions, t) = DOMAIN sessions
         /\ W!Seen(sessions, t)[t].seen = now
         /\ \A u \in DOMAIN sessions :
               /\ W!Seen(sessions, t)[u].created = sessions[u].created
               /\ u # t => W!Seen(sessions, t)[u] = sessions[u]
<1>1. PICK S \in SUBSET Tokens : sessions \in [S -> SessionRecords]
  BY DEF SessionInv, Rolls
<1>2. W!Seen(sessions, t) \in [S -> SessionRecords]
  BY <1>1 DEF SessionInv, W!Seen, SessionRecords
<1> QED BY <1>1, <1>2 DEF W!Seen, Rolls, SessionRecords

LEMMA TouchInv == ASSUME SessionInv, NEW t \in Tokens, W!Touch(t) PROVE SessionInv'
<1>1. t \in DOMAIN sessions
  BY DEF W!Touch
<1>2. CASE W!MustWait
  <2>1. /\ sessions' = W!Seen(sessions, t) /\ dirty' = TRUE
        /\ timer' = IF timer = 0 THEN lastPersist + PersistInterval ELSE timer
        /\ UNCHANGED <<saved, lastPersist, now, unsaved>>
    BY <1>2 DEF W!Touch
  <2>2. /\ now \in Nat /\ lastPersist \in Nat /\ lastPersist # 0
        /\ now - lastPersist < PersistInterval /\ lastPersist <= now
    BY <1>2 DEF SessionInv, W!MustWait
  <2>3. timer' # 0 /\ timer' = lastPersist + PersistInterval /\ now <= timer'
    <3>1. lastPersist + PersistInterval # 0 /\ now <= lastPersist + PersistInterval
      BY <2>2, IntervalAssumption
    <3> QED BY <2>1, <3>1, Zenon DEF SessionInv
  <2>4. unsaved' \/ InStep'
    BY <1>1, <2>1, <2>2, <2>3, SeenRolls DEF SessionInv, InStep, Awaited
  <2> QED BY <1>1, <2>1, <2>3, <2>4, SeenRolls DEF SessionInv
<1>3. CASE ~W!MustWait
  BY <1>1, <1>3, SaveInv, SeenRolls DEF W!Touch, W!SaveNow
<1> QED BY <1>2, <1>3

\* The timer, or the relay that stops, writes what waits.
LEMMA WrittenInv ==
  ASSUME SessionInv, timer' = 0,
         IF dirty THEN W!Save(sessions, TRUE) ELSE UNCHANGED <<saved, dirty, lastPersist, unsaved>>,
         UNCHANGED <<sessions, now>>
  PROVE  SessionInv'
<1>1. CASE dirty
  BY <1>1, SaveInv DEF SessionInv
<1>2. CASE ~dirty
  BY <1>2 DEF SessionInv, InStep, Awaited
<1> QED BY <1>1, <1>2

LEMMA RestartInv == ASSUME SessionInv, W!Restart PROVE SessionInv'
<1> DEFINE loaded == W!Purged(saved)
<1>1. loaded \in Rolls
  BY OnlyRolls DEF SessionInv, W!Purged
<1>2. /\ sessions' = loaded /\ timer' = 0 /\ now' = now
      /\ \/ saved' = loaded /\ lastPersist' \in {0, now}
         \/ saved' \in FileAfterFailure(saved, loaded, W!NoSessions) /\ lastPersist' = 0 /\ unsaved'
  BY DEF W!Restart, FileAfterFailure, W!FileAfterFailure
<1> HIDE DEF loaded
<1>3. saved' \in Rolls
  BY <1>1, <1>2, NoSessionsRoll DEF SessionInv, FileAfterFailure
<1>4. unsaved' \/ InStep'
  BY <1>2 DEF InStep
<1> QED BY <1>1, <1>2, <1>3, <1>4 DEF SessionInv

LEMMA SessionStepInv == ASSUME SessionInv, W!SessionNext PROVE SessionInv'
<1>1. ASSUME NEW t \in Tokens, W!Login(t) PROVE SessionInv'
  BY <1>1, AddInv DEF W!Login
<1>2. ASSUME NEW t \in Tokens, W!Request(t) PROVE SessionInv'
  BY <1>2, TouchInv, ExpireInv DEF W!Request
<1>3. CASE W!TimerFires
  BY <1>3, WrittenInv DEF W!TimerFires
<1>4. CASE W!Flush
  BY <1>4, WrittenInv DEF W!Flush
<1>5. CASE W!Tick
  BY <1>5, IntervalAssumption DEF W!Tick, SessionInv, InStep, Awaited
<1>6. CASE W!Restart
  BY <1>6, RestartInv
<1> QED BY <1>1, <1>2, <1>3, <1>4, <1>5, <1>6 DEF W!SessionNext

\* A restart revives no session and loses none, and a session it takes for idle was used
\* within an interval, unless the latest write failed: what a touch left for later waits
\* for a timer that fires at the end of the interval since the latest write
\* (webapp-sessions.ts, scheduleTouchPersist).
THEOREM RestartForgetsLittle == Spec => []RestartLosesAnInterval
<1>1. Init => SessionInv
  BY NoSessionsRoll DEF Init, W!SessionInit, SessionInv, InStep
<1>2. SessionInv /\ [Next]_vars => SessionInv'
  <2> SUFFICES ASSUME SessionInv, [Next]_vars PROVE SessionInv'
    OBVIOUS
  <2>1. CASE UNCHANGED sessionVars
    BY <2>1 DEF sessionVars, SessionInv, InStep, Awaited
  <2>2. CASE W!SessionNext
    BY <2>2, SessionStepInv
  <2> QED BY <2>1, <2>2 DEF Next, vars
<1>3. SessionInv => RestartLosesAnInterval
  BY IntervalAssumption DEF SessionInv, InStep, Awaited, RestartLosesAnInterval, W!RestartLosesAnInterval
<1> QED BY <1>1, <1>2, <1>3, PTL DEF Spec

--------------------------------------------------------------------------------
(* Lists: what Array.filter keeps.                                          *)

\* The adapters count with an instance of FiniteSets of their own.
LEMMA SameCardinality == \A x : A!Cardinality(x) = Cardinality(x)
  BY DEF A!Cardinality, Cardinality

\* Positions in a sequence are finitely many.
LEMMA PositionsFinite ==
  ASSUME NEW n \in Nat, NEW I \in SUBSET (1..n)
  PROVE  IsFiniteSet(I) /\ Cardinality(I) \in Nat
<1>1. IsFiniteSet(1..n)
  BY FS_Interval
<1>2. IsFiniteSet(I)
  BY ONLY <1>1, I \in SUBSET (1..n), FS_Subset
<1> QED BY ONLY <1>2, FS_CardinalityType

\* Every rank up to their number is the rank of one of the positions: ranks are an
\* injection of the positions into as many numbers, hence onto them.
LEMMA RanksCover ==
  ASSUME NEW n \in Nat, NEW I \in SUBSET (1..n), NEW k \in 1..Cardinality(I)
  PROVE  \E i \in I : Cardinality({j \in I : j <= i}) = k
<1> DEFINE Upto(i) == {j \in I : j <= i}
           R == 1..Cardinality(I)
<1>0. \A i \in I : i \in Int
  OBVIOUS
<1>1. IsFiniteSet(I) /\ Cardinality(I) \in Nat
  BY PositionsFinite
<1>2. ASSUME NEW i \in I
      PROVE  IsFiniteSet(Upto(i)) /\ Cardinality(Upto(i)) \in R
  <2>1. Upto(i) \in SUBSET I
    OBVIOUS
  <2>2. IsFiniteSet(Upto(i)) /\ Cardinality(Upto(i)) \in Nat /\ Cardinality(Upto(i)) <= Cardinality(I)
    <3> HIDE DEF Upto
    <3> QED BY <1>1, <2>1, FS_Subset, FS_CardinalityType
  <2>3. i \in Upto(i)
    OBVIOUS
  <2>4. Cardinality(Upto(i)) # 0
    BY ONLY <2>2, <2>3, FS_EmptySet
  <2> QED BY ONLY <1>1, <2>2, <2>4
<1>3. ASSUME NEW i \in I, NEW m \in I, Cardinality(Upto(i)) = Cardinality(Upto(m))
      PROVE  i = m
  <2>1. CASE i <= m
    <3>1. Upto(i) \in SUBSET Upto(m)
      <4> SUFFICES ASSUME NEW j \in I, j <= i PROVE j <= m
        OBVIOUS
      <4> QED BY <2>1, <1>0
    <3>2. Upto(i) = Upto(m)
      <4> HIDE DEF Upto
      <4> QED BY <1>3, <3>1, <1>2, FS_Subset
    <3>3. m \in Upto(m)
      OBVIOUS
    <3> QED BY <3>2, <3>3, <2>1
  <2>2. CASE m <= i
    <3>1. Upto(m) \in SUBSET Upto(i)
      <4> SUFFICES ASSUME NEW j \in I, j <= m PROVE j <= i
        OBVIOUS
      <4> QED BY <2>2, <1>0
    <3>2. Upto(i) = Upto(m)
      <4> HIDE DEF Upto
      <4> QED BY <1>3, <3>1, <1>2, FS_Subset
    <3>3. i \in Upto(i)
      OBVIOUS
    <3> QED BY <3>2, <3>3, <2>2
  <2> QED BY <2>1, <2>2
<1> DEFINE f == [i \in I |-> Cardinality(Upto(i))]
<1>4. f \in Injection(I, R)
  BY <1>2, <1>3 DEF Injection, IsInjective
<1>5. IsFiniteSet(R) /\ Cardinality(R) = Cardinality(I)
  BY <1>1, FS_Interval
<1>6. f \in Surjection(I, R)
  <2> HIDE DEF f, R
  <2> QED BY <1>4, <1>5, FS_Injection
<1> QED BY <1>6 DEF Surjection

\* A filtered sequence has members of the original only, at the positions kept.
LEMMA FilteredMembers ==
  ASSUME NEW S, NEW s \in Seq(S), NEW I \in SUBSET DOMAIN s
  PROVE  /\ A!Filtered(s, I) \in Seq(S)
         /\ \A k \in DOMAIN A!Filtered(s, I) : \E i \in I : A!Filtered(s, I)[k] = s[i]
<1>1. Len(s) \in Nat /\ I \in SUBSET (1..Len(s)) /\ DOMAIN s = 1..Len(s)
  OBVIOUS
<1>2. IsFiniteSet(I) /\ Cardinality(I) \in Nat
  BY ONLY <1>1, PositionsFinite
<1> DEFINE Pos(k) == CHOOSE i \in I : A!Cardinality({j \in I : j <= i}) = k
<1>3. ASSUME NEW k \in 1..Cardinality(I) PROVE Pos(k) \in I
  <2>1. PICK i \in I : Cardinality({j \in I : j <= i}) = k
    BY <1>1, RanksCover
  <2>2. A!Cardinality({j \in I : j <= i}) = k
    BY <2>1, SameCardinality
  <2> QED BY <2>2
<1>4. A!Filtered(s, I) = [k \in 1..Cardinality(I) |-> s[Pos(k)]]
  <2>1. A!Filtered(s, I) = [k \in 1..A!Cardinality(I) |-> s[Pos(k)]]
    BY DEF A!Filtered
  <2> HIDE DEF Pos
  <2> QED BY <2>1, SameCardinality
<1>5. A!Filtered(s, I) \in [1..Cardinality(I) -> S]
  <2> HIDE DEF Pos
  <2> QED BY <1>1, <1>3, <1>4
<1>6. A!Filtered(s, I) \in Seq(S)
  BY <1>2, <1>5
<1> HIDE DEF Pos
<1> QED BY <1>3, <1>4, <1>6

\* A set of numbers that is not empty has a least one.
LEMMA Least == ASSUME NEW T \in SUBSET Nat, T # {} PROVE \E x \in T : \A y \in T : x <= y
<1> DEFINE R == OpToRel(<, Nat)
<1>1. PICK x \in T : \A y \in T : ~(<<y, x>> \in R)
  <2> HIDE DEF R
  <2>1. IsWellFoundedOn(R, Nat)
    BY NatLessThanWellFounded DEF R
  <2> QED BY <2>1, WFMin
<1>2. \A y \in T : ~(y < x)
  BY <1>1 DEF OpToRel
<1> QED BY <1>2

--------------------------------------------------------------------------------
(* What the operations on a store of adapters make active.                 *)

\* What the adapter file lists.
Entries == [id : Adapters, status : {"pending", "active", "rejected", "rolled_back"}]

\* A store, whatever it binds.
IsStore(s) == s \in [adapters : Seq(Entries), bound : {s.bound}, previous : {s.previous}]

\* No entry of `a` is active.
Inactive(s, a) == \A i \in DOMAIN s.adapters : s.adapters[i].id = a => s.adapters[i].status # "active"

\* A store bound anew keeps its entries.
LEMMA Rebound ==
  ASSUME NEW s, IsStore(s), NEW x, NEW p
  PROVE  [s EXCEPT !.bound = x, !.previous = p] = [adapters |-> s.adapters, bound |-> x, previous |-> p]
<1>1. s = [adapters |-> s.adapters, bound |-> s.bound, previous |-> s.previous]
  BY DEF IsStore
<1>2. PICK l, b, q : s = [adapters |-> l, bound |-> b, previous |-> q] /\ l = s.adapters
  BY <1>1
<1>3. [[adapters |-> l, bound |-> b, previous |-> q] EXCEPT !.bound = x] = [adapters |-> l, bound |-> x, previous |-> q]
  OBVIOUS
<1>4. [[adapters |-> l, bound |-> x, previous |-> q] EXCEPT !.previous = p] = [adapters |-> l, bound |-> x, previous |-> p]
  OBVIOUS
<1>5. [s EXCEPT !.bound = x, !.previous = p] = [[s EXCEPT !.bound = x] EXCEPT !.previous = p]
  OBVIOUS
<1> QED BY <1>2, <1>3, <1>4, <1>5

\* Trimming keeps a store a store, and activates nothing.
LEMMA TrimOut ==
  ASSUME NEW s, IsStore(s)
  PROVE  IsStore(A!TrimAdapters(s)) /\ \A a : Inactive(s, a) => Inactive(A!TrimAdapters(s), a)
<1>1. PICK I \in SUBSET DOMAIN s.adapters : A!TrimAdapters(s) = [s EXCEPT !.adapters = A!Filtered(s.adapters, I)]
  BY DEF A!TrimAdapters
<1> DEFINE kept == A!Filtered(s.adapters, I)
<1>2. kept \in Seq(Entries) /\ \A k \in DOMAIN kept : \E i \in I : kept[k] = s.adapters[i]
  BY FilteredMembers DEF IsStore
<1>3. A!TrimAdapters(s) = [adapters |-> kept, bound |-> s.bound, previous |-> s.previous]
  BY <1>1 DEF IsStore
<1> HIDE DEF kept
<1> QED BY <1>2, <1>3 DEF IsStore, Inactive

\* A decision about one adapter leaves the others as they are, and only "active" makes
\* one active.
LEMMA SetStatusOut ==
  ASSUME NEW s, IsStore(s), NEW a, NEW st \in {"active", "rejected", "rolled_back"}
  PROVE  /\ IsStore(A!SetStatus(s, a, st))
         /\ \A b : Inactive(s, b) /\ (b # a \/ st # "active") => Inactive(A!SetStatus(s, a, st), b)
         /\ st # "active" => Inactive(A!SetStatus(s, a, st), a)
<1> DEFINE E(i) == IF s.adapters[i].id = a THEN [s.adapters[i] EXCEPT !.status = st] ELSE s.adapters[i]
           changed == [i \in DOMAIN s.adapters |-> E(i)]
<1>1. A!SetStatus(s, a, st) = [adapters |-> changed, bound |-> s.bound, previous |-> s.previous]
  <2>1. A!SetStatus(s, a, st) = [s EXCEPT !.adapters = changed]
    BY DEF A!SetStatus
  <2> HIDE DEF changed
  <2> QED BY <2>1 DEF IsStore
<1>a. \A i \in DOMAIN s.adapters : s.adapters[i] \in Entries
  BY DEF IsStore
<1>2. ASSUME NEW i \in DOMAIN s.adapters
      PROVE
         /\ E(i) \in Entries
         /\ E(i).id = s.adapters[i].id
         /\ E(i).status = IF s.adapters[i].id = a THEN st ELSE s.adapters[i].status
  <2>1. s.adapters[i] \in Entries
    BY <1>a
  <2> QED BY <2>1 DEF Entries
<1> HIDE DEF E
<1>3. changed \in Seq(Entries) /\ DOMAIN changed = DOMAIN s.adapters
  BY <1>2 DEF IsStore
<1> QED BY <1>1, <1>2, <1>3 DEF IsStore, Inactive

\* A discovery activates nothing.
LEMMA ProposedOut ==
  ASSUME NEW s, IsStore(s), NEW a \in Adapters
  PROVE  IsStore(A!Proposed(s, a)) /\ \A b : Inactive(s, b) => Inactive(A!Proposed(s, a), b)
<1> DEFINE I == {i \in DOMAIN s.adapters : s.adapters[i].id # a}
           new == [id |-> a, status |-> "pending"]
           kept == A!Filtered(s.adapters, I)
           listed == <<new>> \o kept
           t == [s EXCEPT !.adapters = listed]
<1>1. kept \in Seq(Entries) /\ \A k \in DOMAIN kept : \E i \in I : kept[k] = s.adapters[i]
  <2>1. I \in SUBSET DOMAIN s.adapters /\ s.adapters \in Seq(Entries)
    BY DEF IsStore
  <2> HIDE DEF I
  <2> QED BY <2>1, FilteredMembers
<1>2. A!Proposed(s, a) = A!TrimAdapters(t)
  BY DEF A!Proposed
<1>3. t = [adapters |-> listed, bound |-> s.bound, previous |-> s.previous]
  <2> HIDE DEF listed
  <2> QED BY DEF IsStore
<1>4. new \in Entries
  BY DEF Entries
<1>5. listed \in Seq(Entries) /\ \A k \in DOMAIN listed : listed[k] = new \/ \E i \in I : listed[k] = s.adapters[i]
  <2> HIDE DEF kept, new, I
  <2> QED BY <1>1, <1>4
<1>6. IsStore(t) /\ \A b : Inactive(s, b) => Inactive(t, b)
  <2> HIDE DEF listed, t
  <2> QED BY <1>3, <1>5 DEF IsStore, Inactive
<1> HIDE DEF t
<1> QED BY <1>2, <1>6, TrimOut

\* Applying an adapter activates that one alone.
LEMMA AppliedOut ==
  ASSUME NEW s, IsStore(s), NEW a \in Adapters
  PROVE  IsStore(A!Applied(s, a)) /\ \A b : Inactive(s, b) /\ b # a => Inactive(A!Applied(s, a), b)
<1>1. PICK p : A!Applied(s, a) = A!TrimAdapters([A!SetStatus(s, a, "active") EXCEPT !.bound = a, !.previous = p])
  BY DEF A!Applied
<1> DEFINE u == A!SetStatus(s, a, "active")
           t == [u EXCEPT !.bound = a, !.previous = p]
<1>2. IsStore(u) /\ \A b : Inactive(s, b) /\ b # a => Inactive(u, b)
  BY SetStatusOut
<1>3. IsStore(t) /\ \A b : Inactive(u, b) => Inactive(t, b)
  <2> HIDE DEF u
  <2>1. t = [adapters |-> u.adapters, bound |-> a, previous |-> p]
    BY <1>2, Rebound
  <2> HIDE DEF t
  <2> QED BY <1>2, <2>1 DEF IsStore, Inactive
<1> HIDE DEF t, u
<1> QED BY <1>1, <1>2, <1>3, TrimOut DEF t, u

\* A rollback activates nothing, whatever it binds, and leaves the failed one inactive.
LEMMA RolledBackOut ==
  ASSUME NEW s, IsStore(s), NEW a
  PROVE  /\ IsStore(A!RolledBack(s, a))
         /\ \A b : Inactive(s, b) => Inactive(A!RolledBack(s, a), b)
         /\ Inactive(A!RolledBack(s, a), a)
<1>1. PICK x, p : A!RolledBack(s, a) = A!SetStatus([s EXCEPT !.bound = x, !.previous = p], a, "rolled_back")
  BY DEF A!RolledBack
<1> DEFINE t == [s EXCEPT !.bound = x, !.previous = p]
<1>2. IsStore(t) /\ \A b : Inactive(s, b) => Inactive(t, b)
  <2>1. t = [adapters |-> s.adapters, bound |-> x, previous |-> p]
    BY Rebound
  <2> HIDE DEF t
  <2> QED BY <2>1 DEF IsStore, Inactive
<1> HIDE DEF t
<1> QED BY <1>1, <1>2, SetStatusOut DEF t

--------------------------------------------------------------------------------
(* Rolled back adapters stay out.                                          *)

\* Memory, the registry and every readable file hold stores, and a commit is where its
\* loop counter says.
StoresInv ==
    /\ IsStore(store) /\ IsStore(registry)
    /\ A!Readable(primary) => IsStore(primary)
    /\ backup = [i \in 1..Backups |-> backup[i]]
    /\ \A i \in 1..Backups : A!Readable(backup[i]) => IsStore(backup[i])
    /\ commit \in [at : {"idle", "write", "rotate", "copy", "rename"}, turn : {commit.turn},
                   op : {"none", "pending", "apply", "reject", "rollback", "restore"}, adapter : {commit.adapter}]
    /\ commit.at = "write" => commit.turn = Backups
    /\ commit.at = "rotate" => commit.turn \in 2..Backups
    /\ commit.at = "copy" => commit.turn = 1

\* What was rolled back is active nowhere a use or a restart could find it: not in
\* memory, not in the registry, not in the primary.  The same holds already while the
\* rollback is committed (in memory) and answered (in memory and the primary).
RevokedInv ==
    /\ NoAdapter \notin revoked
    /\ \A a \in revoked : /\ Inactive(store, a) /\ Inactive(registry, a)
                          /\ A!Readable(primary) => Inactive(primary, a)
    /\ answering.waits => /\ up /\ Inactive(store, answering.adapter)
                          /\ A!Readable(primary) => Inactive(primary, answering.adapter)
    /\ commit.op = "rollback" => Inactive(store, commit.adapter)

OutInv == StoresInv /\ RevokedInv

\* The empty store lists nothing.
LEMMA EmptyIsStore == IsStore(A!EmptyStore) /\ \A a : Inactive(A!EmptyStore, a)
  BY DEF IsStore, Inactive, A!EmptyStore

\* What a load finds is a store, the primary when it can be read.
LEMMA RecoveredIsStore ==
  ASSUME StoresInv
  PROVE  /\ IsStore(A!Recovered)
         /\ A!Readable(primary) => A!Recovered = primary
<1>1. CASE A!Readable(primary)
  BY <1>1 DEF StoresInv, A!Recovered
<1>2. CASE ~A!Readable(primary) /\ A!ReadableBackups = {}
  BY <1>2, EmptyIsStore DEF A!Recovered
<1>3. CASE ~A!Readable(primary) /\ A!ReadableBackups # {}
  <2>1. A!ReadableBackups \in SUBSET Nat /\ A!ReadableBackups \in SUBSET (1..Backups)
    BY AdapterAssumption DEF A!ReadableBackups
  <2>2. \E x \in A!ReadableBackups : \A y \in A!ReadableBackups : x <= y
    BY <2>1, <1>3, Least
  <2>3. A!NewestBackup \in A!ReadableBackups
    BY <2>2 DEF A!NewestBackup
  <2> QED BY <2>1, <2>3, <1>3 DEF StoresInv, A!Recovered, A!ReadableBackups
<1> QED BY <1>1, <1>2, <1>3

\* An operation that makes nothing active again keeps the invariant.
LEMMA BeginOut ==
  ASSUME OutInv, NEW s, NEW op \in {"pending", "apply", "reject", "rollback"}, NEW a,
         IsStore(s), A!Begin(s, op, a),
         \A b \in revoked' : b \in revoked /\ Inactive(s, b),
         answering.waits => Inactive(s, answering.adapter),
         op = "rollback" => Inactive(s, a)
  PROVE  OutInv'
<1>1. commit' = [at |-> "write", turn |-> Backups, op |-> op, adapter |-> a] /\ store' = s
      /\ up /\ UNCHANGED <<primary, backup, answering, registry, up>>
  BY DEF A!Begin
<1>2. StoresInv'
  BY <1>1, AdapterAssumption DEF OutInv, StoresInv
<1>3. RevokedInv'
  BY <1>1 DEF OutInv, RevokedInv
<1> QED BY <1>2, <1>3 DEF OutInv

\* Every step does.
LEMMA OutStep == ASSUME OutInv, A!AdapterNext PROVE OutInv'
<1> USE DEF OutInv
<1>1. ASSUME NEW a \in Adapters, A!Discover(a) PROVE OutInv'
  BY <1>1, ProposedOut, BeginOut DEF A!Discover, A!SavePending, StoresInv, RevokedInv
<1>2. ASSUME NEW a \in Adapters, A!Apply(a) PROVE OutInv'
  BY <1>2, AppliedOut, BeginOut DEF A!Apply, StoresInv, RevokedInv
<1>3. ASSUME NEW a \in Adapters, A!RejectRoute(a) \/ A!Reject(a) PROVE OutInv'
  <2>1. CASE UNCHANGED <<store, primary, backup, commit, answering, registry, up, revoked>>
    BY <2>1 DEF StoresInv, RevokedInv
  <2>2. CASE A!Reject(a) /\ a \in A!Listed(store)
    BY <2>2, SetStatusOut, BeginOut DEF A!Reject, StoresInv, RevokedInv
  <2> QED BY <1>3, <2>1, <2>2 DEF A!RejectRoute, A!Reject
<1>4. ASSUME NEW a \in Adapters \cup {NoAdapter}, A!RollbackRoute(a) PROVE OutInv'
  BY <1>4, RolledBackOut, BeginOut DEF A!RollbackRoute, A!Rollback, StoresInv, RevokedInv
<1>5. CASE A!WriteTempFile
  BY <1>5, AdapterAssumption DEF A!WriteTempFile, A!Calling, StoresInv, RevokedInv
<1>6. CASE A!RotateBackup
  <2>1. StoresInv'
    <3> DEFINE i == commit.turn
    <3>1. i \in 2..Backups /\ i - 1 \in 1..Backups
      BY <1>6, AdapterAssumption DEF A!RotateBackup, A!Calling, StoresInv
    <3>2. /\ backup' = [j \in 1..Backups |-> backup'[j]]
          /\ \A j \in 1..Backups : backup'[j] \in {backup[j], backup[i - 1], Absent}
      BY <1>6, <3>1 DEF A!RotateBackup, StoresInv
    <3>3. /\ UNCHANGED <<store, registry, primary>>
          /\ commit' = [commit EXCEPT !.turn = i - 1, !.at = IF i > 2 THEN "rotate" ELSE "copy"]
      BY <1>6 DEF A!RotateBackup
    <3>4. \A j \in 1..Backups : A!Readable(backup'[j]) => IsStore(backup'[j])
      BY <3>1, <3>2 DEF StoresInv, A!Readable
    <3>5. /\ commit' \in [at : {"rotate", "copy"}, turn : {i - 1}, op : {commit.op}, adapter : {commit.adapter}]
          /\ i > 2 => commit'.at = "rotate"
          /\ ~(i > 2) => commit'.at = "copy"
      BY <3>3 DEF StoresInv
    <3>6. commit'.turn = i - 1 /\ commit'.op = commit.op /\ commit'.adapter = commit.adapter
      BY <3>5
    <3>7. /\ commit'.at = "rotate" => commit'.turn \in 2..Backups
          /\ commit'.at = "copy" => commit'.turn = 1
      BY <3>1, <3>5, <3>6, AdapterAssumption
    <3> QED BY <3>2, <3>3, <3>4, <3>5, <3>6, <3>7 DEF StoresInv
  <2>2. RevokedInv'
    BY <1>6 DEF A!RotateBackup, A!Calling, StoresInv, RevokedInv
  <2> QED BY <2>1, <2>2
<1>7. CASE A!CopyPrimary
  BY <1>7 DEF A!CopyPrimary, A!Calling, StoresInv, RevokedInv
<1>8. CASE A!CopyFails
  BY <1>8 DEF A!CopyFails, A!Calling, A!Readable, StoresInv, RevokedInv
<1>9. CASE A!Committed
  <2>1. StoresInv'
    BY <1>9 DEF A!Committed, A!Calling, A!Idle, StoresInv
  <2>2. RevokedInv'
    BY <1>9 DEF A!Committed, A!Calling, A!Idle, StoresInv, RevokedInv
  <2> QED BY <2>1, <2>2
<1>10. CASE (A!Calling("write") \/ A!Calling("rename")) /\ A!Throws
  <2>1. StoresInv'
    BY <1>10 DEF A!Throws, A!Calling, A!Idle, StoresInv
  <2>2. RevokedInv'
    BY <1>10 DEF A!Throws, A!Calling, A!Idle, StoresInv, RevokedInv
  <2> QED BY <2>1, <2>2
<1>11. CASE A!Publish
  <2>1. StoresInv'
    BY <1>11 DEF A!Publish, A!Published, A!NoAnswer, StoresInv
  <2>2. RevokedInv'
    BY <1>11 DEF A!Publish, A!Published, A!NoAnswer, StoresInv, RevokedInv
  <2> QED BY <2>1, <2>2
<1>12. CASE A!Load
  <2>1. /\ store' = A!Recovered /\ registry' \in {A!EmptyStore, A!Recovered}
        /\ UNCHANGED <<primary, backup, answering>>
        /\ revoked' = IF A!Readable(primary) THEN revoked ELSE {}
        /\ ~answering.waits
    BY <1>12 DEF A!Load, RevokedInv
  <2>2. commit' \in {A!Idle, [at |-> "write", turn |-> Backups, op |-> "restore", adapter |-> NoAdapter]}
    BY <1>12 DEF A!Load
  <2>3. StoresInv'
    BY <2>1, <2>2, RecoveredIsStore, EmptyIsStore DEF A!Idle, StoresInv
  <2>4. RevokedInv'
    BY <2>1, <2>2, RecoveredIsStore, EmptyIsStore DEF A!Idle, RevokedInv
  <2> QED BY <2>3, <2>4
<1>13. CASE A!Damage
  BY <1>13 DEF A!Damage, A!Readable, StoresInv, RevokedInv
<1>14. ASSUME NEW torn \in BOOLEAN, A!Die(torn) PROVE OutInv'
  <2>1. StoresInv'
    BY <1>14, EmptyIsStore DEF A!Die, A!Idle, A!Readable, StoresInv
  <2>2. RevokedInv'
    BY <1>14, EmptyIsStore DEF A!Die, A!Idle, A!NoAnswer, RevokedInv
  <2> QED BY <2>1, <2>2
<1> QED
  BY <1>1, <1>2, <1>3, <1>4, <1>5, <1>6, <1>7, <1>8, <1>9, <1>10, <1>11, <1>12, <1>13, <1>14
  DEF A!AdapterNext, A!CommitStep

\* The runtime uses no adapter that is inactive in the registry.
LEMMA UsedIsActive == ASSUME NEW a, a # NoAdapter, Inactive(registry, a) PROVE A!Used # a
<1> SUFFICES ASSUME A!Used = a PROVE FALSE
  OBVIOUS
<1>1. registry.bound = a /\ A!StatusOf(registry, a) = "active"
  BY DEF A!Used, A!Find
<1>2. a \in A!Listed(registry) /\ (CHOOSE r \in A!ToSet(registry.adapters) : r.id = a).status = "active"
  BY <1>1 DEF A!StatusOf
<1>3. \E r \in A!ToSet(registry.adapters) : r.id = a
  BY <1>2 DEF A!Listed, A!ToSet
<1>4. PICK r \in A!ToSet(registry.adapters) : r.id = a /\ r.status = "active"
  BY <1>2, <1>3
<1> QED BY <1>4 DEF A!ToSet, Inactive

\* The stores a behaviour starts from are stores.
LEMMA UndecidedIsStore == IsStore(A!Undecided)
<1> DEFINE n == Cardinality(Adapters)
           S == A!SetToSeqs(Adapters)
           order == CHOOSE s \in S : TRUE
           listed == [i \in DOMAIN order |-> [id |-> order[i], status |-> "pending"]]
           t == [A!EmptyStore EXCEPT !.adapters = listed]
<1>1. n \in Nat
  BY AdapterAssumption, FS_CardinalityType
<1>2. S = {f \in [1..n -> Adapters] : \A i, j \in 1..n : i # j => f[i] # f[j]}
  <2>1. A!Cardinality(Adapters) = n
    BY SameCardinality
  <2> HIDE DEF n
  <2> QED BY <2>1 DEF A!SetToSeqs
<1>3. S # {}
  <2>1. PICK f \in Bijection(1..n, Adapters) : TRUE
    BY AdapterAssumption, FS_CardinalityType DEF ExistsBijection
  <2> HIDE DEF n, S
  <2>2. f \in [1..n -> Adapters] /\ \A i, j \in 1..n : i # j => f[i] # f[j]
    BY <2>1 DEF Bijection, Injection, IsInjective
  <2> QED BY <1>2, <2>2
<1>4. order \in [1..n -> Adapters]
  <2> HIDE DEF n, S
  <2> QED BY <1>2, <1>3
<1> HIDE DEF n, S, order
<1>5. listed \in Seq(Entries)
  BY <1>1, <1>4 DEF Entries
<1>6. IsStore(t)
  <2> HIDE DEF listed
  <2> QED BY <1>5 DEF IsStore, A!EmptyStore
<1>7. A!Undecided = A!TrimAdapters(t)
  BY DEF A!Undecided, order, S
<1> HIDE DEF t
<1> QED BY <1>6, <1>7, TrimOut

\* The first primary is a store, or missing.
LEMMA InitialPrimary == ASSUME A!AdapterInit PROVE primary = Absent \/ IsStore(primary)
<1>1. primary \in {Absent, A!Undecided} \cup {A!Applied(A!Undecided, a) : a \in A!Listed(A!Undecided)}
  BY DEF A!AdapterInit
<1>2. A!Listed(A!Undecided) \subseteq Adapters
  <2>1. ASSUME NEW i \in DOMAIN A!Undecided.adapters PROVE A!Undecided.adapters[i].id \in Adapters
    <3>1. A!Undecided.adapters \in Seq(Entries)
      BY UndecidedIsStore DEF IsStore
    <3>2. A!Undecided.adapters[i] \in Entries
      BY <3>1
    <3> QED BY <3>2 DEF Entries
  <2> QED BY <2>1 DEF A!Listed
<1> QED BY <1>1, <1>2, UndecidedIsStore, AppliedOut

\* The invariant holds at first.
LEMMA OutInit == A!AdapterInit => OutInv
<1> SUFFICES ASSUME A!AdapterInit PROVE OutInv
  OBVIOUS
<1>1. primary = Absent \/ IsStore(primary)
  BY InitialPrimary
<1>2. StoresInv
  BY <1>1, EmptyIsStore DEF A!AdapterInit, StoresInv, A!Idle, A!Readable
<1>3. RevokedInv
  BY DEF A!AdapterInit, RevokedInv, A!Idle, A!NoAnswer
<1> QED BY <1>2, <1>3 DEF OutInv

\* An adapter whose rollback was answered with success is not used again until it is
\* applied again, whatever is rediscovered, rejected, rolled back, restored or restarted
\* meanwhile (adapter-store.ts, rollback; relay.ts, updateStore; adapter-registry.ts, find).
THEOREM RolledBackAdaptersStayOut == Spec => []RolledBackStaysOut
<1>1. Init => OutInv
  BY OutInit DEF Init, NoAdapters
<1>2. OutInv /\ [Next]_vars => OutInv'
  <2> SUFFICES ASSUME OutInv, [Next]_vars PROVE OutInv'
    OBVIOUS
  <2>1. CASE UNCHANGED adapterVars
    <3>1. UNCHANGED <<store, primary, backup, commit, answering, registry, up, revoked>>
      BY <2>1 DEF adapterVars
    <3> QED BY <3>1 DEF OutInv, StoresInv, RevokedInv
  <2>2. CASE A!AdapterNext
    BY <2>2, OutStep
  <2> QED BY <2>1, <2>2 DEF Next, vars
<1>3. OutInv => RolledBackStaysOut
  <2> SUFFICES ASSUME OutInv PROVE A!Used \notin revoked
    BY DEF RolledBackStaysOut, A!RolledBackStaysOut
  <2> QED BY UsedIsActive DEF OutInv, RevokedInv
<1> QED BY <1>1, <1>2, <1>3, PTL DEF Spec

--------------------------------------------------------------------------------
(* The backups: one fault costs one change.                                *)

\* Between reading the primary and renaming the new file over it.
Rotating == commit.at \in {"rotate", "copy"}

\* How many changes the newest backup may be behind: one for every fault, and one for
\* the primary while it has what the backups have not.
Slack == faults + (IF A!Readable(primary) /\ commit.at # "rename" THEN 1 ELSE 0)

\* How far down the newest backup may have moved: a slot for every rotation that copied
\* nothing.  A primary damaged inside the rotation has been counted among the faults;
\* a backup below `turn` has been moved by the rotation under way.
Reach(p) ==
    faults + (IF Rotating /\ ~A!Readable(primary) THEN 0 ELSE 1)
           + (IF Rotating /\ p > commit.turn THEN 1 ELSE 0)

\* The load would take slot p.
Newest(b, p) ==
    p \in 1..Backups /\ A!Readable(b[p]) /\ \A q \in 1..Backups : A!Readable(b[q]) => p <= q

\* The load would find nothing.
None(b) == \A p \in 1..Backups : ~A!Readable(b[p])

\* `s` is what the file held at most `slack` changes ago.
Recent(s, slack) == \E lost \in 0..slack : lost < Len(chain) /\ s = chain[Len(chain) - lost]

\* A primary that can be read has the latest change.
PrimaryInv ==
    /\ faults \in Nat /\ \E S : chain \in Seq(S)
    /\ A!Readable(primary) => Len(chain) >= 1 /\ primary = chain[Len(chain)]
    /\ primary = Torn => faults >= 1
    /\ ~up => commit.at = "idle"
    /\ Rotating => primary # Absent

\* The slot to be filled next is free; the newest backup is near the top and recent;
\* with none, there have been as few changes as faults.
BackupInv ==
    /\ Rotating /\ commit.turn < Backups => ~A!Readable(backup[commit.turn])
    /\ \A p : Newest(backup, p) => p <= Reach(p)
    /\ Slack < Backups /\ None(backup) => Len(chain) <= Slack
    /\ Slack < Backups => \A p : Newest(backup, p) => Recent(backup[p], Slack)

\* The invariant behind OneFaultOneChange.
KeptInv == StoresInv /\ PrimaryInv /\ BackupInv

\* When a backup can be read, the load finds the newest of them.
LEMMA NewestExists ==
  ASSUME A!ReadableBackups # {}
  PROVE  Newest(backup, A!NewestBackup)
<1>1. A!ReadableBackups \in SUBSET Nat
  BY AdapterAssumption DEF A!ReadableBackups
<1>2. \E x \in A!ReadableBackups : \A y \in A!ReadableBackups : x <= y
  BY <1>1, Least
<1> QED BY <1>2 DEF A!NewestBackup, A!ReadableBackups, Newest

\* The invariant has what the property says.
LEMMA KeptImplies ==
  ASSUME KeptInv PROVE A!OneFaultOneChange
<1> SUFFICES ASSUME faults < Backups
    PROVE \E lost \in 0..faults :
            IF lost >= Len(chain) THEN A!Recovered = A!EmptyStore
            ELSE A!Recovered = chain[Len(chain) - lost]
  BY DEF A!OneFaultOneChange
<1>1. faults \in Nat /\ Len(chain) \in Nat
  BY DEF KeptInv, PrimaryInv
<1>2. CASE A!Readable(primary)
  <2>1. A!Recovered = chain[Len(chain) - 0] /\ ~(0 >= Len(chain))
    BY <1>1, <1>2 DEF KeptInv, PrimaryInv, A!Recovered
  <2> QED BY <2>1, <1>1
<1>3. CASE ~A!Readable(primary) /\ A!ReadableBackups = {}
  <2>1. Slack = faults /\ None(backup)
    BY <1>1, <1>3 DEF Slack, None, A!ReadableBackups
  <2>2. Len(chain) <= faults
    BY <2>1 DEF KeptInv, BackupInv
  <2>3. A!Recovered = A!EmptyStore
    BY <1>3 DEF A!Recovered
  <2> QED BY <2>2, <2>3, <1>1
<1>4. CASE ~A!Readable(primary) /\ A!ReadableBackups # {}
  <2>1. Slack = faults /\ Newest(backup, A!NewestBackup)
    BY <1>1, <1>4, NewestExists DEF Slack
  <2>2. Recent(backup[A!NewestBackup], faults)
    BY <2>1 DEF KeptInv, BackupInv
  <2>3. A!Recovered = backup[A!NewestBackup]
    BY <1>4 DEF A!Recovered
  <2> QED BY <2>2, <2>3, <1>1 DEF Recent
<1> QED BY <1>2, <1>3, <1>4

\* What the backups lose, the slack gains.
LEMMA Carry ==
  ASSUME BackupInv, PrimaryInv, faults' = faults \/ faults' = faults + 1, chain' = chain,
         Slack <= Slack',
         \A p \in 1..Backups : Reach(p) <= Reach(p)',
         \A p : Newest(backup', p) => Newest(backup, p) /\ backup'[p] = backup[p],
         None(backup') => None(backup) \/ Slack' >= Backups,
         Rotating' /\ commit'.turn < Backups => ~A!Readable(backup'[commit'.turn])
  PROVE  BackupInv'
<1>1. Slack \in Nat /\ Slack' \in Nat /\ Len(chain) \in Nat /\ Backups \in Nat
  <2>1. faults \in Nat /\ Backups \in Nat
    BY AdapterAssumption DEF PrimaryInv
  <2>2. Len(chain) \in Nat
    BY DEF PrimaryInv
  <2>3. Slack \in Nat
    BY <2>1 DEF Slack
  <2>4. Slack' \in Nat
    BY <2>1 DEF Slack
  <2> QED BY <2>1, <2>2, <2>3, <2>4
<1>2. ASSUME NEW p, Newest(backup', p) PROVE p <= Reach(p)'
  <2>1. p \in 1..Backups /\ p <= Reach(p)
    BY <1>2 DEF BackupInv, Newest
  <2>2. Reach(p) \in Nat /\ Reach(p)' \in Nat
    <3>1. faults \in Nat
      BY DEF PrimaryInv
    <3>2. Reach(p) \in Nat
      BY <3>1 DEF Reach
    <3>3. Reach(p)' \in Nat
      BY <3>1 DEF Reach
    <3> QED BY <3>2, <3>3
  <2> QED BY <2>1, <2>2, <1>1
<1>3. ASSUME Slack' < Backups, None(backup') PROVE Len(chain) <= Slack'
  BY <1>1, <1>3 DEF BackupInv
<1>4. ASSUME Slack' < Backups, NEW p, Newest(backup', p) PROVE Recent(backup[p], Slack)'
  <2>1. Recent(backup[p], Slack) /\ backup'[p] = backup[p]
    BY <1>1, <1>4 DEF BackupInv
  <2> QED BY <2>1, <1>1 DEF Recent
<1> QED BY <1>2, <1>3, <1>4 DEF BackupInv

\* A step between commits, or the start of a rotation, leaves the backups as they are.
LEMMA SameBackups ==
  ASSUME BackupInv, PrimaryInv, faults' = faults \/ faults' = faults + 1, UNCHANGED <<chain, backup>>,
         Slack <= Slack', ~Rotating,
         Rotating' => commit'.turn = Backups /\ A!Readable(primary')
  PROVE  BackupInv'
<1>0. faults \in Nat /\ Backups \in Nat
  BY AdapterAssumption DEF PrimaryInv
<1>1. ASSUME NEW p \in 1..Backups PROVE Reach(p) <= Reach(p)'
  <2>1. Reach(p) = faults + 1
    BY <1>0 DEF Reach
  <2>2. Reach(p)' = faults' + 1
    BY <1>0, <1>1 DEF Reach
  <2> QED BY <2>1, <2>2, <1>0
<1> QED BY <1>1, <1>0, Carry

\* Rotation: slot `turn` gets what the slot below it held.
LEMMA RotateKept ==
  ASSUME KeptInv, A!RotateBackup PROVE BackupInv'
<1> DEFINE i == commit.turn
<1>1. /\ i \in 2..Backups /\ i - 1 \in 1..Backups /\ commit.at = "rotate" /\ Rotating
      /\ commit'.turn = i - 1 /\ commit'.at \in {"rotate", "copy"} /\ Rotating'
      /\ UNCHANGED <<primary, chain, faults>>
  BY AdapterAssumption DEF A!RotateBackup, A!Calling, KeptInv, StoresInv, Rotating
<1>2. faults \in Nat /\ Backups \in Nat /\ backup = [j \in 1..Backups |-> backup[j]]
  BY AdapterAssumption DEF KeptInv, PrimaryInv, StoresInv
<1>3. Slack' = Slack /\ Slack = faults + (IF A!Readable(primary) THEN 1 ELSE 0)
  BY <1>1, <1>2 DEF Slack
<1>4. ASSUME NEW p \in 1..Backups
      PROVE  /\ Reach(p) = Slack + (IF p > i THEN 1 ELSE 0)
             /\ Reach(p)' = Slack + (IF p > i - 1 THEN 1 ELSE 0)
             /\ Reach(p) <= Reach(p)'
  BY <1>1, <1>2, <1>3 DEF Reach
<1>5. CASE backup[i - 1] = Absent
  <2>1. backup' = backup
    BY <1>5 DEF A!RotateBackup
  <2>2. ~A!Readable(backup'[commit'.turn])
    BY <2>1, <1>1, <1>5 DEF A!Readable
  <2> QED BY <1>1, <1>2, <1>3, <1>4, <2>1, <2>2, Carry DEF KeptInv
<1>6. CASE backup[i - 1] # Absent
  <2>1. /\ backup' = [j \in 1..Backups |-> backup'[j]]
        /\ backup'[i] = backup[i - 1] /\ backup'[i - 1] = Absent
        /\ \A j \in 1..Backups : j \notin {i, i - 1} => backup'[j] = backup[j]
    <3>1. backup' = [[backup EXCEPT ![i] = backup[i - 1]] EXCEPT ![i - 1] = Absent]
      BY <1>6 DEF A!RotateBackup
    <3>2. i # i - 1
      BY <1>1
    <3> HIDE DEF i
    <3>3. DOMAIN backup = 1..Backups
      BY <1>2
    <3>4. DOMAIN backup' = 1..Backups /\ backup' = [j \in DOMAIN backup |-> backup'[j]]
      BY <3>1, <3>3
    <3>5. backup'[i] = backup[i - 1] /\ backup'[i - 1] = Absent
      BY <3>1, <3>2, <3>3, <1>1
    <3>6. ASSUME NEW j \in 1..Backups, j \notin {i, i - 1} PROVE backup'[j] = backup[j]
      BY <3>1, <3>3, <3>6
    <3> QED BY <3>3, <3>4, <3>5, <3>6
  <2>2. ~A!Readable(backup'[i - 1])
    BY <2>1 DEF A!Readable
  <2>3. A!Readable(backup[i]) => i = Backups
    <3>1. i < Backups => ~A!Readable(backup[i])
      BY <1>1 DEF KeptInv, BackupInv
    <3> HIDE DEF i
    <3> QED BY <3>1, <1>1, <1>2
  <2>4. ASSUME NEW p, Newest(backup', p)
        PROVE  \E q \in 1..Backups : /\ Newest(backup, q) /\ backup'[p] = backup[q]
                                    /\ p <= Slack + (IF p > i - 1 THEN 1 ELSE 0)
    <3>1. p \in 1..Backups /\ p # i - 1 /\ A!Readable(backup'[p])
          /\ \A j \in 1..Backups : A!Readable(backup'[j]) => p <= j
      BY <2>2, <2>4 DEF Newest
    <3>2. CASE p = i
      <4>1. ASSUME NEW j \in 1..Backups, A!Readable(backup[j]) PROVE i - 1 <= j
        <5>1. CASE j \in {i, i - 1}
          BY <1>1, <5>1
        <5>2. CASE j \notin {i, i - 1}
          BY <5>2, <4>1, <3>1, <3>2, <2>1, <1>1
        <5> QED BY <5>1, <5>2
      <4>2. Newest(backup, i - 1) /\ backup'[p] = backup[i - 1]
        BY <4>1, <3>1, <3>2, <2>1, <1>1 DEF Newest
      <4>3. i - 1 <= Reach(i - 1)
        BY <4>2 DEF KeptInv, BackupInv
      <4>4. Reach(i - 1) = Slack
        <5>1. ~(i - 1 > i)
          BY <1>1
        <5> QED BY <5>1, <1>1, <1>4, <1>2, <1>3
      <4>5. p <= Slack + 1 /\ p > i - 1
        BY <4>3, <4>4, <3>2, <1>1, <1>2, <1>3
      <4> QED BY <4>2, <4>5, <1>1
    <3>3. CASE p # i
      <4>1. backup'[p] = backup[p]
        BY <2>1, <3>1, <3>3
      <4>2. ASSUME NEW j \in 1..Backups, A!Readable(backup[j]) PROVE p <= j
        <5>1. CASE j \notin {i, i - 1}
          BY <5>1, <4>2, <3>1, <2>1
        <5>2. CASE j = i - 1
          <6>1. p <= i
            BY <5>2, <4>2, <3>1, <2>1, <1>1
          <6> QED BY <6>1, <5>2, <3>1, <3>3, <1>1
        <5>3. CASE j = i
          BY <5>3, <4>2, <2>3, <3>1, <1>1
        <5> QED BY <5>1, <5>2, <5>3
      <4>3. Newest(backup, p)
        BY <4>1, <4>2, <3>1 DEF Newest
      <4>4. p <= Reach(p)
        BY <4>3 DEF KeptInv, BackupInv
      <4>5. p <= Slack + (IF p > i - 1 THEN 1 ELSE 0)
        BY <4>4, <3>1, <3>3, <1>1, <1>2, <1>3, <1>4
      <4> QED BY <4>1, <4>3, <4>5, <3>1
    <3> QED BY <3>2, <3>3
  <2>5. ASSUME None(backup'), Slack < Backups PROVE None(backup)
    <3> SUFFICES ASSUME NEW j \in 1..Backups, A!Readable(backup[j]) PROVE FALSE
      BY DEF None
    <3>1. j = i
      BY <2>1, <2>5, <1>1 DEF None
    <3>2. i = Backups
      BY <2>3, <3>1
    <3>3. ASSUME NEW q \in 1..Backups, A!Readable(backup[q]) PROVE j <= q
      BY <3>1, <3>2, <3>3, <2>1, <2>5, <1>1 DEF None
    <3>4. Newest(backup, j)
      BY <3>3 DEF Newest
    <3>5. j <= Reach(j) /\ Reach(j) = Slack
      BY <3>1, <3>4, <1>1, <1>2, <1>3, <1>4 DEF KeptInv, BackupInv
    <3> QED BY <3>1, <3>2, <3>5, <2>5, <1>1, <1>2, <1>3
  <2>6. ASSUME NEW p, Newest(backup', p) PROVE p <= Reach(p)'
    <3>1. p \in 1..Backups
      BY <2>6 DEF Newest
    <3> QED BY <2>4, <2>6, <3>1, <1>4
  <2>7. ASSUME Slack' < Backups, NEW p, Newest(backup', p) PROVE Recent(backup[p], Slack)'
    <3>1. PICK q \in 1..Backups : Newest(backup, q) /\ backup'[p] = backup[q]
      BY <2>4, <2>7
    <3>2. Recent(backup[q], Slack)
      BY <3>1, <2>7, <1>3 DEF KeptInv, BackupInv
    <3> QED BY <3>1, <3>2, <1>1, <1>3 DEF Recent
  <2>8. Slack' < Backups /\ None(backup') => Len(chain') <= Slack'
    BY <2>5, <1>1, <1>3 DEF KeptInv, BackupInv
  <2> QED BY <2>2, <2>6, <2>7, <2>8, <1>1 DEF BackupInv
<1> QED BY <1>5, <1>6

\* A copy that fails, or is cut short, costs the first slot, which the rotation has
\* emptied unless there is but one.
LEMMA LoseFirst ==
  ASSUME KeptInv, commit.at = "copy", NEW x, ~A!Readable(x), backup' = [backup EXCEPT ![1] = x],
         chain' = chain, faults' = faults \/ faults' = faults + 1, faults' # 0,
         Slack <= Slack', Slack' = faults' \/ Slack' = faults' + 1, ~Rotating',
         A!Readable(primary) => faults' = faults + 1
  PROVE  BackupInv'
<1>0. /\ faults \in Nat /\ Backups \in Nat \ {0} /\ DOMAIN backup = 1..Backups
      /\ commit.turn = 1 /\ Rotating
      /\ BackupInv /\ PrimaryInv
  BY AdapterAssumption DEF KeptInv, PrimaryInv, StoresInv, Rotating
<1>1. ASSUME NEW p \in 1..Backups PROVE Reach(p) <= Reach(p)'
  <2>1. Reach(p) = faults + (IF A!Readable(primary) THEN 1 ELSE 0) + (IF p > 1 THEN 1 ELSE 0)
    BY <1>0 DEF Reach
  <2>2. Reach(p)' = faults' + 1
    BY <1>0, <1>1 DEF Reach
  <2> QED BY <2>1, <2>2, <1>0
<1>2. ~A!Readable(backup'[1]) /\ \A j \in 1..Backups : j # 1 => backup'[j] = backup[j]
  BY <1>0
<1>3. CASE Backups = 1
  <2>1. None(backup')
    BY <1>2, <1>3 DEF None
  <2>2. \A p : ~Newest(backup', p)
    BY <2>1 DEF None, Newest
  <2>3. Slack' >= Backups
    <3>1. faults' >= 1
      BY <1>0
    <3> QED BY <3>1, <1>0, <1>3
  <2> QED BY <1>0, <1>1, <2>2, <2>3, Carry
<1>4. CASE Backups # 1
  <2>1. ~A!Readable(backup[1])
    BY <1>0, <1>4 DEF BackupInv
  <2>2. \A j \in 1..Backups : A!Readable(backup'[j]) <=> A!Readable(backup[j])
    BY <2>1, <1>2
  <2>3. \A p : Newest(backup', p) => Newest(backup, p) /\ backup'[p] = backup[p]
    BY <2>2, <1>2 DEF Newest
  <2>4. None(backup') => None(backup)
    BY <2>2 DEF None
  <2> QED BY <1>0, <1>1, <2>3, <2>4, Carry
<1> QED BY <1>3, <1>4

\* A copy that succeeds saves what the primary holds, damaged or not.
LEMMA CopyKept == ASSUME KeptInv, A!CopyPrimary PROVE BackupInv'
<1>1. /\ backup' = [backup EXCEPT ![1] = primary] /\ commit.at = "copy" /\ Rotating /\ ~Rotating'
      /\ commit'.at = "rename" /\ UNCHANGED <<primary, chain, faults>>
  BY DEF A!CopyPrimary, A!Calling, KeptInv, StoresInv, Rotating
<1>2. /\ faults \in Nat /\ Len(chain) \in Nat /\ Backups \in Nat \ {0} /\ DOMAIN backup = 1..Backups
      /\ Slack' = faults
  BY <1>1, AdapterAssumption DEF KeptInv, PrimaryInv, StoresInv, Slack
<1>3. CASE ~A!Readable(primary)
  <2>1. faults # 0
    BY <1>1, <1>2, <1>3 DEF KeptInv, PrimaryInv, A!Readable
  <2>2. Slack = faults
    BY <1>1, <1>2, <1>3 DEF Slack
  <2>3. faults' = faults /\ Slack <= Slack' /\ Slack' = faults' /\ faults' # 0 /\ chain' = chain
    BY <1>1, <1>2, <2>1, <2>2
  <2> QED BY <1>1, <1>3, <2>3, LoseFirst
<1>4. CASE A!Readable(primary)
  <2>1. backup'[1] = primary /\ 1 \in 1..Backups
    BY <1>1, <1>2
  <2>2. \A p : Newest(backup', p) => p = 1
    BY <2>1, <1>4, <1>2 DEF Newest
  <2>3. ~None(backup')
    BY <2>1, <1>4 DEF None
  <2>4. ASSUME NEW p, Newest(backup', p) PROVE p <= Reach(p)'
    <3>1. p = 1
      BY <2>2, <2>4
    <3>2. Reach(1)' = faults + 1
      BY <1>1, <1>2 DEF Reach
    <3> QED BY <3>1, <3>2, <1>2
  <2>5. Recent(backup[1], Slack)'
    <3>1. Len(chain) >= 1 /\ primary = chain[Len(chain)]
      BY <1>4 DEF KeptInv, PrimaryInv
    <3>2. 0 \in 0..Slack' /\ 0 < Len(chain') /\ backup'[1] = chain'[Len(chain') - 0]
      BY <3>1, <2>1, <1>1, <1>2
    <3> QED BY <3>2 DEF Recent
  <2> QED BY <2>2, <2>3, <2>4, <2>5, <1>1 DEF BackupInv
<1> QED BY <1>3, <1>4

\* The rename makes one change, which the primary now holds.
LEMMA CommittedKept ==
  ASSUME KeptInv, ~IsStore(Absent), ~IsStore(Torn), A!Committed
  PROVE  PrimaryInv' /\ BackupInv'
<1>1. /\ primary' = store /\ chain' = Append(chain, store) /\ UNCHANGED <<backup, faults, up>>
      /\ commit.at = "rename" /\ ~Rotating /\ commit'.at = "idle" /\ ~Rotating' /\ A!Readable(primary')
  BY DEF A!Committed, A!Calling, A!Idle, KeptInv, StoresInv, Rotating, A!Readable
<1>2. PICK S : chain \in Seq(S)
  BY DEF KeptInv, PrimaryInv
<1> DEFINE n == Len(chain)
<1>3. /\ n \in Nat /\ Len(chain') = n + 1 /\ chain'[n + 1] = store /\ chain' \in Seq(S \cup {store})
      /\ \A k \in 1..n : chain'[k] = chain[k]
  BY <1>1, <1>2
<1>4. faults \in Nat /\ Slack = faults /\ Slack' = faults + 1
  BY <1>1 DEF KeptInv, PrimaryInv, Slack
<1>5. PrimaryInv'
  <2>1. faults' \in Nat /\ \E T : chain' \in Seq(T)
    BY <1>1, <1>3, <1>4
  <2>2. Len(chain') >= 1 /\ primary' = chain'[Len(chain')]
    BY <1>1, <1>3
  <2>3. primary' # Torn
    BY <1>1 DEF A!Readable
  <2> QED BY <1>1, <2>1, <2>2, <2>3 DEF PrimaryInv
<1>6. BackupInv'
  <2>1. ASSUME NEW p, Newest(backup', p) PROVE p <= Reach(p)'
    <3>1. p \in 1..Backups /\ p <= Reach(p)
      BY <1>1, <2>1 DEF KeptInv, BackupInv, Newest
    <3>2. Reach(p) = faults + 1 /\ Reach(p)' = faults + 1
      BY <1>1, <1>4 DEF Reach
    <3> QED BY <3>1, <3>2
  <2>2. Slack' < Backups /\ None(backup') => Len(chain') <= Slack'
    BY <1>1, <1>3, <1>4, AdapterAssumption DEF KeptInv, BackupInv
  <2>3. ASSUME Slack' < Backups, NEW p, Newest(backup', p) PROVE Recent(backup[p], Slack)'
    <3>1. Recent(backup[p], Slack)
      BY <1>1, <1>4, <2>3, AdapterAssumption DEF KeptInv, BackupInv
    <3>2. PICK lost \in 0..faults : lost < n /\ backup[p] = chain[n - lost]
      BY <3>1, <1>4 DEF Recent
    <3>3. lost + 1 \in 0..Slack' /\ lost + 1 < Len(chain') /\ backup'[p] = chain'[Len(chain') - (lost + 1)]
      BY <3>2, <1>1, <1>3, <1>4
    <3> QED BY <3>3 DEF Recent
  <2> QED BY <2>1, <2>2, <2>3, <1>1 DEF BackupInv
<1> QED BY <1>5, <1>6

\* The steps between two commits.
LEMMA QuietKept ==
  ASSUME KeptInv, UNCHANGED <<chain, backup, primary, faults>>, ~Rotating, commit'.at # "rename" \/ commit.at = "rename",
         ~up' => commit'.at = "idle",
         Rotating' => commit'.turn = Backups /\ A!Readable(primary)
  PROVE  PrimaryInv' /\ BackupInv'
<1>1. faults \in Nat /\ \E S : chain \in Seq(S)
  BY DEF KeptInv, PrimaryInv
<1>2. PrimaryInv'
  BY <1>1 DEF KeptInv, PrimaryInv, A!Readable
<1>3. Slack <= Slack'
  BY <1>1 DEF Slack
<1> QED BY <1>2, <1>3, SameBackups DEF KeptInv

\* An operation only starts its commit.
LEMMA BeginKept ==
  ASSUME KeptInv, NEW s, NEW op, NEW a, A!Begin(s, op, a) PROVE PrimaryInv' /\ BackupInv'
<1>1. /\ UNCHANGED <<chain, backup, primary, faults>> /\ commit.at = "idle" /\ commit'.at = "write" /\ up'
  BY DEF A!Begin, A!Idle
<1>2. ~Rotating /\ ~Rotating'
  BY <1>1 DEF Rotating
<1> QED BY <1>1, <1>2, QuietKept

\* The rotation starts only over a primary that can be read.
LEMMA WriteKept == ASSUME KeptInv, A!WriteTempFile PROVE PrimaryInv' /\ BackupInv'
<1>1. /\ UNCHANGED <<chain, backup, primary, faults, up>> /\ commit.at = "write" /\ up /\ commit.turn = Backups
      /\ commit' = [commit EXCEPT !.at = IF ~A!Readable(primary) THEN "rename"
                                         ELSE IF Backups > 1 THEN "rotate" ELSE "copy"]
  BY DEF A!WriteTempFile, A!Calling, KeptInv, StoresInv
<1>2. ~Rotating /\ commit'.turn = Backups
  BY <1>1 DEF Rotating, KeptInv, StoresInv
<1>3. CASE A!Readable(primary)
  <2>1. commit'.at \in {"rotate", "copy"}
    BY <1>1, <1>3 DEF KeptInv, StoresInv
  <2> QED BY <1>1, <1>2, <1>3, <2>1, QuietKept
<1>4. CASE ~A!Readable(primary)
  <2>1. commit'.at = "rename" /\ ~Rotating'
    BY <1>1, <1>4 DEF KeptInv, StoresInv, Rotating
  <2>2. faults \in Nat /\ \E S : chain \in Seq(S)
    BY DEF KeptInv, PrimaryInv
  <2>3. PrimaryInv'
    BY <1>1, <2>1, <2>2 DEF KeptInv, PrimaryInv, A!Readable
  <2>4. Slack <= Slack'
    BY <1>1, <1>4, <2>1, <2>2 DEF Slack
  <2> QED BY <1>1, <1>2, <2>1, <2>3, <2>4, SameBackups DEF KeptInv
<1> QED BY <1>3, <1>4

\* A damaged primary: the change it held is what the slack had counted for it.
LEMMA DamageKept == ASSUME KeptInv, A!Damage PROVE PrimaryInv' /\ BackupInv'
<1>1. /\ A!Readable(primary) /\ primary' = Torn /\ faults' = faults + 1
      /\ UNCHANGED <<chain, backup, commit, up>> /\ ~A!Readable(primary')
  BY DEF A!Damage, A!Readable
<1>2. faults \in Nat /\ \E S : chain \in Seq(S)
  BY DEF KeptInv, PrimaryInv
<1>3. PrimaryInv'
  BY <1>1, <1>2, AdapterAssumption DEF KeptInv, PrimaryInv, Rotating
<1>4. Slack <= Slack'
  BY <1>1, <1>2 DEF Slack
<1>5. ASSUME NEW p \in 1..Backups PROVE Reach(p) <= Reach(p)'
  <2>1. Rotating' <=> Rotating
    BY <1>1 DEF Rotating
  <2>2. Reach(p) = faults + 1 + (IF Rotating /\ p > commit.turn THEN 1 ELSE 0)
    BY <1>1 DEF Reach
  <2>3. Reach(p)' = faults + 1 + (IF Rotating THEN 0 ELSE 1) + (IF Rotating /\ p > commit.turn THEN 1 ELSE 0)
    BY <1>1, <2>1 DEF Reach
  <2> QED BY <1>2, <2>2, <2>3
<1>6. Rotating' /\ commit'.turn < Backups => ~A!Readable(backup'[commit'.turn])
  BY <1>1 DEF KeptInv, BackupInv, Rotating
<1> QED BY <1>1, <1>3, <1>4, <1>5, <1>6, Carry DEF KeptInv

\* A death in the rotation is a fault of its own.
LEMMA DieKept == ASSUME KeptInv, NEW torn \in BOOLEAN, A!Die(torn) PROVE PrimaryInv' /\ BackupInv'
<1>1. /\ commit'.at = "idle" /\ ~Rotating' /\ ~up' /\ UNCHANGED <<primary, chain>>
      /\ IF Rotating THEN faults' = faults + 1 ELSE faults' = faults
      /\ backup' = backup \/ (commit.at = "copy" /\ backup' = [backup EXCEPT ![1] = Torn])
  BY DEF A!Die, A!Idle, Rotating
<1>2. faults \in Nat /\ \E S : chain \in Seq(S)
  BY DEF KeptInv, PrimaryInv
<1>3. PrimaryInv'
  BY <1>1, <1>2 DEF KeptInv, PrimaryInv, A!Readable
<1>4. /\ Slack <= Slack'
      /\ faults' = faults \/ faults' = faults + 1
      /\ Slack' = faults' \/ Slack' = faults' + 1
  BY <1>1, <1>2 DEF Slack
<1>5. CASE backup' = backup
  <2>1. ASSUME NEW p \in 1..Backups PROVE Reach(p) <= Reach(p)'
    <3>1. Reach(p)' = faults' + 1
      BY <1>1, <1>2 DEF Reach
    <3>2. CASE Rotating
      BY <1>1, <1>2, <3>1, <3>2 DEF Reach
    <3>3. CASE ~Rotating
      BY <1>1, <1>2, <3>1, <3>3 DEF Reach
    <3> QED BY <3>2, <3>3
  <2> QED BY <1>1, <1>3, <1>4, <1>5, <2>1, Carry DEF KeptInv
<1>6. CASE commit.at = "copy" /\ backup' = [backup EXCEPT ![1] = Torn]
  <2>1. faults' = faults + 1 /\ faults' # 0 /\ ~A!Readable(Torn)
    BY <1>1, <1>2, <1>6 DEF Rotating, A!Readable
  <2> QED BY <1>1, <1>3, <1>4, <1>6, <2>1, LoseFirst
<1> QED BY <1>1, <1>5, <1>6

\* Every step keeps the invariant.
LEMMA KeptStep ==
  ASSUME KeptInv, ~IsStore(Absent), ~IsStore(Torn), A!AdapterNext
  PROVE  PrimaryInv' /\ BackupInv'
<1>1. ASSUME NEW a \in Adapters, A!Discover(a) PROVE PrimaryInv' /\ BackupInv'
  BY <1>1, BeginKept DEF A!Discover, A!SavePending
<1>2. ASSUME NEW a \in Adapters, A!Apply(a) PROVE PrimaryInv' /\ BackupInv'
  BY <1>2, BeginKept DEF A!Apply
<1>3. ASSUME NEW a \in Adapters, A!RejectRoute(a) \/ A!Reject(a) PROVE PrimaryInv' /\ BackupInv'
  <2>1. CASE A!Reject(a) /\ a \in A!Listed(store)
    BY <2>1, BeginKept DEF A!Reject
  <2>2. CASE UNCHANGED <<store, primary, backup, commit, answering, registry, up, chain, faults>>
    BY <2>2 DEF KeptInv, PrimaryInv, BackupInv, Slack, Reach, Rotating, Newest, None, Recent
  <2> QED BY <1>3, <2>1, <2>2 DEF A!RejectRoute, A!Reject
<1>4. ASSUME NEW a \in Adapters \cup {NoAdapter}, A!RollbackRoute(a) PROVE PrimaryInv' /\ BackupInv'
  BY <1>4, BeginKept DEF A!RollbackRoute, A!Rollback
<1>5. CASE A!WriteTempFile
  BY <1>5, WriteKept
<1>6. CASE A!RotateBackup
  <2>1. PrimaryInv'
    <3>1. /\ UNCHANGED <<primary, chain, faults, up>> /\ up
          /\ Rotating
      BY <1>6 DEF A!RotateBackup, A!Calling, Rotating
    <3>2. faults \in Nat /\ \E S : chain \in Seq(S)
      BY DEF KeptInv, PrimaryInv
    <3> QED BY <3>1, <3>2 DEF KeptInv, PrimaryInv, A!Readable
  <2> QED BY <1>6, <2>1, RotateKept
<1>7. CASE A!CopyPrimary
  <2>1. PrimaryInv'
    <3>1. /\ UNCHANGED <<primary, chain, faults, up>> /\ up /\ Rotating
      BY <1>7 DEF A!CopyPrimary, A!Calling, Rotating
    <3>2. faults \in Nat /\ \E S : chain \in Seq(S)
      BY DEF KeptInv, PrimaryInv
    <3> QED BY <3>1, <3>2 DEF KeptInv, PrimaryInv, A!Readable
  <2> QED BY <1>7, <2>1, CopyKept
<1>8. CASE A!CopyFails
  <2>1. /\ UNCHANGED <<primary, chain, up>> /\ up /\ Rotating /\ ~Rotating' /\ commit.at = "copy"
        /\ commit'.at = "rename" /\ faults' = faults + 1 /\ backup' = [backup EXCEPT ![1] = Torn]
    BY <1>8 DEF A!CopyFails, A!Calling, Rotating, KeptInv, StoresInv
  <2>2. faults \in Nat /\ \E S : chain \in Seq(S)
    BY DEF KeptInv, PrimaryInv
  <2>3. PrimaryInv'
    BY <2>1, <2>2 DEF KeptInv, PrimaryInv, A!Readable
  <2>4. Slack <= Slack' /\ Slack' = faults' /\ faults' # 0 /\ ~A!Readable(Torn)
    BY <2>1, <2>2 DEF Slack, A!Readable
  <2> QED BY <2>1, <2>3, <2>4, LoseFirst
<1>9. CASE A!Committed
  BY <1>9, CommittedKept
<1>10. CASE (A!Calling("write") \/ A!Calling("rename")) /\ A!Throws
  <2>1. /\ UNCHANGED <<chain, backup, primary, faults>> /\ ~Rotating /\ commit'.at = "idle" /\ ~Rotating'
    BY <1>10 DEF A!Throws, A!Calling, A!Idle, Rotating
  <2> QED BY <2>1, QuietKept
<1>11. CASE A!Publish
  <2>1. UNCHANGED <<primary, backup, chain, faults, up, commit>>
    BY <1>11 DEF A!Publish
  <2> QED BY <2>1 DEF KeptInv, PrimaryInv, BackupInv, Slack, Reach, Rotating, Newest, None, Recent, A!Readable
<1>12. CASE A!Load
  <2>1. /\ UNCHANGED <<chain, backup, primary, faults>> /\ commit.at = "idle" /\ up' /\ commit'.at \in {"idle", "write"}
    BY <1>12 DEF A!Load, A!Idle, KeptInv, PrimaryInv
  <2>2. ~Rotating /\ ~Rotating'
    BY <2>1 DEF Rotating
  <2> QED BY <2>1, <2>2, QuietKept
<1>13. CASE A!Damage
  BY <1>13, DamageKept
<1>14. ASSUME NEW torn \in BOOLEAN, A!Die(torn) PROVE PrimaryInv' /\ BackupInv'
  BY <1>14, DieKept
<1> QED
  BY <1>1, <1>2, <1>3, <1>4, <1>5, <1>6, <1>7, <1>8, <1>9, <1>10, <1>11, <1>12, <1>13, <1>14
  DEF A!AdapterNext, A!CommitStep

\* It holds at first.
LEMMA KeptInit == ASSUME A!AdapterInit, ~IsStore(Torn) PROVE PrimaryInv /\ BackupInv
<1>1. /\ faults = 0 /\ commit.at = "idle" /\ ~up /\ ~Rotating
      /\ backup = [i \in 1..Backups |-> Absent]
      /\ chain = IF primary = Absent THEN << >> ELSE <<primary>>
  BY DEF A!AdapterInit, A!Idle, Rotating
<1>2. None(backup)
  BY <1>1 DEF None, A!Readable
<1>3. primary # Absent => Len(chain) = 1 /\ chain[1] = primary
  BY <1>1
<1>4. primary = Absent \/ IsStore(primary)
  <2>1. primary = Absent \/ A!Readable(primary) \/ primary = Torn
    BY DEF A!Readable
  <2>2. primary # Torn
    BY InitialPrimary, AdapterAssumption
  <2> QED BY <2>1, <2>2, OutInit DEF OutInv, StoresInv
<1>5. primary # Torn
  BY <1>4, AdapterAssumption
<1>6. PrimaryInv
  <2>1. \E S : chain \in Seq(S)
    <3>1. chain \in Seq({primary})
      <4>1. << >> \in Seq({primary}) /\ <<primary>> \in Seq({primary})
        OBVIOUS
      <4> QED BY <1>1, <4>1
    <3> QED BY <3>1
  <2> QED BY <1>1, <1>3, <1>5, <2>1 DEF PrimaryInv, A!Readable
<1>7. Len(chain) <= Slack
  <2>1. CASE primary = Absent
    BY <2>1, <1>1 DEF Slack, A!Readable
  <2>2. CASE primary # Absent
    BY <2>2, <1>1, <1>3, <1>5 DEF Slack, A!Readable
  <2> QED BY <2>1, <2>2
<1>8. \A p : ~Newest(backup, p)
  BY <1>2 DEF Newest, None
<1> QED BY <1>1, <1>6, <1>7, <1>8 DEF BackupInv

\* A primary that is damaged costs one change of the adapters, and so does each rotation
\* that was cut short or could not copy, while there are more backups than such faults;
\* nothing else costs any (adapter-store.ts, commitUnlocked and loadUnlocked).
THEOREM FaultsCostOneChangeEach ==
  ASSUME ~IsStore(Absent), ~IsStore(Torn)
  PROVE  Spec => []OneFaultOneChange
<1> DEFINE Inv == OutInv /\ KeptInv
<1>1. Init => Inv
  BY OutInit, KeptInit DEF Init, NoAdapters, OutInv, KeptInv
<1>2. Inv /\ [Next]_vars => Inv'
  <2> SUFFICES ASSUME Inv, [Next]_vars PROVE Inv'
    OBVIOUS
  <2>1. CASE UNCHANGED adapterVars
    <3>1. UNCHANGED <<store, primary, backup, commit, answering, registry, up, revoked, chain, faults>>
      BY <2>1 DEF adapterVars
    <3>2. OutInv'
      BY <3>1 DEF OutInv, StoresInv, RevokedInv
    <3>3. PrimaryInv' /\ BackupInv'
      BY <3>1 DEF KeptInv, PrimaryInv, BackupInv, Slack, Reach, Rotating, Newest, None, Recent
    <3> QED BY <3>2, <3>3 DEF OutInv, KeptInv
  <2>2. CASE A!AdapterNext
    BY <2>2, OutStep, KeptStep DEF OutInv, KeptInv
  <2> QED BY <2>1, <2>2 DEF Next, vars
<1>3. Inv => OneFaultOneChange
  BY KeptImplies DEF OneFaultOneChange
<1> QED BY <1>1, <1>2, <1>3, PTL DEF Spec

================================================================================
