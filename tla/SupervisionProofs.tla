--------------------------- MODULE SupervisionProofs ---------------------------
(***************************************************************************)
(* Proofs about the supervision store, for every number of grants, issues  *)
(* and operations.  Each step of the manager is shown to commit a store    *)
(* that is sane and has grown out of the one in memory, to let time pass,  *)
(* or to be a crash or a restart; what is promised follows from that.      *)
(***************************************************************************)
EXTENDS SupervisionHistory, FiniteSetTheorems, TLAPS

--------------------------------------------------------------------------------
(* What every store satisfies, and what every commit does to it.           *)

GrantSet(s)  == {g \in Grants : Granted(s, g)}
PermitSet(s) == {i \in Issues : s.permit[i].status # "absent"}

\* The code of the grant has been turned into a token, or voided.
CodeGone(gr) == gr.cred \in {"token", "void"}

\* A permit belongs to a grant, a revoked grant has no credential, and what is
\* not there has used nothing.
Coherent(s) ==
    /\ \A i \in PermitSet(s) : s.permit[i].grant \in GrantSet(s)
    /\ \A g \in Grants :
          /\ s.grant[g].status = "revoked" => s.grant[g].cred = "void"
          /\ s.grant[g].status = "absent" => s.grant[g] = NoGrantRecord

Sane(s) ==
    /\ s \in SupStores
    /\ SupLoadable(s)
    /\ IsFiniteSet(GrantSet(s)) /\ IsFiniteSet(PermitSet(s))
    /\ Coherent(s)

Grows(s, t) ==
    \A g \in Grants :
        /\ s.grant[g].status = "revoked" => t.grant[g].status = "revoked"
        /\ s.grant[g].used <= t.grant[g].used
        /\ CodeGone(s.grant[g]) => CodeGone(t.grant[g])
        /\ Granted(s, g) => Granted(t, g) /\ t.grant[g].workspace = s.grant[g].workspace

\* A grant's control version never falls, and rises when its terms or its pauses
\* change.
Advances(gr, old) ==
    /\ gr.version \in Nat /\ old.version <= gr.version
    /\ Terms(gr) # Terms(old) \/ gr.pauses # old.pauses => old.version < gr.version

SamePause(gr, old) == "pending_issue" \in gr.pauses <=> "pending_issue" \in old.pauses

\* A permit that leaves "pending" is consumed only at its grant's version; one that
\* stays keeps its grant and the version it was made for.
Retires(s, t) ==
    \A i \in Issues :
        LET p == s.permit[i]
            q == t.permit[i] IN
        \/ q = p
        \/ /\ p.status = "pending" /\ q.grant = p.grant /\ q.version = p.version
           /\ \/ q.status \in {"pending", "expired", "revoked"}
              \/ q.status = "consumed" /\ p.version = s.grant[p.grant].version

\* Permit `i` is new, and made for the version of an active grant.
MadeFor(s, t, i) ==
    /\ s.permit[i].status = "absent" /\ t.permit[i].status = "pending"
    /\ t.permit[i].grant \in Grants
    /\ LET gr == t.grant[t.permit[i].grant] IN
       gr.status = "active" /\ t.permit[i].version = gr.version
    /\ \A j \in Issues \ {i} : t.permit[j] = s.permit[j]

Evolves(s, t) ==
    /\ \A g \in Grants : Advances(t.grant[g], s.grant[g])
    /\ Retires(s, t) \/ \E i \in Issues : MadeFor(s, t, i)

\* PausedWhileIssuePending, of a store.
IssuesPause(s) ==
    \A g \in Grants : "pending_issue" \in s.grant[g].pauses <=> PendingPermits(s, g) # {}

\* Callers leave the pause for issues alone, and so the store keeps it right.
KeepsIssuesPause(s, t) ==
    "pending_issue" \notin CallerReasons /\ IssuesPause(s) => IssuesPause(t)

\* SupLoadable in the terms used here.
LEMMA LoadableMeans ==
  ASSUME NEW s
  PROVE  SupLoadable(s) <=>
            /\ \A g \in Grants : s.grant[g].used <= s.grant[g].limit
            /\ Cardinality(GrantSet(s)) <= MaxGrants
            /\ Cardinality(PermitSet(s)) <= MaxIssuePermits
  BY DEF SupLoadable, GrantSet, PermitSet

\* The empty store is sane: the manager starts from it.
LEMMA EmptySane == Sane(EmptySup)
<1>1. EmptySup \in SupStores
  BY DEF EmptySup, SupStores, NoGrantRecord, NoPermitRecord, GrantRecords, PermitRecords
<1>2. GrantSet(EmptySup) = {} /\ PermitSet(EmptySup) = {}
  BY DEF EmptySup, GrantSet, PermitSet, Granted, NoGrantRecord, NoPermitRecord
<1>3. SupLoadable(EmptySup)
  <2>1. \A g \in Grants : EmptySup.grant[g].used <= EmptySup.grant[g].limit
    BY DEF EmptySup, NoGrantRecord
  <2>2. MaxGrants \in Nat /\ MaxIssuePermits \in Nat
    BY SupervisionAssumption
  <2>3. Cardinality(GrantSet(EmptySup)) = 0 /\ Cardinality(PermitSet(EmptySup)) = 0
    BY <1>2, FS_EmptySet
  <2> QED BY <2>1, <2>2, <2>3, LoadableMeans
<1>4. Coherent(EmptySup)
  BY <1>2 DEF Coherent, EmptySup, NoGrantRecord
<1> QED BY <1>1, <1>2, <1>3, <1>4, FS_EmptySet DEF Sane

\* What a record of a grant must keep for the store to stay sane.
Succeeds(gr, old) ==
    /\ gr \in GrantRecords
    /\ gr.status # "absent" /\ gr.workspace = old.workspace
    /\ gr.status = "revoked" => gr.cred = "void"
    /\ old.status = "revoked" => gr.status = "revoked"
    /\ old.used <= gr.used /\ gr.used <= gr.limit
    /\ CodeGone(old) => CodeGone(gr)

\* Replacing a grant that is there by one that succeeds it keeps a store sane.
LEMMA SetGrantSane ==
  ASSUME NEW s, Sane(s), NEW g \in Grants, Granted(s, g),
         NEW gr, Succeeds(gr, s.grant[g])
  PROVE  LET t == [s EXCEPT !.grant[g] = gr] IN Sane(t) /\ Grows(s, t)
<1> DEFINE t == [s EXCEPT !.grant[g] = gr]
<1>1. /\ s \in [grant : [Grants -> GrantRecords], permit : [Issues -> PermitRecords]]
      /\ t.grant = [s.grant EXCEPT ![g] = gr] /\ t.permit = s.permit
      /\ t.grant[g] = gr
      /\ \A h \in Grants : h # g => t.grant[h] = s.grant[h]
  BY DEF Sane, SupStores
<1>2. t \in SupStores
  BY <1>1 DEF SupStores, Succeeds
<1>3. GrantSet(t) = GrantSet(s)
  <2>1. \A h \in Grants : Granted(t, h) <=> Granted(s, h)
    BY <1>1 DEF Granted, Succeeds
  <2> QED BY <2>1 DEF GrantSet
<1>4. PermitSet(t) = PermitSet(s)
  BY <1>1 DEF PermitSet
<1>5. SupLoadable(t)
  <2>1. \A h \in Grants : t.grant[h].used <= t.grant[h].limit
    BY <1>1, LoadableMeans DEF Sane, Succeeds
  <2> QED BY <2>1, <1>3, <1>4, LoadableMeans DEF Sane
<1>6. Coherent(t)
  BY <1>1, <1>3, <1>4 DEF Sane, Coherent, Succeeds
<1>7. Grows(s, t)
  <2> SUFFICES ASSUME NEW h \in Grants
               PROVE  /\ s.grant[h].status = "revoked" => t.grant[h].status = "revoked"
                      /\ s.grant[h].used <= t.grant[h].used
                      /\ CodeGone(s.grant[h]) => CodeGone(t.grant[h])
                      /\ Granted(s, h) => /\ Granted(t, h)
                                         /\ t.grant[h].workspace = s.grant[h].workspace
    BY DEF Grows
  <2>1. s.grant[h].used \in Nat
    BY <1>1 DEF GrantRecords
  <2> QED BY <2>1, <1>1 DEF Succeeds, Granted
<1> QED BY <1>2, <1>3, <1>4, <1>5, <1>6, <1>7 DEF Sane

\* Replacing permits, the same ones being there with the grants they had, keeps a
\* store sane.
LEMMA SetPermitsSane ==
  ASSUME NEW s, Sane(s), NEW permits \in [Issues -> PermitRecords],
         \A i \in Issues : permits[i].status = "absent" <=> s.permit[i].status = "absent",
         \A i \in Issues : permits[i].grant = s.permit[i].grant
  PROVE  LET t == [s EXCEPT !.permit = permits] IN
         Sane(t) /\ Grows(s, t) /\ t.grant = s.grant
<1> DEFINE t == [s EXCEPT !.permit = permits]
<1>1. /\ s \in [grant : [Grants -> GrantRecords], permit : [Issues -> PermitRecords]]
      /\ t.grant = s.grant /\ t.permit = permits
  BY DEF Sane, SupStores
<1>2. t \in SupStores
  BY <1>1 DEF SupStores
<1>3. GrantSet(t) = GrantSet(s)
  BY <1>1 DEF GrantSet, Granted
<1>4. PermitSet(t) = PermitSet(s)
  BY <1>1 DEF PermitSet
<1>5. SupLoadable(t)
  BY <1>1, <1>3, <1>4, LoadableMeans DEF Sane
<1>6. Coherent(t)
  BY <1>1, <1>3, <1>4 DEF Sane, Coherent, PermitSet
<1>7. Grows(s, t)
  BY <1>1 DEF Grows, Granted, GrantRecords
<1> QED BY <1>1, <1>2, <1>3, <1>4, <1>5, <1>6, <1>7 DEF Sane

\* Growth is transitive, on stores.
LEMMA GrowsTransitive ==
  ASSUME NEW s \in SupStores, NEW t \in SupStores, NEW u \in SupStores,
         Grows(s, t), Grows(t, u)
  PROVE  Grows(s, u)
<1> SUFFICES ASSUME NEW g \in Grants
             PROVE  /\ s.grant[g].status = "revoked" => u.grant[g].status = "revoked"
                    /\ s.grant[g].used <= u.grant[g].used
                    /\ CodeGone(s.grant[g]) => CodeGone(u.grant[g])
                    /\ Granted(s, g) => Granted(u, g) /\ u.grant[g].workspace = s.grant[g].workspace
  BY DEF Grows
<1>1. s.grant[g].used \in Nat /\ t.grant[g].used \in Nat /\ u.grant[g].used \in Nat
  BY DEF SupStores, GrantRecords
<1> QED BY <1>1 DEF Grows

\* A grant that is there succeeds itself.
LEMMA SelfSucceeds ==
  ASSUME NEW s, Sane(s), NEW g \in Grants, Granted(s, g)
  PROVE  Succeeds(s.grant[g], s.grant[g])
<1>1. s.grant[g] \in GrantRecords
  BY DEF Sane, SupStores
<1>2. s.grant[g].used \in Nat
  BY <1>1 DEF GrantRecords
<1> QED BY <1>1, <1>2, LoadableMeans DEF Succeeds, Sane, Coherent, Granted

\* A new control version changes nothing that must be kept.
LEMMA RotateSucceeds ==
  ASSUME NEW old, NEW gr, Succeeds(gr, old)
  PROVE  Succeeds(Rotate(gr), old)
  BY DEF CodeGone, Succeeds, Rotate, GrantRecords

\* Nor does another set of pause reasons,
LEMMA PausesSucceed ==
  ASSUME NEW old, NEW gr, Succeeds(gr, old), NEW pauses \in SUBSET PauseReasons
  PROVE  Succeeds([gr EXCEPT !.pauses = pauses], old)
  BY DEF CodeGone, Succeeds, GrantRecords

\* one reason more,
LEMMA AddPauseSucceeds ==
  ASSUME NEW old, NEW gr, Succeeds(gr, old), NEW reason \in PauseReasons
  PROVE  Succeeds(AddPause(gr, reason), old)
<1>1. gr.pauses \cup {reason} \in SUBSET PauseReasons
  BY DEF Succeeds, GrantRecords
<1>2. Succeeds(Rotate([gr EXCEPT !.pauses = gr.pauses \cup {reason}]), old)
  BY <1>1, PausesSucceed, RotateSucceeds
<1> QED BY <1>2 DEF AddPause

\* or one less.
LEMMA DropPauseSucceeds ==
  ASSUME NEW old, NEW gr, Succeeds(gr, old), NEW reason
  PROVE  Succeeds(DropPause(gr, reason), old)
<1>1. gr.pauses \ {reason} \in SUBSET PauseReasons
  BY DEF Succeeds, GrantRecords
<1> QED BY <1>1, PausesSucceed, RotateSucceeds DEF DropPause

\* Lifting the pause for issues keeps a store sane.
LEMMA LiftSane ==
  ASSUME NEW s, Sane(s), NEW g \in Grants, Granted(s, g)
  PROVE  Sane(LiftPendingIssue(s, g)) /\ Grows(s, LiftPendingIssue(s, g))
<1>1. CASE PendingPermits(s, g) = {} /\ "pending_issue" \in s.grant[g].pauses
  <2> DEFINE gr == DropPause(s.grant[g], "pending_issue")
  <2>1. Succeeds(gr, s.grant[g])
    BY SelfSucceeds, DropPauseSucceeds
  <2>2. LiftPendingIssue(s, g) = [s EXCEPT !.grant[g] = gr]
    BY <1>1 DEF LiftPendingIssue
  <2> HIDE DEF gr
  <2> QED BY <2>1, <2>2, SetGrantSane
<1>2. CASE ~(PendingPermits(s, g) = {} /\ "pending_issue" \in s.grant[g].pauses)
  <2>1. LiftPendingIssue(s, g) = s
    BY <1>2 DEF LiftPendingIssue
  <2>2. Grows(s, s)
    BY DEF Grows, Sane, SupStores, GrantRecords
  <2> QED BY <2>1, <2>2
<1> QED BY <1>1, <1>2

\* Replacing all grants, those that are there by ones that succeed them, keeps a
\* store sane.
LEMMA SetGrantsSane ==
  ASSUME NEW s, Sane(s), NEW grants \in [Grants -> GrantRecords],
         \A g \in Grants : IF Granted(s, g) THEN Succeeds(grants[g], s.grant[g])
                           ELSE grants[g] = s.grant[g]
  PROVE  LET t == [s EXCEPT !.grant = grants] IN Sane(t) /\ Grows(s, t)
<1> DEFINE t == [s EXCEPT !.grant = grants]
<1>1. /\ s \in [grant : [Grants -> GrantRecords], permit : [Issues -> PermitRecords]]
      /\ t.grant = grants /\ t.permit = s.permit
  BY DEF Sane, SupStores
<1>2. t \in SupStores
  BY <1>1 DEF SupStores
<1>3. GrantSet(t) = GrantSet(s)
  <2>1. \A h \in Grants : Granted(t, h) <=> Granted(s, h)
    BY <1>1 DEF Granted, Succeeds
  <2> QED BY <2>1 DEF GrantSet
<1>4. PermitSet(t) = PermitSet(s)
  BY <1>1 DEF PermitSet
<1>5. SupLoadable(t)
  <2>1. \A h \in Grants : t.grant[h].used <= t.grant[h].limit
    BY <1>1, LoadableMeans DEF Sane, Succeeds
  <2> QED BY <2>1, <1>3, <1>4, LoadableMeans DEF Sane
<1>6. Coherent(t)
  BY <1>1, <1>3, <1>4 DEF Sane, Coherent, Succeeds
<1>7. Grows(s, t)
  <2> SUFFICES ASSUME NEW h \in Grants
               PROVE  /\ s.grant[h].status = "revoked" => t.grant[h].status = "revoked"
                      /\ s.grant[h].used <= t.grant[h].used
                      /\ CodeGone(s.grant[h]) => CodeGone(t.grant[h])
                      /\ Granted(s, h) => /\ Granted(t, h)
                                         /\ t.grant[h].workspace = s.grant[h].workspace
    BY DEF Grows
  <2>1. s.grant[h].used \in Nat
    BY <1>1 DEF GrantRecords
  <2> QED BY <2>1, <1>1 DEF Succeeds, Granted
<1> QED BY <1>2, <1>3, <1>4, <1>5, <1>6, <1>7 DEF Sane

\* A new grant in a store with room for it.
LEMMA AddGrantSane ==
  ASSUME NEW s, Sane(s), NEW g \in Grants, ~Granted(s, g), NEW gr \in GrantRecords,
         gr.status = "active", gr.used = 0, Cardinality(GrantSet(s)) < MaxGrants
  PROVE  LET t == [s EXCEPT !.grant[g] = gr] IN Sane(t) /\ Grows(s, t)
<1> DEFINE t == [s EXCEPT !.grant[g] = gr]
<1>1. /\ s \in [grant : [Grants -> GrantRecords], permit : [Issues -> PermitRecords]]
      /\ t.grant = [s.grant EXCEPT ![g] = gr] /\ t.permit = s.permit
      /\ t.grant[g] = gr
      /\ \A h \in Grants : h # g => t.grant[h] = s.grant[h]
  BY DEF Sane, SupStores
<1>2. t \in SupStores
  BY <1>1 DEF SupStores
<1>3. GrantSet(t) = GrantSet(s) \cup {g} /\ g \notin GrantSet(s)
  BY <1>1 DEF GrantSet, Granted
<1>4. PermitSet(t) = PermitSet(s)
  BY <1>1 DEF PermitSet
<1>5. IsFiniteSet(GrantSet(t)) /\ Cardinality(GrantSet(t)) = Cardinality(GrantSet(s)) + 1
  BY <1>3, FS_AddElement DEF Sane
<1>6. SupLoadable(t)
  <2>1. \A h \in Grants : t.grant[h].used <= t.grant[h].limit
    BY <1>1, LoadableMeans DEF Sane, GrantRecords
  <2>2. Cardinality(GrantSet(s)) \in Nat /\ MaxGrants \in Nat
    BY FS_CardinalityType, SupervisionAssumption DEF Sane
  <2>3. Cardinality(GrantSet(t)) <= MaxGrants
    BY <2>2, <1>5
  <2>4. Cardinality(PermitSet(t)) <= MaxIssuePermits
    BY <1>4, LoadableMeans DEF Sane
  <2> QED BY <2>1, <2>3, <2>4, LoadableMeans
<1>7. Coherent(t)
  BY <1>1, <1>3, <1>4 DEF Sane, Coherent, GrantSet
<1>8. Grows(s, t)
  <2> SUFFICES ASSUME NEW h \in Grants
               PROVE  /\ s.grant[h].status = "revoked" => t.grant[h].status = "revoked"
                      /\ s.grant[h].used <= t.grant[h].used
                      /\ CodeGone(s.grant[h]) => CodeGone(t.grant[h])
                      /\ Granted(s, h) => /\ Granted(t, h)
                                         /\ t.grant[h].workspace = s.grant[h].workspace
    BY DEF Grows
  <2>1. s.grant[h].used \in Nat
    BY <1>1 DEF GrantRecords
  <2>2. s.grant[g].status = "absent" /\ s.grant[g].used = 0 /\ ~CodeGone(s.grant[g])
    BY DEF Granted, Sane, Coherent, NoGrantRecord, CodeGone
  <2> QED BY <2>1, <2>2, <1>1 DEF Granted
<1> QED BY <1>2, <1>4, <1>5, <1>6, <1>7, <1>8 DEF Sane

\* A new permit, for a grant that is there, in a store with room for it.
LEMMA AddPermitSane ==
  ASSUME NEW s, Sane(s), NEW i \in Issues, s.permit[i].status = "absent",
         NEW p \in PermitRecords, p.status # "absent", p.grant \in GrantSet(s),
         Cardinality(PermitSet(s)) < MaxIssuePermits
  PROVE  LET t == [s EXCEPT !.permit[i] = p] IN Sane(t) /\ Grows(s, t)
<1> DEFINE t == [s EXCEPT !.permit[i] = p]
<1>1. /\ s \in [grant : [Grants -> GrantRecords], permit : [Issues -> PermitRecords]]
      /\ t.grant = s.grant /\ t.permit = [s.permit EXCEPT ![i] = p]
      /\ t.permit[i] = p
      /\ \A j \in Issues : j # i => t.permit[j] = s.permit[j]
  BY DEF Sane, SupStores
<1>2. t \in SupStores
  BY <1>1 DEF SupStores
<1>3. GrantSet(t) = GrantSet(s)
  BY <1>1 DEF GrantSet, Granted
<1>4. PermitSet(t) = PermitSet(s) \cup {i} /\ i \notin PermitSet(s)
  BY <1>1 DEF PermitSet
<1>5. IsFiniteSet(PermitSet(t)) /\ Cardinality(PermitSet(t)) = Cardinality(PermitSet(s)) + 1
  BY <1>4, FS_AddElement DEF Sane
<1>6. SupLoadable(t)
  <2>1. Cardinality(PermitSet(s)) \in Nat /\ MaxIssuePermits \in Nat
    BY FS_CardinalityType, SupervisionAssumption DEF Sane
  <2> QED BY <2>1, <1>1, <1>3, <1>5, LoadableMeans DEF Sane
<1>7. Coherent(t)
  BY <1>1, <1>3, <1>4 DEF Sane, Coherent
<1>8. Grows(s, t)
  BY <1>1 DEF Grows, Granted, GrantRecords
<1> QED BY <1>2, <1>3, <1>5, <1>6, <1>7, <1>8 DEF Sane

\* What a start makes of the store it loaded: interrupted grants, none brought back.
LEMMA RecoverSane ==
  ASSUME NEW s, Sane(s)
  PROVE  Sane(RecoverGrants(s)) /\ Grows(s, RecoverGrants(s))
<1> DEFINE Recovered(gr) == Rotate([gr EXCEPT !.status = "pending_recovery",
                                             !.pauses = @ \cup {"pending_recovery"}])
           grants == [g \in Grants |-> IF s.grant[g].status # "active" THEN s.grant[g]
                                       ELSE Recovered(s.grant[g])]
<1>1. ASSUME NEW g \in Grants, s.grant[g].status = "active"
      PROVE  Granted(s, g) /\ Succeeds(Recovered(s.grant[g]), s.grant[g])
  <2>1. Granted(s, g)
    BY <1>1 DEF Granted
  <2>2. Succeeds(s.grant[g], s.grant[g])
    BY <2>1, SelfSucceeds
  <2> DEFINE gr == [s.grant[g] EXCEPT !.status = "pending_recovery",
                                      !.pauses = @ \cup {"pending_recovery"}]
  <2>3. Succeeds(gr, s.grant[g])
    BY <1>1, <2>2 DEF CodeGone, Succeeds, GrantRecords, PauseReasons
  <2> HIDE DEF gr
  <2>4. Succeeds(Rotate(gr), s.grant[g])
    BY <2>3, RotateSucceeds
  <2> QED BY <2>1, <2>4 DEF gr
<1>2. RecoverGrants(s) = [s EXCEPT !.grant = grants]
  BY DEF RecoverGrants
<1> HIDE DEF Recovered
<1>3. \A g \in Grants : IF Granted(s, g) THEN Succeeds(grants[g], s.grant[g])
                        ELSE grants[g] = s.grant[g]
  BY <1>1, SelfSucceeds DEF Granted
<1>4. grants \in [Grants -> GrantRecords]
  BY <1>1 DEF Sane, SupStores, Succeeds
<1> HIDE DEF grants
<1> QED BY <1>2, <1>3, <1>4, SetGrantsSane

--------------------------------------------------------------------------------
(* What changes of grants and permits do to versions and to the pause for  *)
(* issues.                                                                 *)

\* A record that keeps its terms and version advances trivially.
LEMMA SameAdvances ==
  ASSUME NEW old \in GrantRecords, NEW gr,
         gr.version = old.version, Terms(gr) = Terms(old), gr.pauses = old.pauses
  PROVE  Advances(gr, old)
  BY DEF Advances, GrantRecords

\* Rotating the version of a changed record advances it.
LEMMA RotateAdvances ==
  ASSUME NEW old \in GrantRecords, NEW gr \in GrantRecords, gr.version = old.version
  PROVE  /\ Advances(Rotate(gr), old)
         /\ Rotate(gr).pauses = gr.pauses /\ Rotate(gr).status = gr.status
<1>1. /\ Rotate(gr).version = old.version + 1
      /\ Rotate(gr).pauses = gr.pauses /\ Rotate(gr).status = gr.status
      /\ old.version \in Nat
  BY DEF Rotate, GrantRecords
<1> QED BY <1>1 DEF Advances

\* Adding a pause advances, when it is new and when it is not.
LEMMA AddPauseAdvances ==
  ASSUME NEW old \in GrantRecords, NEW reason \in PauseReasons
  PROVE  /\ Advances(AddPause(old, reason), old)
         /\ AddPause(old, reason).pauses = old.pauses \cup {reason}
         /\ AddPause(old, reason).status = old.status
<1>1. CASE reason \in old.pauses
  <2>1. AddPause(old, reason) = old
    BY <1>1 DEF AddPause
  <2>2. old.pauses \cup {reason} = old.pauses
    BY <1>1
  <2> QED BY <2>1, <2>2, SameAdvances
<1>2. CASE reason \notin old.pauses
  <2> DEFINE gr == [old EXCEPT !.pauses = old.pauses \cup {reason}]
  <2>1. AddPause(old, reason) = Rotate(gr)
    BY <1>2 DEF AddPause
  <2>2. /\ gr \in GrantRecords /\ gr.version = old.version /\ gr.status = old.status
        /\ gr.pauses = old.pauses \cup {reason}
    BY DEF GrantRecords
  <2> HIDE DEF gr
  <2> QED BY <2>1, <2>2, RotateAdvances
<1> QED BY <1>1, <1>2

\* Dropping a pause from a record with the old version advances.
LEMMA DropPauseAdvances ==
  ASSUME NEW old \in GrantRecords, NEW gr \in GrantRecords, gr.version = old.version, NEW reason
  PROVE  /\ Advances(DropPause(gr, reason), old)
         /\ DropPause(gr, reason).pauses = gr.pauses \ {reason}
         /\ DropPause(gr, reason).status = gr.status
<1> DEFINE less == [gr EXCEPT !.pauses = gr.pauses \ {reason}]
<1>1. /\ less \in GrantRecords /\ less.version = old.version /\ less.status = gr.status
      /\ less.pauses = gr.pauses \ {reason}
  BY DEF GrantRecords
<1>2. DropPause(gr, reason) = Rotate(less)
  BY DEF DropPause
<1> HIDE DEF less
<1> QED BY <1>1, <1>2, RotateAdvances

\* Grants that advance, with permits that retire, are a store that evolved.
LEMMA RetireEvolves ==
  ASSUME NEW s, NEW t, Retires(s, t), \A g \in Grants : Advances(t.grant[g], s.grant[g])
  PROVE  Evolves(s, t)
  BY DEF Evolves

\* A change of grants only.
LEMMA GrantsEvolve ==
  ASSUME NEW s, NEW t, t.permit = s.permit,
         \A g \in Grants : Advances(t.grant[g], s.grant[g])
  PROVE  /\ Evolves(s, t)
         /\ (\A g \in Grants : SamePause(t.grant[g], s.grant[g])) /\ IssuesPause(s)
                => IssuesPause(t)
<1>1. Retires(s, t)
  BY DEF Retires
<1>2. \A g \in Grants : PendingPermits(t, g) = PendingPermits(s, g)
  BY DEF PendingPermits
<1> QED BY <1>1, <1>2, RetireEvolves DEF IssuesPause, SamePause

\* A change of one grant.
LEMMA GrantEvolves ==
  ASSUME NEW s, Sane(s), NEW g \in Grants, NEW gr, Advances(gr, s.grant[g])
  PROVE  LET t == [s EXCEPT !.grant[g] = gr] IN
         /\ Evolves(s, t)
         /\ SamePause(gr, s.grant[g]) /\ IssuesPause(s) => IssuesPause(t)
<1> DEFINE t == [s EXCEPT !.grant[g] = gr]
<1>1. /\ s.grant \in [Grants -> GrantRecords]
      /\ t.permit = s.permit
      /\ t.grant = [s.grant EXCEPT ![g] = gr]
  BY DEF Sane, SupStores
<1> HIDE DEF t
<1>2. \A h \in Grants : t.grant[h] = IF h = g THEN gr ELSE s.grant[h]
  BY <1>1
<1>3. \A h \in Grants : Advances(s.grant[h], s.grant[h])
  BY <1>1, SameAdvances
<1>4. \A h \in Grants : Advances(t.grant[h], s.grant[h])
  BY <1>2, <1>3
<1>5. SamePause(gr, s.grant[g]) => \A h \in Grants : SamePause(t.grant[h], s.grant[h])
  BY <1>2 DEF SamePause
<1>6. Evolves(s, t) /\ (SamePause(gr, s.grant[g]) /\ IssuesPause(s) => IssuesPause(t))
  BY <1>1, <1>4, <1>5, GrantsEvolve
<1> QED BY <1>6 DEF t

\* Permits of `g` that retired, and the pause lifted when none is left: the store
\* evolved, and the pause is right again.
LEMMA LiftEvolves ==
  ASSUME NEW s, Sane(s), NEW t, Sane(t), NEW g \in Grants, Retires(s, t), t.grant = s.grant,
         \A i \in Issues : s.permit[i].grant # g => t.permit[i] = s.permit[i]
  PROVE  /\ Evolves(s, LiftPendingIssue(t, g))
         /\ IssuesPause(s) => IssuesPause(LiftPendingIssue(t, g))
<1> DEFINE u == LiftPendingIssue(t, g)
           gr == DropPause(t.grant[g], "pending_issue")
<1>1. t.grant \in [Grants -> GrantRecords] /\ s.grant \in [Grants -> GrantRecords]
  BY DEF Sane, SupStores
<1>2. Advances(gr, s.grant[g]) /\ gr.pauses = s.grant[g].pauses \ {"pending_issue"}
  BY <1>1, DropPauseAdvances
<1> HIDE DEF gr
<1>3. \A h \in Grants : Advances(s.grant[h], s.grant[h])
  BY <1>1, SameAdvances
<1>4. \A h \in Grants \ {g} : PendingPermits(t, h) = PendingPermits(s, h)
  <2> SUFFICES ASSUME NEW h \in Grants \ {g}, NEW i \in Issues
               PROVE  i \in PendingPermits(t, h) <=> i \in PendingPermits(s, h)
    BY DEF PendingPermits
  <2>1. t.permit[i] = s.permit[i] \/ (s.permit[i].status = "pending" /\ t.permit[i].grant = s.permit[i].grant)
    BY DEF Retires
  <2> QED BY <2>1 DEF PendingPermits
<1>5. PendingPermits(t, g) # {} => PendingPermits(s, g) # {}
  <2> SUFFICES ASSUME NEW i \in PendingPermits(t, g) PROVE i \in PendingPermits(s, g)
    OBVIOUS
  <2> QED BY DEF PendingPermits, Retires
<1>6. CASE PendingPermits(t, g) = {} /\ "pending_issue" \in t.grant[g].pauses
  <2>1. u = [t EXCEPT !.grant[g] = gr]
    BY <1>6 DEF LiftPendingIssue, gr
  <2> HIDE DEF u
  <2>2. u.permit = t.permit /\ u.grant = [t.grant EXCEPT ![g] = gr]
    BY <2>1 DEF Sane, SupStores
  <2>3. \A h \in Grants : u.grant[h] = IF h = g THEN gr ELSE s.grant[h]
    BY <1>1, <2>2
  <2>4. Retires(s, u)
    BY <2>2 DEF Retires
  <2>5. Evolves(s, u)
    BY <1>2, <1>3, <2>3, <2>4, RetireEvolves
  <2>6. \A h \in Grants : PendingPermits(u, h) = PendingPermits(t, h)
    BY <2>2 DEF PendingPermits
  <2>7. IssuesPause(s) => IssuesPause(u)
    BY <1>2, <1>4, <1>6, <2>3, <2>6 DEF IssuesPause
  <2> QED BY <2>5, <2>7 DEF u
<1>7. CASE ~(PendingPermits(t, g) = {} /\ "pending_issue" \in t.grant[g].pauses)
  <2>1. u = t
    BY <1>7 DEF LiftPendingIssue
  <2>2. Evolves(s, t)
    BY <1>3, RetireEvolves
  <2>3. IssuesPause(s) => IssuesPause(t)
    BY <1>4, <1>5, <1>7 DEF IssuesPause
  <2> QED BY <2>1, <2>2, <2>3
<1> QED BY <1>6, <1>7

--------------------------------------------------------------------------------
(* Every step commits a sane store that grew, or is one of the others.     *)

\* What is true of every store that a method commits.
Sound(next) ==
    Sane(next) /\ Grows(sup, next) /\ Evolves(sup, next) /\ KeepsIssuesPause(sup, next)

CommitsGrown ==
    /\ supUp
    /\ \E next \in SupStores, ok \in BOOLEAN : Sound(next) /\ SupCommit(next, ok)

\* A method that replaces one grant by one that succeeds it, and leaves the pause
\* for issues alone.
LEMMA SetGrantGrows ==
  ASSUME Sane(sup), supUp, NEW g \in Grants, Granted(sup, g), NEW ok \in BOOLEAN,
         NEW gr, Succeeds(gr, sup.grant[g]), SetGrant(g, gr, ok),
         Advances(gr, sup.grant[g]),
         "pending_issue" \notin CallerReasons => SamePause(gr, sup.grant[g])
  PROVE  CommitsGrown
<1> DEFINE next == [sup EXCEPT !.grant[g] = gr]
<1>1. Sane(next) /\ Grows(sup, next)
  BY SetGrantSane
<1>2. SupCommit(next, ok)
  BY DEF SetGrant
<1>3. Evolves(sup, next) /\ KeepsIssuesPause(sup, next)
  BY GrantEvolves DEF KeepsIssuesPause
<1> HIDE DEF next
<1> QED BY <1>1, <1>2, <1>3 DEF CommitsGrown, Sound, Sane

\* A grant in a sane store is a grant record.
LEMMA GrantTyped ==
  ASSUME NEW s, Sane(s), NEW g \in Grants
  PROVE  s.grant[g] \in GrantRecords
  BY DEF Sane, SupStores

\* redeem hands out a token; the grant is otherwise what it was.
LEMMA RedeemGrows ==
  ASSUME Sane(sup), now \in Nat, NEW g \in Grants, NEW ok \in BOOLEAN, Redeem(g, ok)
  PROVE  CommitsGrown
<1> DEFINE gr == [sup.grant[g] EXCEPT !.cred = "token", !.credUntil = now + TokenTtl]
<1>1. supUp /\ Granted(sup, g) /\ sup.grant[g].status = "active" /\ SetGrant(g, gr, ok)
  BY DEF Redeem, Valid, Granted
<1>2. Succeeds(sup.grant[g], sup.grant[g])
  BY <1>1, SelfSucceeds
<1>3. TokenTtl \in Nat
  BY SupervisionAssumption
<1>4. Succeeds(gr, sup.grant[g])
  <2> DEFINE until == now + TokenTtl
  <2>1. until \in Nat
    BY <1>3
  <2> HIDE DEF until
  <2>2. Succeeds([sup.grant[g] EXCEPT !.cred = "token", !.credUntil = until], sup.grant[g])
    BY <1>1, <1>2, <2>1 DEF CodeGone, Succeeds, GrantRecords
  <2> QED BY <2>2 DEF until
<1>5. Advances(gr, sup.grant[g]) /\ SamePause(gr, sup.grant[g])
  <2>1. gr.version = sup.grant[g].version /\ gr.pauses = sup.grant[g].pauses
        /\ Terms(gr) = Terms(sup.grant[g])
    BY GrantTyped DEF GrantRecords, Terms
  <2> HIDE DEF gr
  <2> QED BY <2>1, GrantTyped, SameAdvances DEF SamePause
<1> HIDE DEF gr
<1> QED BY <1>1, <1>4, <1>5, SetGrantGrows

\* revoke voids the credential with the grant.
LEMMA RevokeGrows ==
  ASSUME Sane(sup), NEW g \in Grants, NEW ok \in BOOLEAN, Revoke(g, ok)
  PROVE  CommitsGrown
<1> DEFINE gr == [sup.grant[g] EXCEPT !.status = "revoked", !.pauses = @ \cup {"revoked"},
                                      !.cred = "void"]
<1>1. supUp /\ Granted(sup, g) /\ SetGrant(g, Rotate(gr), ok)
  BY DEF Revoke
<1>2. Succeeds(sup.grant[g], sup.grant[g])
  BY <1>1, SelfSucceeds
<1>3. Succeeds(gr, sup.grant[g])
  BY <1>2 DEF CodeGone, Succeeds, GrantRecords, PauseReasons
<1>5. gr \in GrantRecords /\ gr.version = sup.grant[g].version
      /\ SamePause(gr, sup.grant[g])
  BY <1>3, GrantTyped DEF Succeeds, GrantRecords, SamePause
<1> HIDE DEF gr
<1>4. Succeeds(Rotate(gr), sup.grant[g])
  BY <1>3, RotateSucceeds
<1>6. Advances(Rotate(gr), sup.grant[g]) /\ SamePause(Rotate(gr), sup.grant[g])
  BY <1>5, GrantTyped, RotateAdvances DEF SamePause
<1> QED BY <1>1, <1>4, <1>6, SetGrantGrows

\* recordOperation charges within the limit.
LEMMA RecordOperationGrows ==
  ASSUME Sane(sup), NEW g \in Grants, NEW version, NEW ok \in BOOLEAN,
         RecordOperation(g, version, ok)
  PROVE  CommitsGrown
<1> DEFINE gr == [sup.grant[g] EXCEPT !.used = @ + 1]
<1>1. supUp /\ Granted(sup, g) /\ sup.grant[g].used < sup.grant[g].limit
      /\ SetGrant(g, Rotate(gr), ok)
  BY DEF RecordOperation, Valid, Granted
<1>2. Succeeds(sup.grant[g], sup.grant[g])
  BY <1>1, SelfSucceeds
<1>3. Succeeds(gr, sup.grant[g])
  BY <1>1, <1>2 DEF CodeGone, Succeeds, GrantRecords
<1>5. gr \in GrantRecords /\ gr.version = sup.grant[g].version
      /\ SamePause(gr, sup.grant[g])
  BY <1>3, GrantTyped DEF Succeeds, GrantRecords, SamePause
<1> HIDE DEF gr
<1>4. Succeeds(Rotate(gr), sup.grant[g])
  BY <1>3, RotateSucceeds
<1>6. Advances(Rotate(gr), sup.grant[g]) /\ SamePause(Rotate(gr), sup.grant[g])
  BY <1>5, GrantTyped, RotateAdvances DEF SamePause
<1> QED BY <1>1, <1>4, <1>6, SetGrantGrows

\* pauseGrant and clearPause change the pauses of one grant.
LEMMA PausesGrow ==
  ASSUME Sane(sup), NEW g \in Grants, NEW reason \in PauseReasons, NEW ok \in BOOLEAN,
         "pending_issue" \notin CallerReasons => reason # "pending_issue",
         PauseGrant(g, reason, ok) \/ ClearPause(g, reason, ok)
  PROVE  CommitsGrown
<1>1. supUp /\ Granted(sup, g)
  BY DEF PauseGrant, ClearPause
<1>2. Succeeds(sup.grant[g], sup.grant[g])
  BY <1>1, SelfSucceeds
<1>4. Succeeds(AddPause(sup.grant[g], reason), sup.grant[g])
  BY <1>2, AddPauseSucceeds
<1>5. Succeeds(DropPause(sup.grant[g], reason), sup.grant[g])
  BY <1>2, DropPauseSucceeds
<1>6. CASE PauseGrant(g, reason, ok)
  <2>1. SetGrant(g, AddPause(sup.grant[g], reason), ok)
    BY <1>6 DEF PauseGrant
  <2>2. /\ Advances(AddPause(sup.grant[g], reason), sup.grant[g])
        /\ reason # "pending_issue" => SamePause(AddPause(sup.grant[g], reason), sup.grant[g])
    BY GrantTyped, AddPauseAdvances DEF SamePause
  <2> QED BY <2>1, <2>2, <1>1, <1>4, SetGrantGrows
<1>7. CASE ClearPause(g, reason, ok)
  <2>1. SetGrant(g, DropPause(sup.grant[g], reason), ok)
    BY <1>7 DEF ClearPause
  <2>2. /\ Advances(DropPause(sup.grant[g], reason), sup.grant[g])
        /\ reason # "pending_issue" => SamePause(DropPause(sup.grant[g], reason), sup.grant[g])
    BY GrantTyped, DropPauseAdvances DEF SamePause
  <2> QED BY <2>1, <2>2, <1>1, <1>5, SetGrantGrows
<1> QED BY <1>6, <1>7

\* renewGrant moves the expiry.
LEMMA RenewGrows ==
  ASSUME Sane(sup), NEW g \in Grants, NEW exp \in Nat, NEW ok \in BOOLEAN,
         RenewGrant(g, exp, ok)
  PROVE  CommitsGrown
<1> DEFINE gr == [sup.grant[g] EXCEPT !.expiresAt = exp]
<1>1. supUp /\ Granted(sup, g) /\ SetGrant(g, Rotate(gr), ok)
  BY DEF RenewGrant
<1>2. Succeeds(sup.grant[g], sup.grant[g])
  BY <1>1, SelfSucceeds
<1>3. Succeeds(gr, sup.grant[g])
  BY <1>2 DEF CodeGone, Succeeds, GrantRecords
<1>5. gr \in GrantRecords /\ gr.version = sup.grant[g].version
      /\ SamePause(gr, sup.grant[g])
  BY <1>3, GrantTyped DEF Succeeds, GrantRecords, SamePause
<1> HIDE DEF gr
<1>4. Succeeds(Rotate(gr), sup.grant[g])
  BY <1>3, RotateSucceeds
<1>6. Advances(Rotate(gr), sup.grant[g]) /\ SamePause(Rotate(gr), sup.grant[g])
  BY <1>5, GrantTyped, RotateAdvances DEF SamePause
<1> QED BY <1>1, <1>4, <1>6, SetGrantGrows

\* updateScopes opens or closes the composer to the grant.
LEMMA UpdateScopesGrows ==
  ASSUME Sane(sup), NEW g \in Grants, NEW writable \in BOOLEAN, NEW ok \in BOOLEAN,
         UpdateScopes(g, writable, ok)
  PROVE  CommitsGrown
<1> DEFINE gr == [sup.grant[g] EXCEPT !.writable = writable]
<1>1. supUp /\ Granted(sup, g) /\ SetGrant(g, Rotate(gr), ok)
  BY DEF UpdateScopes
<1>2. Succeeds(sup.grant[g], sup.grant[g])
  BY <1>1, SelfSucceeds
<1>3. Succeeds(gr, sup.grant[g])
  BY <1>2 DEF CodeGone, Succeeds, GrantRecords
<1>5. gr \in GrantRecords /\ gr.version = sup.grant[g].version
      /\ SamePause(gr, sup.grant[g])
  BY <1>3, GrantTyped DEF Succeeds, GrantRecords, SamePause
<1> HIDE DEF gr
<1>4. Succeeds(Rotate(gr), sup.grant[g])
  BY <1>3, RotateSucceeds
<1>6. Advances(Rotate(gr), sup.grant[g]) /\ SamePause(Rotate(gr), sup.grant[g])
  BY <1>5, GrantTyped, RotateAdvances DEF SamePause
<1> QED BY <1>1, <1>4, <1>6, SetGrantGrows

\* recordCheck stamps the grant.
LEMMA RecordCheckGrows ==
  ASSUME Sane(sup), now \in Nat, NEW g \in Grants, NEW ok \in BOOLEAN, RecordCheck(g, ok)
  PROVE  CommitsGrown
<1> DEFINE gr == [sup.grant[g] EXCEPT !.seenAt = now]
<1>1. supUp /\ Granted(sup, g) /\ SetGrant(g, gr, ok)
  BY DEF RecordCheck
<1>2. Succeeds(sup.grant[g], sup.grant[g])
  BY <1>1, SelfSucceeds
<1>3. Succeeds(gr, sup.grant[g])
  BY <1>2 DEF CodeGone, Succeeds, GrantRecords
<1>4. Advances(gr, sup.grant[g]) /\ SamePause(gr, sup.grant[g])
  <2>1. gr.version = sup.grant[g].version /\ gr.pauses = sup.grant[g].pauses
        /\ Terms(gr) = Terms(sup.grant[g])
    BY GrantTyped DEF GrantRecords, Terms
  <2> HIDE DEF gr
  <2> QED BY <2>1, GrantTyped, SameAdvances DEF SamePause
<1> HIDE DEF gr
<1> QED BY <1>1, <1>3, <1>4, SetGrantGrows

\* resumeRecovery makes an interrupted grant active again; a revoked one is not
\* interrupted.
LEMMA ResumeGrows ==
  ASSUME Sane(sup), NEW g \in Grants, NEW ok \in BOOLEAN, ResumeRecovery(g, ok)
  PROVE  CommitsGrown
<1> DEFINE gr == [sup.grant[g] EXCEPT !.status = "active"]
<1>1. supUp /\ Granted(sup, g) /\ sup.grant[g].status = "pending_recovery"
      /\ SetGrant(g, DropPause(gr, "pending_recovery"), ok)
  BY DEF ResumeRecovery, Granted
<1>2. Succeeds(sup.grant[g], sup.grant[g])
  BY <1>1, SelfSucceeds
<1>3. Succeeds(gr, sup.grant[g])
  BY <1>1, <1>2 DEF CodeGone, Succeeds, GrantRecords
<1>5. gr \in GrantRecords /\ gr.version = sup.grant[g].version
      /\ gr.pauses = sup.grant[g].pauses
  BY <1>3, GrantTyped DEF Succeeds, GrantRecords
<1> HIDE DEF gr
<1>4. Succeeds(DropPause(gr, "pending_recovery"), sup.grant[g])
  BY <1>3, DropPauseSucceeds
<1>6. /\ Advances(DropPause(gr, "pending_recovery"), sup.grant[g])
      /\ SamePause(DropPause(gr, "pending_recovery"), sup.grant[g])
  BY <1>5, GrantTyped, DropPauseAdvances DEF SamePause
<1> QED BY <1>1, <1>4, <1>6, SetGrantGrows

\* pauseWorkspace pauses the active grants of a workspace.
LEMMA PauseWorkspaceGrows ==
  ASSUME Sane(sup), NEW w, NEW reason \in PauseReasons, NEW ok \in BOOLEAN,
         "pending_issue" \notin CallerReasons => reason # "pending_issue",
         PauseWorkspace(w, reason, ok)
  PROVE  CommitsGrown
<1> DEFINE grants == [g \in Grants |->
              IF sup.grant[g].workspace = w /\ sup.grant[g].status = "active"
              THEN AddPause(sup.grant[g], reason) ELSE sup.grant[g]]
           next == [sup EXCEPT !.grant = grants]
<1>1. supUp /\ SupCommit(next, ok)
  BY DEF PauseWorkspace
<1>3. \A g \in Grants : IF Granted(sup, g) THEN Succeeds(grants[g], sup.grant[g])
                        ELSE grants[g] = sup.grant[g]
  BY SelfSucceeds, AddPauseSucceeds DEF Granted
<1>4. grants \in [Grants -> GrantRecords]
  <2> SUFFICES ASSUME NEW g \in Grants PROVE grants[g] \in GrantRecords
    OBVIOUS
  <2> QED BY <1>3 DEF Sane, SupStores, Succeeds
<1>6. \A g \in Grants : Advances(grants[g], sup.grant[g])
  BY GrantTyped, AddPauseAdvances, SameAdvances DEF PauseReasons
<1>7. "pending_issue" \notin CallerReasons => \A g \in Grants : SamePause(grants[g], sup.grant[g])
  BY GrantTyped, AddPauseAdvances DEF PauseReasons, SamePause
<1> HIDE DEF grants
<1>5. Sane(next) /\ Grows(sup, next)
  BY <1>3, <1>4, SetGrantsSane
<1>8. next.permit = sup.permit /\ next.grant = grants
  BY DEF Sane, SupStores
<1>9. Evolves(sup, next) /\ KeepsIssuesPause(sup, next)
  BY <1>6, <1>7, <1>8, GrantsEvolve DEF KeepsIssuesPause
<1> HIDE DEF next
<1> QED BY <1>1, <1>5, <1>9 DEF CommitsGrown, Sound, Sane

\* markOverdueChecks pauses the grants whose supervisor is late.
LEMMA MarkOverdueGrows ==
  ASSUME Sane(sup), NEW ok \in BOOLEAN, MarkOverdueChecks(ok)
  PROVE  CommitsGrown
<1> DEFINE grants == [g \in Grants |->
              IF Overdue(sup, g) THEN AddPause(sup.grant[g], "supervisor_lost")
              ELSE sup.grant[g]]
           next == [sup EXCEPT !.grant = grants]
<1>1. supUp /\ SupCommit(next, ok)
  BY DEF MarkOverdueChecks
<1>2. \A g \in Grants : Overdue(sup, g) => Granted(sup, g)
  BY DEF Overdue, Granted
<1>3. \A g \in Grants : IF Granted(sup, g) THEN Succeeds(grants[g], sup.grant[g])
                        ELSE grants[g] = sup.grant[g]
  BY <1>2, SelfSucceeds, AddPauseSucceeds DEF PauseReasons
<1>4. grants \in [Grants -> GrantRecords]
  <2> SUFFICES ASSUME NEW g \in Grants PROVE grants[g] \in GrantRecords
    OBVIOUS
  <2> QED BY <1>3 DEF Sane, SupStores, Succeeds
<1>6. \A g \in Grants : Advances(grants[g], sup.grant[g])
  BY <1>2, GrantTyped, AddPauseAdvances, SameAdvances DEF PauseReasons
<1>7. "pending_issue" \notin CallerReasons => \A g \in Grants : SamePause(grants[g], sup.grant[g])
  BY <1>2, GrantTyped, AddPauseAdvances DEF PauseReasons, SamePause
<1> HIDE DEF grants
<1>5. Sane(next) /\ Grows(sup, next)
  BY <1>3, <1>4, SetGrantsSane
<1>8. next.permit = sup.permit /\ next.grant = grants
  BY DEF Sane, SupStores
<1>9. Evolves(sup, next) /\ KeepsIssuesPause(sup, next)
  BY <1>6, <1>7, <1>8, GrantsEvolve DEF KeepsIssuesPause
<1> HIDE DEF next
<1> QED BY <1>1, <1>5, <1>9 DEF CommitsGrown, Sound, Sane

\* createGrant takes a fresh id while there is room.
LEMMA CreateGrantGrows ==
  ASSUME Sane(sup), now \in Nat, NEW g \in Grants, NEW w \in Workspaces,
         NEW limit \in Limits, NEW ttl \in CheckTtls, NEW exp \in Nat, NEW ok \in BOOLEAN,
         CreateGrant(g, w, limit, ttl, exp, ok)
  PROVE  CommitsGrown
<1> DEFINE until == now + RedeemTtl
<1>1. until \in Nat /\ limit \in Nat /\ ttl \in Nat
  BY SupervisionAssumption
<1> HIDE DEF until
<1> DEFINE gr == [status |-> "active", workspace |-> w, pauses |-> {}, version |-> 1,
                  used |-> 0, limit |-> limit, expiresAt |-> exp,
                  checkTtl |-> ttl, seenAt |-> now, writable |-> TRUE,
                  cred |-> "code", credUntil |-> until]
           next == [sup EXCEPT !.grant[g] = gr]
<1>2. gr \in GrantRecords
  BY <1>1 DEF GrantRecords
<1>3. gr.status = "active" /\ gr.used = 0
  OBVIOUS
<1>4. supUp /\ ~Granted(sup, g) /\ Cardinality(GrantSet(sup)) < MaxGrants
  BY DEF CreateGrant, GrantSet
<1>5. SupCommit(next, ok)
  BY DEF CreateGrant, NewGrant, SetGrant, until
<1>7. Advances(gr, sup.grant[g]) /\ SamePause(gr, sup.grant[g])
  <2>1. sup.grant[g] = NoGrantRecord
    BY <1>4 DEF Sane, Coherent, Granted
  <2> QED BY <2>1 DEF Advances, SamePause, NoGrantRecord
<1> HIDE DEF gr
<1>6. Sane(next) /\ Grows(sup, next)
  BY <1>2, <1>3, <1>4, AddGrantSane
<1>8. Evolves(sup, next) /\ KeepsIssuesPause(sup, next)
  BY <1>7, GrantEvolves DEF KeepsIssuesPause
<1> HIDE DEF next
<1> QED BY <1>4, <1>5, <1>6, <1>8 DEF CommitsGrown, Sound, Sane

\* createIssuePermit pauses the grant and adds the permit.
LEMMA CreateIssueGrows ==
  ASSUME Sane(sup), NEW i \in Issues, NEW g \in Grants, NEW subject \in Subjects,
         NEW exp \in Nat, NEW ok \in BOOLEAN, CreateIssuePermit(i, g, subject, exp, ok)
  PROVE  CommitsGrown
<1> DEFINE gr == AddPause(sup.grant[g], "pending_issue")
           p == [status |-> "pending", grant |-> g, subject |-> subject,
                 version |-> gr.version, decision |-> "pending", expiresAt |-> exp]
           paused == [sup EXCEPT !.grant[g] = gr]
           next == [paused EXCEPT !.permit[i] = p]
<1>1. /\ supUp /\ Granted(sup, g) /\ sup.permit[i].status = "absent"
      /\ Cardinality(PermitSet(sup)) < MaxIssuePermits
  BY DEF CreateIssuePermit, Valid, Granted, PermitSet
<1>2. Succeeds(gr, sup.grant[g])
  BY <1>1, SelfSucceeds, AddPauseSucceeds DEF PauseReasons
<1>3. SupCommit(next, ok)
  BY DEF CreateIssuePermit
<1>4. /\ p \in PermitRecords /\ p.status = "pending" /\ p.grant = g
      /\ p.version = gr.version
  BY <1>2 DEF Succeeds, GrantRecords, PermitRecords
<1>10. /\ Advances(gr, sup.grant[g]) /\ gr.status = "active"
       /\ gr.pauses = sup.grant[g].pauses \cup {"pending_issue"}
  <2>1. sup.grant[g].status = "active"
    BY DEF CreateIssuePermit, Valid
  <2> QED BY <2>1, GrantTyped, AddPauseAdvances DEF PauseReasons
<1> HIDE DEF gr, p
<1>5. Sane(paused) /\ Grows(sup, paused)
  BY <1>1, <1>2, SetGrantSane
<1>6. paused.permit = sup.permit /\ paused.grant[g] = gr
  BY DEF Sane, SupStores
<1>7. PermitSet(paused) = PermitSet(sup) /\ g \in GrantSet(paused)
  BY <1>2, <1>6 DEF PermitSet, GrantSet, Granted, Succeeds
<1> HIDE DEF paused
<1>8. Sane(next) /\ Grows(paused, next)
  BY <1>1, <1>4, <1>5, <1>6, <1>7, AddPermitSane
<1>11. /\ \A h \in Grants : next.grant[h] = IF h = g THEN gr ELSE sup.grant[h]
       /\ \A j \in Issues : next.permit[j] = IF j = i THEN p ELSE sup.permit[j]
  BY <1>5, <1>6 DEF paused, Sane, SupStores
<1> HIDE DEF next
<1>9. Grows(sup, next)
  BY <1>5, <1>8, GrowsTransitive DEF Sane
<1>12. Evolves(sup, next)
  <2>1. MadeFor(sup, next, i)
    BY <1>1, <1>4, <1>10, <1>11 DEF MadeFor
  <2>2. \A h \in Grants : Advances(next.grant[h], sup.grant[h])
    BY <1>10, <1>11, GrantTyped, SameAdvances
  <2> QED BY <2>1, <2>2 DEF Evolves
<1>13. IssuesPause(sup) => IssuesPause(next)
  <2>1. i \in PendingPermits(next, g) /\ "pending_issue" \in next.grant[g].pauses
    BY <1>4, <1>10, <1>11 DEF PendingPermits
  <2>2. \A h \in Grants \ {g} : /\ PendingPermits(next, h) = PendingPermits(sup, h)
                               /\ next.grant[h] = sup.grant[h]
    BY <1>1, <1>4, <1>11 DEF PendingPermits
  <2> QED BY <2>1, <2>2 DEF IssuesPause
<1> QED BY <1>1, <1>3, <1>8, <1>9, <1>12, <1>13 DEF CommitsGrown, Sound, KeepsIssuesPause, Sane

\* A pending permit is there, and so is its grant.
LEMMA PendingIsThere ==
  ASSUME NEW s, Sane(s), NEW i \in Issues, s.permit[i].status = "pending"
  PROVE  /\ s.permit[i] \in PermitRecords
         /\ s.permit[i].grant \in Grants /\ Granted(s, s.permit[i].grant)
<1>1. i \in PermitSet(s)
  BY DEF PermitSet
<1> QED BY <1>1 DEF Sane, SupStores, Coherent, GrantSet

\* One permit that stays there, with the grant it had, keeps a store sane.
LEMMA SetPermitSane ==
  ASSUME NEW s, Sane(s), NEW i \in Issues, s.permit[i].status # "absent",
         NEW p \in PermitRecords, p.status # "absent", p.grant = s.permit[i].grant
  PROVE  LET t == [s EXCEPT !.permit[i] = p] IN
         Sane(t) /\ Grows(s, t) /\ t.grant = s.grant
<1> DEFINE permits == [s.permit EXCEPT ![i] = p]
<1>1. permits \in [Issues -> PermitRecords]
  BY DEF Sane, SupStores
<1>2. \A j \in Issues : permits[j] = IF j = i THEN p ELSE s.permit[j]
  BY DEF Sane, SupStores
<1>3. [s EXCEPT !.permit[i] = p] = [s EXCEPT !.permit = permits]
  OBVIOUS
<1> HIDE DEF permits
<1> QED BY <1>1, <1>2, <1>3, SetPermitsSane

\* decideIssue records the owner's answer; a rejection may lift the pause.
LEMMA DecideGrows ==
  ASSUME Sane(sup), NEW i \in Issues, NEW decision \in {"approved", "rejected"},
         NEW ok \in BOOLEAN, DecideIssue(i, decision, ok)
  PROVE  CommitsGrown
<1> DEFINE g == sup.permit[i].grant
           approved == [sup.permit[i] EXCEPT !.decision = decision]
           rejected == [sup.permit[i] EXCEPT !.decision = decision, !.status = "revoked"]
           kept == [sup EXCEPT !.permit[i] = approved]
           retired == [sup EXCEPT !.permit[i] = rejected]
<1>1. supUp /\ sup.permit[i].status = "pending"
  BY DEF DecideIssue
<1>2. sup.permit[i] \in PermitRecords /\ g \in Grants /\ Granted(sup, g)
  BY <1>1, PendingIsThere
<1>3. /\ approved \in PermitRecords /\ approved.status = "pending" /\ approved.grant = g
      /\ rejected \in PermitRecords /\ rejected.status = "revoked" /\ rejected.grant = g
  BY <1>1, <1>2 DEF PermitRecords
<1>4. SupCommit(kept, ok) \/ SupCommit(LiftPendingIssue(retired, g), ok)
  <2>1. sup \in [grant : [Grants -> GrantRecords], permit : [Issues -> PermitRecords]]
    BY DEF Sane, SupStores
  <2>2. [sup EXCEPT !.permit[i].decision = decision] = kept
    OBVIOUS
  <2>3. [sup EXCEPT !.permit[i].decision = decision, !.permit[i].status = "revoked"] = retired
    BY <2>1
  <2> HIDE DEF kept, retired
  <2> QED BY <2>2, <2>3 DEF DecideIssue
<1>9. /\ approved.version = sup.permit[i].version /\ rejected.version = sup.permit[i].version
  BY <1>2 DEF PermitRecords
<1> HIDE DEF approved, rejected
<1>10. /\ \A j \in Issues : kept.permit[j] = IF j = i THEN approved ELSE sup.permit[j]
       /\ \A j \in Issues : retired.permit[j] = IF j = i THEN rejected ELSE sup.permit[j]
  BY DEF Sane, SupStores
<1>5. /\ Sane(kept) /\ Grows(sup, kept)
      /\ Sane(retired) /\ Grows(sup, retired) /\ retired.grant = sup.grant
      /\ kept.grant = sup.grant
  BY <1>1, <1>3, SetPermitSane
<1> HIDE DEF kept, retired
<1>11. Retires(sup, kept) /\ Retires(sup, retired)
  BY <1>1, <1>3, <1>9, <1>10 DEF Retires
<1>12. Evolves(sup, kept) /\ KeepsIssuesPause(sup, kept)
  <2>1. \A h \in Grants : PendingPermits(kept, h) = PendingPermits(sup, h)
    BY <1>1, <1>3, <1>10 DEF PendingPermits
  <2>2. \A h \in Grants : Advances(kept.grant[h], sup.grant[h])
    BY <1>5, GrantTyped, SameAdvances
  <2> QED BY <1>5, <1>11, <2>1, <2>2, RetireEvolves DEF IssuesPause, KeepsIssuesPause
<1>13. /\ Evolves(sup, LiftPendingIssue(retired, g))
       /\ KeepsIssuesPause(sup, LiftPendingIssue(retired, g))
  <2>1. \A j \in Issues : sup.permit[j].grant # g => retired.permit[j] = sup.permit[j]
    BY <1>10
  <2> QED BY <1>2, <1>5, <1>11, <2>1, LiftEvolves DEF KeepsIssuesPause
<1>6. Granted(retired, g)
  BY <1>2, <1>5 DEF Granted
<1>7. Sane(LiftPendingIssue(retired, g)) /\ Grows(retired, LiftPendingIssue(retired, g))
  BY <1>2, <1>5, <1>6, LiftSane
<1>8. Grows(sup, LiftPendingIssue(retired, g))
  BY <1>5, <1>7, GrowsTransitive DEF Sane
<1> QED BY <1>1, <1>4, <1>5, <1>7, <1>8, <1>12, <1>13 DEF CommitsGrown, Sound, Sane

\* listIssues retires permits of a grant and may lift the pause.
LEMMA ListGrows ==
  ASSUME Sane(sup), NEW g \in Grants, NEW ok \in BOOLEAN, ListIssues(g, ok)
  PROVE  CommitsGrown
<1> DEFINE lapsed == {i \in PendingPermits(sup, g) : Lapsed(sup, i)}
           stale == {i \in PendingPermits(sup, g) : Stale(sup, i)}
           permits == [i \in Issues |->
                IF i \in lapsed THEN [sup.permit[i] EXCEPT !.status = "expired"]
                ELSE IF i \in stale THEN [sup.permit[i] EXCEPT !.status = "revoked"]
                ELSE sup.permit[i]]
           retired == [sup EXCEPT !.permit = permits]
<1>1. supUp /\ lapsed \cup stale # {} /\ SupCommit(LiftPendingIssue(retired, g), ok)
  BY DEF ListIssues
<1>2. \A i \in lapsed \cup stale :
         /\ i \in Issues /\ sup.permit[i] \in PermitRecords
         /\ sup.permit[i].status = "pending" /\ sup.permit[i].grant = g
  BY PendingIsThere DEF PendingPermits
<1>3. Granted(sup, g)
  BY <1>1, <1>2, PendingIsThere
<1>4. /\ permits \in [Issues -> PermitRecords]
      /\ \A i \in Issues : permits[i].status = "absent" <=> sup.permit[i].status = "absent"
      /\ \A i \in Issues : permits[i].grant = sup.permit[i].grant
      /\ \A i \in Issues :
            \/ permits[i] = sup.permit[i]
            \/ /\ sup.permit[i].status = "pending" /\ sup.permit[i].grant = g
               /\ permits[i].status \in {"expired", "revoked"}
               /\ permits[i].version = sup.permit[i].version
  <2> HIDE DEF lapsed, stale
  <2> SUFFICES ASSUME NEW i \in Issues
               PROVE  /\ permits[i] \in PermitRecords
                      /\ permits[i].status = "absent" <=> sup.permit[i].status = "absent"
                      /\ permits[i].grant = sup.permit[i].grant
                      /\ \/ permits[i] = sup.permit[i]
                         \/ /\ sup.permit[i].status = "pending" /\ sup.permit[i].grant = g
                            /\ permits[i].status \in {"expired", "revoked"}
                            /\ permits[i].version = sup.permit[i].version
    OBVIOUS
  <2>1. sup.permit[i] \in PermitRecords
    BY DEF Sane, SupStores
  <2> QED BY <1>2, <2>1 DEF PermitRecords
<1> HIDE DEF permits
<1>5. Sane(retired) /\ Grows(sup, retired) /\ retired.grant = sup.grant
  BY <1>4, SetPermitsSane
<1>9. retired.permit = permits
  BY DEF Sane, SupStores
<1> HIDE DEF retired
<1>10. /\ Retires(sup, retired)
       /\ \A i \in Issues : sup.permit[i].grant # g => retired.permit[i] = sup.permit[i]
  BY <1>4, <1>9 DEF Retires
<1>11. /\ Evolves(sup, LiftPendingIssue(retired, g))
       /\ KeepsIssuesPause(sup, LiftPendingIssue(retired, g))
  BY <1>5, <1>10, LiftEvolves DEF KeepsIssuesPause
<1>6. Granted(retired, g)
  BY <1>3, <1>5 DEF Granted
<1>7. Sane(LiftPendingIssue(retired, g)) /\ Grows(retired, LiftPendingIssue(retired, g))
  BY <1>5, <1>6, LiftSane
<1>8. Grows(sup, LiftPendingIssue(retired, g))
  BY <1>5, <1>7, GrowsTransitive DEF Sane
<1> QED BY <1>1, <1>7, <1>8, <1>11 DEF CommitsGrown, Sound, Sane

\* consumeIssuePermit spends the permit, and charges the grant within its limit.
LEMMA ConsumeGrows ==
  ASSUME Sane(sup), NEW i \in Issues, NEW charge \in BOOLEAN, NEW ok \in BOOLEAN,
         ConsumeIssuePermit(i, charge, ok)
  PROVE  CommitsGrown
<1> DEFINE g == sup.permit[i].grant
           last == PendingPermits(sup, g) = {i}
           lift == last /\ "pending_issue" \in sup.grant[g].pauses
           spent == [sup.permit[i] EXCEPT !.status = "consumed"]
           marked == [sup EXCEPT !.permit[i] = spent]
           pauses == IF lift THEN sup.grant[g].pauses \ {"pending_issue"}
                     ELSE sup.grant[g].pauses
           used == IF charge THEN sup.grant[g].used + 1 ELSE sup.grant[g].used
           grant == [sup.grant[g] EXCEPT !.pauses = pauses, !.used = used]
           gr == IF lift \/ charge THEN Rotate(grant) ELSE grant
           next == [marked EXCEPT !.grant[g] = gr]
<1>1. /\ supUp /\ sup.permit[i].status = "pending"
      /\ charge => sup.grant[g].used < sup.grant[g].limit
      /\ SupCommit(Consume(sup, i, charge), ok)
      /\ sup.grant[g].version = sup.permit[i].version
  BY DEF ConsumeIssuePermit, Consumable
<1>2. sup.permit[i] \in PermitRecords /\ g \in Grants /\ Granted(sup, g)
  BY <1>1, PendingIsThere
<1>3. Consume(sup, i, charge) = next
  BY DEF Consume
<1>4. Succeeds(gr, sup.grant[g])
  <2>1. Succeeds(sup.grant[g], sup.grant[g])
    BY <1>2, SelfSucceeds
  <2>2. pauses \in SUBSET PauseReasons
    BY <2>1 DEF Succeeds, GrantRecords
  <2>3. used \in Nat /\ sup.grant[g].used <= used /\ used <= sup.grant[g].limit
    BY <1>1, <2>1 DEF Succeeds, GrantRecords
  <2> HIDE DEF pauses, used, lift
  <2>4. Succeeds(grant, sup.grant[g])
    BY <2>1, <2>2, <2>3 DEF CodeGone, Succeeds, GrantRecords
  <2> HIDE DEF grant
  <2> QED BY <2>4, RotateSucceeds
<1>5. /\ spent \in PermitRecords /\ spent.status = "consumed" /\ spent.grant = g
      /\ spent.version = sup.permit[i].version
  BY <1>2 DEF PermitRecords
<1>9. Advances(gr, sup.grant[g]) /\ gr.pauses = pauses
  <2>1. sup.grant[g] \in GrantRecords /\ pauses \in SUBSET PauseReasons /\ used \in Nat
    BY <1>2, GrantTyped DEF GrantRecords
  <2>2. ~(lift \/ charge) => grant = sup.grant[g]
    BY <2>1 DEF GrantRecords
  <2> HIDE DEF pauses, used, lift
  <2>3. grant \in GrantRecords /\ grant.version = sup.grant[g].version /\ grant.pauses = pauses
    BY <2>1 DEF GrantRecords
  <2> HIDE DEF grant
  <2>4. CASE lift \/ charge
    BY <2>1, <2>3, <2>4, RotateAdvances
  <2>5. CASE ~(lift \/ charge)
    BY <2>1, <2>2, <2>3, <2>5, SameAdvances
  <2> QED BY <2>4, <2>5
<1> HIDE DEF spent, gr
<1>10. \A j \in Issues : marked.permit[j] = IF j = i THEN spent ELSE sup.permit[j]
  BY DEF Sane, SupStores
<1>6. Sane(marked) /\ Grows(sup, marked) /\ marked.grant = sup.grant
  BY <1>1, <1>5, SetPermitSane
<1> HIDE DEF marked
<1>7. Sane(next) /\ Grows(marked, next)
  <2>1. Granted(marked, g) /\ Succeeds(gr, marked.grant[g])
    BY <1>2, <1>4, <1>6 DEF Granted
  <2> QED BY <1>2, <1>6, <2>1, SetGrantSane
<1>11. /\ next.permit = marked.permit
       /\ \A h \in Grants : next.grant[h] = IF h = g THEN gr ELSE sup.grant[h]
  BY <1>6 DEF Sane, SupStores
<1> HIDE DEF next
<1>8. Grows(sup, next)
  BY <1>6, <1>7, GrowsTransitive DEF Sane
<1>12. Evolves(sup, next)
  <2>1. Retires(sup, next)
    BY <1>1, <1>5, <1>10, <1>11 DEF Retires
  <2>2. \A h \in Grants : Advances(next.grant[h], sup.grant[h])
    BY <1>9, <1>11, GrantTyped, SameAdvances
  <2> QED BY <2>1, <2>2, RetireEvolves
<1>13. IssuesPause(sup) => IssuesPause(next)
  <2> SUFFICES ASSUME IssuesPause(sup) PROVE IssuesPause(next)
    OBVIOUS
  <2>1. \A h \in Grants : PendingPermits(next, h) = PendingPermits(sup, h) \ {i}
    BY <1>1, <1>5, <1>10, <1>11 DEF PendingPermits
  <2>2. \A h \in Grants \ {g} : /\ PendingPermits(next, h) = PendingPermits(sup, h)
                               /\ next.grant[h] = sup.grant[h]
    BY <2>1, <1>11 DEF PendingPermits
  <2>3. i \in PendingPermits(sup, g) /\ "pending_issue" \in sup.grant[g].pauses
    BY <1>1, <1>2 DEF PendingPermits, IssuesPause
  <2>4. "pending_issue" \in next.grant[g].pauses <=> ~last
    BY <1>2, <1>9, <1>11, <2>3
  <2>5. PendingPermits(next, g) # {} <=> ~last
    BY <1>2, <2>1, <2>3
  <2> QED BY <2>2, <2>4, <2>5 DEF IssuesPause
<1> QED BY <1>1, <1>3, <1>7, <1>8, <1>12, <1>13 DEF CommitsGrown, Sound, KeepsIssuesPause, Sane

\* What a step may do with the store.
StoreStep == CommitsGrown \/ Tick \/ SupCrash \/ SupRestart \/ UNCHANGED supVars

\* What the manager's methods are, besides the clock, a crash and a start.
LEMMA NextCommitsGrown ==
  ASSUME Sane(sup), now \in Nat, SupNext
  PROVE  StoreStep
<1>1. \A exp \in 1 .. MaxTime : exp \in Nat
  OBVIOUS
<1>2. ASSUME NEW ok \in BOOLEAN, NEW g \in Grants,
             \/ \E w \in Workspaces, limit \in Limits, ttl \in CheckTtls, exp \in 1 .. MaxTime :
                   CreateGrant(g, w, limit, ttl, exp, ok)
             \/ Redeem(g, ok)
             \/ Revoke(g, ok)
             \/ RecordOperation(g, sup.grant[g].version, ok)
             \/ \E reason \in CallerReasons : PauseGrant(g, reason, ok) \/ ClearPause(g, reason, ok)
      PROVE  CommitsGrown
  <2>1. \A reason \in CallerReasons : reason \in PauseReasons
    BY SupervisionAssumption
  <2> QED BY <1>1, <1>2, <2>1, CreateGrantGrows, RedeemGrows, RevokeGrows, RecordOperationGrows,
             PausesGrow
<1>3. ASSUME NEW ok \in BOOLEAN, NEW g \in Grants,
             \/ \E exp \in 1 .. MaxTime : RenewGrant(g, exp, ok)
             \/ \E writable \in BOOLEAN : UpdateScopes(g, writable, ok)
             \/ \E i \in Issues, subject \in Subjects, exp \in 1 .. MaxTime :
                   CreateIssuePermit(i, g, subject, exp, ok)
             \/ ListIssues(g, ok)
             \/ RecordCheck(g, ok)
             \/ ResumeRecovery(g, ok)
      PROVE  CommitsGrown
  BY <1>1, <1>3, RenewGrows, UpdateScopesGrows, CreateIssueGrows, ListGrows, RecordCheckGrows,
     ResumeGrows
<1>4. ASSUME NEW ok \in BOOLEAN,
             \/ \E w \in Workspaces, reason \in CallerReasons : PauseWorkspace(w, reason, ok)
             \/ \E i \in Issues :
                   \/ \E decision \in {"approved", "rejected"} : DecideIssue(i, decision, ok)
                   \/ \E charge \in BOOLEAN : ConsumeIssuePermit(i, charge, ok)
             \/ MarkOverdueChecks(ok)
      PROVE  CommitsGrown
  <2>1. \A reason \in CallerReasons : reason \in PauseReasons
    BY SupervisionAssumption
  <2> QED BY <1>4, <2>1, PauseWorkspaceGrows, DecideGrows, ConsumeGrows, MarkOverdueGrows
<1> QED BY <1>2, <1>3, <1>4 DEF SupNext, StoreStep

--------------------------------------------------------------------------------
(* The stores in memory and in the file stay sane.                         *)

SupInv ==
    /\ Sane(sup) /\ Sane(supDisk)
    /\ supUp \in BOOLEAN
    /\ now \in 0 .. MaxTime
    /\ ~supUp => sup = EmptySup

\* What a commit leaves in memory and in the file.
LEMMA CommitLeaves ==
  ASSUME NEW next \in SupStores, NEW ok \in BOOLEAN, SupCommit(next, ok)
  PROVE  /\ \/ sup' = next /\ supDisk' = next
            \/ sup' = sup /\ supDisk' \in {supDisk, next} \cup {x \in {EmptySup} : UnlinkFallback}
         /\ supUp' = supUp /\ now' = now
  BY DEF SupCommit, SupCommits, SupCommitFails, FileAfterFailure

\* The manager starts from sane stores,
LEMMA SupInvInit == SupInit => SupInv
<1> SUFFICES ASSUME SupInit PROVE SupInv
  OBVIOUS
<1>1. 0 \in 0 .. MaxTime
  BY SupervisionAssumption
<1> QED BY <1>1, EmptySane DEF SupInit, SupInv

\* such steps keep them sane,
LEMMA SupInvKept ==
  ASSUME SupInv, StoreStep
  PROVE  SupInv'
<1>1. Sane(sup) /\ Sane(supDisk) /\ now \in Nat /\ MaxTime \in Nat
  BY SupervisionAssumption DEF SupInv
<1>2. CASE CommitsGrown
  <2>1. PICK next \in SupStores, ok \in BOOLEAN : Sane(next) /\ SupCommit(next, ok)
    BY <1>2 DEF CommitsGrown, Sound
  <2>2. Sane(sup') /\ Sane(supDisk')
    BY <1>1, <2>1, CommitLeaves, EmptySane
  <2>3. supUp' = supUp /\ now' = now /\ supUp
    BY <1>2, <2>1, CommitLeaves DEF CommitsGrown
  <2> QED BY <1>1, <2>2, <2>3 DEF SupInv
<1>3. CASE Tick
  <2>1. now' \in 0 .. MaxTime
    BY <1>1, <1>3 DEF Tick, SupInv
  <2>2. UNCHANGED <<sup, supDisk, supUp>>
    BY <1>3 DEF Tick
  <2> QED BY <2>1, <2>2 DEF SupInv
<1>4. CASE SupCrash
  BY <1>4, EmptySane DEF SupCrash, SupInv
<1>5. CASE SupRestart
  <2>1. Sane(RecoverGrants(supDisk))
    BY <1>1, RecoverSane
  <2>2. sup' = sup \/ sup' = RecoverGrants(supDisk)
    BY <1>5 DEF SupRestart, SupCommitFails
  <2>3. supDisk' \in {supDisk, RecoverGrants(supDisk), EmptySup}
    BY <1>5 DEF SupRestart, SupCommitFails, FileAfterFailure
  <2> QED BY <1>1, <1>5, <2>1, <2>2, <2>3, EmptySane DEF SupInv, SupRestart, SupCommitFails
<1>6. CASE UNCHANGED supVars
  BY <1>6 DEF supVars, SupInv
<1> QED BY <1>2, <1>3, <1>4, <1>5, <1>6 DEF StoreStep

\* and so does every step of the manager.
LEMMA SupInvStep == SupInv /\ [SupNext]_supVars => SupInv'
<1>1. SupInv => Sane(sup) /\ now \in Nat
  BY SupervisionAssumption DEF SupInv
<1> QED BY <1>1, NextCommitsGrown, SupInvKept DEF StoreStep

\* The stores a run of the manager holds and writes are the ones validateStore
\* accepts, whatever fails and whenever it dies: a start never finds a file it
\* must refuse.
THEOREM StoresStayLoadable == AuditSpec => []SupervisionTypeOK
<1>1. AuditInit => SupInv
  BY SupInvInit DEF AuditInit
<1>2. SupInv /\ [SupNext /\ Observe]_auditVars => SupInv'
  BY SupInvStep DEF auditVars, supVars
<1>3. SupInv => SupervisionTypeOK
  BY DEF SupInv, Sane, SupervisionTypeOK
<1> QED BY <1>1, <1>2, <1>3, PTL DEF AuditSpec

--------------------------------------------------------------------------------
(* What callers were told stays true.                                      *)

Told ==
    /\ charged \in [Grants -> Nat]
    /\ \A g \in Grants :
          /\ charged[g] <= supDisk.grant[g].used
          /\ supUp => charged[g] <= sup.grant[g].used
    /\ revoked \subseteq Grants
    /\ \A g \in revoked : supDisk.grant[g].status = "revoked"
    /\ supUp => \A g \in Grants : sup.grant[g].status = "revoked" <=> g \in revoked

AuditInv == SupInv /\ Told

\* A store has counters that are numbers, and the empty one revokes nothing.
LEMMA StoreFacts ==
  ASSUME NEW s \in SupStores, NEW g \in Grants
  PROVE  s.grant[g].used \in Nat /\ EmptySup.grant[g].status # "revoked"
  BY DEF SupStores, GrantRecords, EmptySup, NoGrantRecord

\* A commit tells its caller of a charge or a revocation only when it is in the
\* file.
LEMMA ToldCommit ==
  ASSUME ~UnlinkFallback, AuditInv, CommitsGrown, Observe
  PROVE  Told'
<1>1. PICK next \in SupStores, ok \in BOOLEAN :
         Sane(next) /\ Grows(sup, next) /\ SupCommit(next, ok)
  BY DEF CommitsGrown, Sound
<1>2. /\ supUp /\ supUp'
      /\ \/ sup' = next /\ supDisk' = next
         \/ sup' = sup /\ supDisk' \in {supDisk, next}
  BY <1>1, CommitLeaves DEF CommitsGrown
<1>3. sup \in SupStores /\ supDisk \in SupStores
  BY DEF AuditInv, SupInv, Sane
<1>4. \A g \in Grants : charged'[g] = IF sup'.grant[g].used > sup.grant[g].used
                                      THEN charged[g] + 1 ELSE charged[g]
  BY <1>2 DEF Observe
<1>5. charged' \in [Grants -> Nat]
  BY <1>4 DEF Observe, AuditInv, Told
<1>6. ASSUME NEW g \in Grants
      PROVE  charged'[g] <= supDisk'.grant[g].used /\ charged'[g] <= sup'.grant[g].used
  <2>1. /\ charged[g] \in Nat /\ sup.grant[g].used \in Nat /\ supDisk.grant[g].used \in Nat
        /\ next.grant[g].used \in Nat
        /\ charged[g] <= supDisk.grant[g].used /\ charged[g] <= sup.grant[g].used
        /\ sup.grant[g].used <= next.grant[g].used
    BY <1>1, <1>2, <1>3, StoreFacts DEF AuditInv, Told, Grows
  <2>2. CASE sup' = next /\ supDisk' = next
    BY <1>4, <2>1, <2>2
  <2>3. CASE sup' = sup /\ supDisk' \in {supDisk, next}
    <3>1. charged'[g] = charged[g]
      BY <1>4, <2>1, <2>3
    <3> QED BY <2>1, <2>3, <3>1
  <2> QED BY <1>2, <2>2, <2>3
<1>7. revoked' \subseteq Grants /\ \A g \in Grants : sup'.grant[g].status = "revoked" => g \in revoked'
  BY DEF Observe, AuditInv, Told
<1>8. ASSUME NEW g \in revoked'
      PROVE  sup'.grant[g].status = "revoked" /\ supDisk'.grant[g].status = "revoked"
  <2>1. g \in Grants
    BY <1>7
  <2>2. sup.grant[g].status = "revoked" => next.grant[g].status = "revoked"
    BY <1>1, <2>1 DEF Grows
  <2>3. g \in revoked \/ sup'.grant[g].status = "revoked"
    BY DEF Observe
  <2> QED BY <1>2, <2>1, <2>2, <2>3 DEF AuditInv, Told
<1> QED BY <1>2, <1>5, <1>6, <1>7, <1>8 DEF Told

\* A crash forgets memory only, and a start takes up what the file says.
LEMMA ToldRestart ==
  ASSUME ~UnlinkFallback, AuditInv, SupCrash \/ SupRestart, Observe
  PROVE  Told'
<1>1. sup \in SupStores /\ supDisk \in SupStores /\ Sane(supDisk)
  BY DEF AuditInv, SupInv, Sane
<1>2. charged' = charged
  <2>1. ~(supUp /\ supUp')
    BY DEF SupCrash, SupRestart
  <2> QED BY <2>1 DEF Observe, AuditInv, Told
<1>3. CASE SupCrash
  <2>1. supDisk' = supDisk /\ ~supUp' /\ sup' = EmptySup
    BY <1>3 DEF SupCrash
  <2>2. revoked' = revoked
    BY <1>1, <2>1, StoreFacts DEF Observe
  <2> QED BY <1>2, <2>1, <2>2 DEF AuditInv, Told
<1>4. CASE SupRestart
  <2> DEFINE next == RecoverGrants(supDisk)
  <2>1. Sane(next) /\ next \in SupStores /\ Grows(supDisk, next)
    BY <1>1, RecoverSane DEF Sane
  <2>2. \A g \in Grants : next.grant[g].status = "revoked" <=> supDisk.grant[g].status = "revoked"
    <3>1. \A g \in Grants : next.grant[g] =
             IF supDisk.grant[g].status # "active" THEN supDisk.grant[g]
             ELSE Rotate([supDisk.grant[g] EXCEPT !.status = "pending_recovery",
                                                  !.pauses = @ \cup {"pending_recovery"}])
      BY <1>1 DEF RecoverGrants, SupStores
    <3> QED BY <3>1, <1>1 DEF Rotate, SupStores, GrantRecords
  <2>3. /\ ~supUp /\ sup = EmptySup
        /\ \/ supUp' /\ sup' = next /\ supDisk' = next
           \/ ~supUp' /\ sup' = sup /\ supDisk' \in {supDisk, next}
    BY <1>4 DEF SupRestart, SupCommitFails, FileAfterFailure, AuditInv, SupInv
  <2> HIDE DEF next
  <2>4. ASSUME NEW g \in Grants
        PROVE  charged[g] <= supDisk'.grant[g].used /\ (supUp' => charged[g] <= sup'.grant[g].used)
    <3>1. charged[g] \in Nat /\ supDisk.grant[g].used \in Nat /\ next.grant[g].used \in Nat
          /\ charged[g] <= supDisk.grant[g].used
          /\ supDisk.grant[g].used <= next.grant[g].used
      BY <1>1, <2>1, StoreFacts DEF AuditInv, Told, Grows
    <3> QED BY <2>3, <3>1
  <2>5. CASE supUp'
    BY <1>2, <2>2, <2>3, <2>4, <2>5 DEF Observe, AuditInv, Told
  <2>6. CASE ~supUp'
    <3>1. revoked' = revoked
      BY <1>1, <2>3, <2>6, StoreFacts DEF Observe
    <3> QED BY <1>2, <2>2, <2>3, <2>4, <2>6, <3>1 DEF AuditInv, Told
  <2> QED BY <2>5, <2>6
<1> QED BY <1>3, <1>4

\* Where rename replaces the file, what callers were told stays true.
LEMMA AuditInvStep ==
  ASSUME ~UnlinkFallback
  PROVE  AuditInv /\ [SupNext /\ Observe]_auditVars => AuditInv'
<1> SUFFICES ASSUME AuditInv, [SupNext /\ Observe]_auditVars PROVE AuditInv'
  OBVIOUS
<1>1. SupInv'
  BY SupInvStep DEF AuditInv, auditVars, supVars
<1>2. CASE UNCHANGED auditVars
  BY <1>1, <1>2 DEF AuditInv, Told, auditVars, supVars, historyVars
<1>3. CASE SupNext /\ Observe
  <2>1. Sane(sup) /\ now \in Nat
    BY DEF AuditInv, SupInv
  <2>2. CommitsGrown \/ Tick \/ SupCrash \/ SupRestart \/ UNCHANGED supVars
    BY <1>3, <2>1, NextCommitsGrown DEF StoreStep
  <2>3. CASE CommitsGrown
    BY <1>1, <1>3, <2>3, ToldCommit DEF AuditInv
  <2>4. CASE SupCrash \/ SupRestart
    BY <1>1, <1>3, <2>4, ToldRestart DEF AuditInv
  <2>5. CASE Tick \/ UNCHANGED supVars
    <3>1. UNCHANGED <<sup, supDisk, supUp>>
      BY <2>5 DEF Tick, supVars
    <3>2. \A g \in Grants : sup.grant[g].used \in Nat
      BY <2>1, StoreFacts DEF Sane
    <3>3. charged' = charged
      BY <1>3, <3>1, <3>2 DEF Observe, AuditInv, Told
    <3>4. revoked' = revoked
      BY <1>1, <1>3, <2>1, <3>1, StoreFacts DEF Observe, AuditInv, SupInv, Told, Sane
    <3> QED BY <1>1, <3>1, <3>3, <3>4 DEF AuditInv, Told
  <2> QED BY <2>2, <2>3, <2>4, <2>5
<1> QED BY <1>2, <1>3

\* Nothing has been told at the start.
LEMMA AuditInvInit == AuditInit => AuditInv
<1> SUFFICES ASSUME AuditInit PROVE AuditInv
  OBVIOUS
<1>1. SupInv
  BY SupInvInit DEF AuditInit
<1>2. \A g \in Grants : EmptySup.grant[g].used = 0 /\ EmptySup.grant[g].status # "revoked"
  BY DEF EmptySup, NoGrantRecord
<1> QED BY <1>1, <1>2 DEF AuditInit, SupInit, AuditInv, Told

\* A charge that returned is never taken back, in memory or in the file: over
\* failed writes, crashes and starts a grant pays for every operation it was
\* charged with, so its limit bounds them all.
THEOREM ChargesStay ==
  ASSUME ~UnlinkFallback
  PROVE  AuditSpec => []ChargesAreDurable
<1>1. AuditInit => AuditInv
  BY AuditInvInit
<1>2. AuditInv /\ [SupNext /\ Observe]_auditVars => AuditInv'
  BY AuditInvStep
<1>3. AuditInv => ChargesAreDurable
  BY DEF AuditInv, Told, ChargesAreDurable
<1> QED BY <1>1, <1>2, <1>3, PTL DEF AuditSpec

\* A revoked grant stays revoked with its credential void: neither a failed write,
\* nor a start, nor the owner's resume of interrupted grants brings it back.
THEOREM RevocationStays ==
  ASSUME ~UnlinkFallback
  PROVE  AuditSpec => []RevocationIsFinal
<1>1. AuditInit => AuditInv
  BY AuditInvInit
<1>2. AuditInv /\ [SupNext /\ Observe]_auditVars => AuditInv'
  BY AuditInvStep
<1>3. AuditInv => RevocationIsFinal
  BY DEF AuditInv, SupInv, Sane, Coherent, Told, RevocationIsFinal
<1> QED BY <1>1, <1>2, <1>3, PTL DEF AuditSpec

--------------------------------------------------------------------------------
(* A code yields one token.                                                *)

\* The grants a token was handed out for have no code left, here or in the file.
CodesGone ==
    /\ redeemed \subseteq Grants
    /\ \A g \in redeemed : CodeGone(supDisk.grant[g]) /\ (supUp => CodeGone(sup.grant[g]))

\* No step brings a code back that is gone from memory and file.
LEMMA GoneStaysGone ==
  ASSUME ~UnlinkFallback, SupInv, SupNext, NEW g \in Grants,
         CodeGone(supDisk.grant[g]), supUp => CodeGone(sup.grant[g])
  PROVE  CodeGone(supDisk'.grant[g]) /\ (supUp' => CodeGone(sup'.grant[g]))
<1>1. Sane(sup) /\ Sane(supDisk) /\ now \in Nat
  BY DEF SupInv
<1>2. CASE CommitsGrown
  <2>1. PICK next \in SupStores, ok \in BOOLEAN :
           Sane(next) /\ Grows(sup, next) /\ SupCommit(next, ok)
    BY <1>2 DEF CommitsGrown, Sound
  <2>2. CodeGone(next.grant[g])
    BY <1>2, <2>1 DEF CommitsGrown, Grows
  <2> QED BY <1>2, <2>1, <2>2, CommitLeaves DEF CommitsGrown
<1>3. CASE Tick \/ SupCrash
  BY <1>3 DEF Tick, SupCrash
<1>4. CASE SupRestart
  <2>1. CodeGone(RecoverGrants(supDisk).grant[g])
    BY <1>1, RecoverSane DEF Grows
  <2> QED BY <1>4, <2>1 DEF SupRestart, SupCommitFails, FileAfterFailure
<1> QED BY <1>1, <1>2, <1>3, <1>4, NextCommitsGrown DEF StoreStep, supVars

\* A redeem that returned leaves no code behind.
LEMMA RedeemedIsGone ==
  ASSUME SupInv, NEW g \in Grants, Redeem(g, TRUE)
  PROVE  CodeGone(supDisk'.grant[g]) /\ CodeGone(sup'.grant[g])
<1> DEFINE gr == [sup.grant[g] EXCEPT !.cred = "token", !.credUntil = now + TokenTtl]
<1>1. sup' = [sup EXCEPT !.grant[g] = gr] /\ supDisk' = sup'
  BY DEF Redeem, SetGrant, SupCommit, SupCommits
<1>2. sup.grant \in [Grants -> GrantRecords] /\ sup \in SupStores
  BY DEF SupInv, Sane, SupStores
<1>3. gr.cred = "token"
  BY <1>2 DEF GrantRecords
<1> HIDE DEF gr
<1>4. sup'.grant[g] = gr
  BY <1>1, <1>2 DEF SupStores
<1> QED BY <1>1, <1>3, <1>4 DEF CodeGone

\* Where rename replaces the file, a redeem code yields one token, over any number
\* of crashes, starts and failed writes.
THEOREM OneTokenPerCode ==
  ASSUME ~UnlinkFallback
  PROVE  AuditSpec => CodeYieldsOneToken
<1>1. AuditInit => SupInv /\ CodesGone
  BY SupInvInit DEF AuditInit, CodesGone
<1>2. SupInv /\ CodesGone /\ [SupNext /\ Observe]_auditVars => SupInv' /\ CodesGone'
  <2> SUFFICES ASSUME SupInv, CodesGone, [SupNext /\ Observe]_auditVars
               PROVE  SupInv' /\ CodesGone'
    OBVIOUS
  <2>1. SupInv'
    BY SupInvStep DEF auditVars, supVars
  <2>2. CASE UNCHANGED auditVars
    BY <2>1, <2>2 DEF CodesGone, auditVars, supVars, historyVars
  <2>3. CASE SupNext /\ Observe
    <3>1. redeemed' = redeemed \cup {g \in Grants : sup' # sup /\ Redeem(g, TRUE)}
      BY <2>3 DEF Observe
    <3> HIDE DEF Observe
    <3>2. ASSUME NEW g \in redeemed'
          PROVE  CodeGone(supDisk'.grant[g]) /\ (supUp' => CodeGone(sup'.grant[g]))
      <4>1. CASE g \in redeemed
        BY <2>3, <4>1, GoneStaysGone DEF CodesGone
      <4>2. CASE g \in Grants /\ Redeem(g, TRUE)
        BY <4>2, RedeemedIsGone
      <4> QED BY <3>1, <3>2, <4>1, <4>2
    <3>3. redeemed' \subseteq Grants
      BY <3>1 DEF CodesGone
    <3> QED BY <2>1, <3>2, <3>3 DEF CodesGone
  <2> QED BY <2>2, <2>3
<1>3. SupInv /\ CodesGone
         => [\A g \in Grants : sup' # sup /\ Redeem(g, TRUE) => g \notin redeemed]_auditVars
  BY DEF CodesGone, CodeGone, Redeem
<1> QED BY <1>1, <1>2, <1>3, PTL DEF AuditSpec, CodeYieldsOneToken

--------------------------------------------------------------------------------
(* Issues pause their grant, and a permit dies with the terms it was made for. *)

\* What a start makes of the grants in the file: versions rise, except of grants
\* that were not active, and the pause for issues is as it was.
LEMMA RecoverLeaves ==
  ASSUME NEW s, Sane(s), NEW g \in Grants
  PROVE  LET t == RecoverGrants(s) IN
         /\ t.permit = s.permit
         /\ t.grant[g].version \in Nat
         /\ IF s.grant[g].status = "active" THEN s.grant[g].version < t.grant[g].version
                                            ELSE t.grant[g] = s.grant[g]
         /\ t.grant[g].status # "active"
         /\ SamePause(t.grant[g], s.grant[g])
<1> DEFINE t == RecoverGrants(s)
           gr == [s.grant[g] EXCEPT !.status = "pending_recovery",
                                    !.pauses = @ \cup {"pending_recovery"}]
<1>1. s \in SupStores /\ s.grant[g] \in GrantRecords
  BY GrantTyped DEF Sane
<1>2. /\ t.permit = s.permit
      /\ t.grant[g] = IF s.grant[g].status # "active" THEN s.grant[g] ELSE Rotate(gr)
  BY <1>1 DEF RecoverGrants, SupStores
<1>3. /\ gr \in GrantRecords /\ gr.version = s.grant[g].version
      /\ gr.pauses = s.grant[g].pauses \cup {"pending_recovery"}
      /\ gr.status = "pending_recovery"
  BY <1>1 DEF GrantRecords, PauseReasons
<1> HIDE DEF t, gr
<1>4. /\ Rotate(gr).version = s.grant[g].version + 1
      /\ Rotate(gr).pauses = s.grant[g].pauses \cup {"pending_recovery"}
      /\ Rotate(gr).status = "pending_recovery"
      /\ s.grant[g].version \in Nat
  BY <1>1, <1>3 DEF Rotate, GrantRecords
<1>5. /\ t.permit = s.permit
      /\ t.grant[g].version \in Nat
      /\ IF s.grant[g].status = "active" THEN s.grant[g].version < t.grant[g].version
                                         ELSE t.grant[g] = s.grant[g]
      /\ t.grant[g].status # "active"
      /\ SamePause(t.grant[g], s.grant[g])
  BY <1>2, <1>4 DEF SamePause
<1> QED BY <1>5 DEF t

\* Memory after a step is the store a sound commit adopted, what it was, empty, or
\* what a start made of the file; so is the file.
LEMMA StoresAfter ==
  ASSUME SupInv, StoreStep
  PROVE  \/ /\ supUp /\ supUp'
            /\ \E next \in SupStores :
                  /\ Sound(next)
                  /\ \/ sup' = next /\ supDisk' = next
                     \/ sup' = sup /\ supDisk' \in {supDisk, next, EmptySup}
         \/ UNCHANGED <<sup, supDisk, supUp>>
         \/ ~supUp' /\ sup' = EmptySup /\ supDisk' \in {supDisk, RecoverGrants(supDisk), EmptySup}
         \/ ~supUp /\ sup' = RecoverGrants(supDisk) /\ supDisk' = sup'
<1>1. Sane(sup) /\ now \in Nat /\ (~supUp => sup = EmptySup)
  BY DEF SupInv
<1>2. CASE CommitsGrown
  <2>1. PICK next \in SupStores, ok \in BOOLEAN : Sound(next) /\ SupCommit(next, ok)
    BY <1>2 DEF CommitsGrown
  <2>2. supUp /\ supUp'
    BY <1>2, <2>1, CommitLeaves DEF CommitsGrown
  <2> QED BY <2>1, <2>2, CommitLeaves
<1>3. CASE Tick
  BY <1>3 DEF Tick
<1>4. CASE SupCrash
  BY <1>4 DEF SupCrash
<1>5. CASE SupRestart
  BY <1>1, <1>5 DEF SupRestart, SupCommitFails, FileAfterFailure
<1>6. CASE UNCHANGED supVars
  BY <1>6 DEF supVars
<1> QED BY <1>2, <1>3, <1>4, <1>5, <1>6 DEF StoreStep

\* What a step of the manager does to the store.
LEMMA ManagerStep ==
  ASSUME SupInv, SupNext
  PROVE  StoreStep
<1>1. Sane(sup) /\ now \in Nat
  BY SupervisionAssumption DEF SupInv
<1> QED BY <1>1, NextCommitsGrown

\* Where the callers' reasons do not include the one for issues, the pause is right
\* in memory and in the file.
LEMMA IssuesPauseStep ==
  ASSUME "pending_issue" \notin CallerReasons,
         SupInv, SupNext, IssuesPause(sup), IssuesPause(supDisk)
  PROVE  IssuesPause(sup') /\ IssuesPause(supDisk')
<1>1. IssuesPause(EmptySup)
  BY SupervisionAssumption
  DEF IssuesPause, EmptySup, NoGrantRecord, NoPermitRecord, PendingPermits
<1>2. IssuesPause(RecoverGrants(supDisk))
  <2>1. Sane(supDisk)
    BY DEF SupInv
  <2>2. \A g \in Grants : SamePause(RecoverGrants(supDisk).grant[g], supDisk.grant[g])
    BY <2>1, RecoverLeaves
  <2>3. ASSUME NEW g \in Grants
        PROVE  PendingPermits(RecoverGrants(supDisk), g) = PendingPermits(supDisk, g)
    BY <2>1, RecoverLeaves DEF PendingPermits
  <2> QED BY <2>2, <2>3 DEF IssuesPause, SamePause
<1>3. \A next : Sound(next) => IssuesPause(next)
  BY DEF Sound, KeepsIssuesPause
<1>4. /\ sup' \in {sup, EmptySup, RecoverGrants(supDisk)} \/ Sound(sup')
      /\ supDisk' \in {supDisk, EmptySup, RecoverGrants(supDisk)} \/ Sound(supDisk')
  BY ManagerStep, StoresAfter
<1> QED BY <1>1, <1>2, <1>3, <1>4

\* A grant is paused for an issue exactly while it has a pending permit: however
\* permits come and go, expire, are listed, decided or spent, and whatever fails, no
\* grant is stuck paused for an issue that is gone, and none writes past one.
THEOREM IssuesPauseTheirGrant ==
  ASSUME "pending_issue" \notin CallerReasons
  PROVE  AuditSpec => []PausedWhileIssuePending
<1> DEFINE Inv == SupInv /\ IssuesPause(sup) /\ IssuesPause(supDisk)
<1>1. AuditInit => Inv
  <2>1. IssuesPause(EmptySup)
    BY SupervisionAssumption
    DEF IssuesPause, EmptySup, NoGrantRecord, NoPermitRecord, PendingPermits
  <2> QED BY <2>1, SupInvInit DEF AuditInit, SupInit
<1>2. Inv /\ [SupNext /\ Observe]_auditVars => Inv'
  <2> SUFFICES ASSUME Inv, [SupNext /\ Observe]_auditVars PROVE Inv'
    OBVIOUS
  <2>1. SupInv'
    BY SupInvStep DEF auditVars, supVars
  <2>2. CASE SupNext
    BY <2>1, <2>2, IssuesPauseStep
  <2>3. CASE UNCHANGED supVars
    BY <2>1, <2>3 DEF supVars
  <2> QED BY <2>2, <2>3 DEF auditVars
<1>3. Inv => PausedWhileIssuePending
  BY DEF IssuesPause, PausedWhileIssuePending
<1> QED BY <1>1, <1>2, <1>3, PTL DEF AuditSpec

\* A pending permit is for its grant's version or an older one; for an older one
\* when the grant is not active.
Dated(s) ==
    \A i \in Issues : s.permit[i].status = "pending" =>
        LET gr == s.grant[s.permit[i].grant] IN
        /\ s.permit[i].version <= gr.version
        /\ gr.status # "active" => s.permit[i].version < gr.version

\* The permit is for an older version than its grant has.
Outdated(s, i) ==
    s.permit[i].status = "pending" => s.permit[i].version < s.grant[s.permit[i].grant].version

\* A pending permit, its grant, and their versions in a sane store.
LEMMA PermitVersions ==
  ASSUME NEW s, Sane(s), NEW i \in Issues, s.permit[i].status = "pending"
  PROVE  /\ s.permit[i].grant \in Grants /\ s.permit[i].version \in Nat
         /\ s.grant[s.permit[i].grant].version \in Nat
<1>1. s.permit[i].version \in Nat /\ s.permit[i].grant \in Grants
  BY PendingIsThere DEF PermitRecords
<1> QED BY <1>1, GrantTyped DEF GrantRecords

\* A permit that is pending after a sound change was so before, unless it is new;
\* a change of terms outdates it, and nothing brings it up to date.
LEMMA EvolvesDates ==
  ASSUME NEW s, Sane(s), NEW t, Sane(t), Evolves(s, t), Dated(s)
  PROVE  /\ Dated(t)
         /\ \A i \in Issues :
               s.permit[i].status # "absent" /\ t.permit[i].status = "pending" =>
                  LET g == s.permit[i].grant IN
                  /\ s.permit[i].status = "pending"
                  /\ Outdated(s, i) \/ Terms(t.grant[g]) # Terms(s.grant[g]) => Outdated(t, i)
<1>1. ASSUME NEW i \in Issues, s.permit[i].status # "absent", t.permit[i].status = "pending"
      PROVE  /\ s.permit[i].status = "pending"
             /\ t.permit[i].grant = s.permit[i].grant
             /\ t.permit[i].version = s.permit[i].version
  <2>1. CASE Retires(s, t)
    BY <1>1, <2>1 DEF Retires
  <2>2. CASE \E j \in Issues : MadeFor(s, t, j)
    BY <1>1, <2>2 DEF MadeFor
  <2> QED BY <2>1, <2>2 DEF Evolves
<1>2. ASSUME NEW i \in Issues, s.permit[i].status # "absent", t.permit[i].status = "pending"
      PROVE  LET g == s.permit[i].grant IN
             /\ t.permit[i].version <= t.grant[g].version
             /\ t.grant[g].status # "active" => t.permit[i].version < t.grant[g].version
             /\ Outdated(s, i) \/ Terms(t.grant[g]) # Terms(s.grant[g])
                    => t.permit[i].version < t.grant[g].version
  <2> DEFINE g == s.permit[i].grant
  <2>1. /\ s.permit[i].status = "pending" /\ t.permit[i].version = s.permit[i].version
        /\ g \in Grants /\ s.permit[i].version \in Nat /\ s.grant[g].version \in Nat
    BY <1>1, <1>2, PermitVersions
  <2>2. Advances(t.grant[g], s.grant[g])
    BY <2>1 DEF Evolves
  <2>3. /\ s.permit[i].version <= s.grant[g].version
        /\ s.grant[g].status # "active" => s.permit[i].version < s.grant[g].version
        /\ Outdated(s, i) => s.permit[i].version < s.grant[g].version
    BY <2>1 DEF Dated, Outdated
  <2>4. t.grant[g].status # s.grant[g].status => Terms(t.grant[g]) # Terms(s.grant[g])
    BY DEF Terms
  <2>5. /\ t.grant[g].version \in Nat /\ s.grant[g].version <= t.grant[g].version
        /\ Terms(t.grant[g]) # Terms(s.grant[g]) => s.grant[g].version < t.grant[g].version
    BY <2>2 DEF Advances
  <2> HIDE DEF g
  <2>6. /\ s.permit[i].version <= t.grant[g].version
        /\ t.grant[g].status # "active" => s.permit[i].version < t.grant[g].version
        /\ Outdated(s, i) \/ Terms(t.grant[g]) # Terms(s.grant[g])
               => s.permit[i].version < t.grant[g].version
    BY <2>1, <2>3, <2>4, <2>5
  <2> QED BY <2>1, <2>6 DEF g
<1>3. Dated(t)
  <2> SUFFICES ASSUME NEW i \in Issues, t.permit[i].status = "pending"
               PROVE  LET gr == t.grant[t.permit[i].grant] IN
                      /\ t.permit[i].version <= gr.version
                      /\ gr.status # "active" => t.permit[i].version < gr.version
    BY DEF Dated
  <2>1. CASE s.permit[i].status # "absent"
    BY <1>1, <1>2, <2>1
  <2>2. CASE s.permit[i].status = "absent"
    <3>1. MadeFor(s, t, i)
      BY <2>2 DEF Evolves, Retires, MadeFor
    <3>2. t.grant[t.permit[i].grant].version \in Nat
      BY PermitVersions
    <3> QED BY <3>1, <3>2 DEF MadeFor
  <2> QED BY <2>1, <2>2
<1> QED BY <1>1, <1>2, <1>3 DEF Outdated

\* A start outdates every pending permit.
LEMMA RecoverOutdates ==
  ASSUME NEW s, Sane(s), Dated(s)
  PROVE  Dated(RecoverGrants(s)) /\ \A i \in Issues : Outdated(RecoverGrants(s), i)
<1> DEFINE t == RecoverGrants(s)
<1>1. ASSUME NEW i \in Issues, t.permit[i].status = "pending"
      PROVE  t.permit[i].version < t.grant[t.permit[i].grant].version
  <2>1. t.permit = s.permit
    BY DEF RecoverGrants, Sane, SupStores
  <2>2. s.permit[i].status = "pending"
    BY <1>1, <2>1
  <2> DEFINE g == s.permit[i].grant
  <2>3. g \in Grants /\ s.permit[i].version \in Nat /\ s.grant[g].version \in Nat
    BY <2>2, PermitVersions
  <2>4. /\ t.grant[g].version \in Nat
        /\ IF s.grant[g].status = "active" THEN s.grant[g].version < t.grant[g].version
                                           ELSE t.grant[g] = s.grant[g]
    BY <2>3, RecoverLeaves
  <2>5. /\ s.permit[i].version <= s.grant[g].version
        /\ s.grant[g].status # "active" => s.permit[i].version < s.grant[g].version
    BY <2>2 DEF Dated
  <2> HIDE DEF t, g
  <2>6. s.permit[i].version < t.grant[g].version
    BY <2>3, <2>4, <2>5
  <2> QED BY <2>1, <2>6 DEF g
<1>2. Sane(t)
  BY RecoverSane
<1> HIDE DEF t
<1>3. Dated(t)
  BY <1>1, <1>2, PermitVersions DEF Dated
<1> QED BY <1>1, <1>3 DEF t, Outdated

\* Touched permits are there, and outdated while they are pending.
TouchedOutdated ==
    /\ touched \subseteq Issues
    /\ \A i \in touched : sup.permit[i].status # "absent" /\ Outdated(sup, i)

DatedInv == SupInv /\ Dated(sup) /\ Dated(supDisk) /\ TouchedOutdated

\* Every step keeps versions ahead of the permits made for them.
LEMMA DatedInvStep ==
  ASSUME DatedInv, SupNext, Observe
  PROVE  DatedInv'
<1>1. SupInv' /\ Sane(sup) /\ Sane(supDisk)
  BY SupInvStep DEF DatedInv, SupInv
<1>2. Dated(EmptySup) /\ \A i \in Issues : EmptySup.permit[i].status = "absent"
  BY DEF Dated, EmptySup, NoPermitRecord
<1>3. Dated(RecoverGrants(supDisk)) /\ \A i \in Issues : Outdated(RecoverGrants(supDisk), i)
  BY <1>1, RecoverOutdates DEF DatedInv
<1>4. \A next : Sound(next) => Dated(next)
  BY <1>1, EvolvesDates DEF Sound, DatedInv
<1>5. /\ sup' \in {sup, EmptySup, RecoverGrants(supDisk)} \/ Sound(sup')
      /\ supDisk' \in {supDisk, EmptySup, RecoverGrants(supDisk)} \/ Sound(supDisk')
  BY ManagerStep, StoresAfter DEF DatedInv
<1>6. Dated(sup') /\ Dated(supDisk')
  BY <1>2, <1>3, <1>4, <1>5 DEF DatedInv
<1>7. touched' \subseteq Issues
  BY DEF Observe
<1>8. ASSUME NEW i \in touched'
      PROVE  sup'.permit[i].status # "absent" /\ Outdated(sup', i)
  <2>1. /\ i \in Issues /\ sup'.permit[i].status # "absent"
        /\ \/ i \in touched
           \/ ~supUp
           \/ /\ sup.permit[i].status # "absent"
              /\ LET g == sup.permit[i].grant IN Terms(sup'.grant[g]) # Terms(sup.grant[g])
    BY DEF Observe
  <2>2. CASE sup' = RecoverGrants(supDisk) \/ sup' = EmptySup
    BY <1>2, <1>3, <2>1, <2>2
  <2>3. CASE supUp /\ sup' = sup
    BY <2>1, <2>3 DEF DatedInv, TouchedOutdated
  <2>4. CASE supUp /\ Sound(sup')
    <3>1. sup.permit[i].status # "absent"
      BY <2>1, <2>4 DEF DatedInv, TouchedOutdated
    <3>2. \/ Outdated(sup, i)
          \/ LET g == sup.permit[i].grant IN Terms(sup'.grant[g]) # Terms(sup.grant[g])
      BY <2>1, <2>4 DEF DatedInv, TouchedOutdated
    <3>3. Sane(sup') /\ Evolves(sup, sup') /\ Dated(sup)
      BY <2>4 DEF Sound, DatedInv
    <3>4. sup'.permit[i].status = "pending" => Outdated(sup', i)
      BY <1>1, <2>1, <3>1, <3>2, <3>3, EvolvesDates
    <3> QED BY <2>1, <3>4 DEF Outdated
  <2>5. \/ sup' = RecoverGrants(supDisk) \/ sup' = EmptySup
        \/ supUp /\ sup' = sup
        \/ supUp /\ Sound(sup')
    BY ManagerStep, StoresAfter DEF DatedInv, SupInv
  <2> QED BY <2>2, <2>3, <2>4, <2>5
<1> QED BY <1>1, <1>6, <1>7, <1>8 DEF DatedInv, TouchedOutdated

\* A permit is spent only at the version it was made for.
LEMMA SpentIsCurrent ==
  ASSUME DatedInv, SupNext, NEW i \in Issues, Spent(i)
  PROVE  i \notin touched
<1>1. Sane(sup)
  BY DEF DatedInv, SupInv
<1>2. Sound(sup')
  BY ManagerStep, StoresAfter DEF DatedInv, Spent
<1>3. Retires(sup, sup')
  BY <1>2 DEF Sound, Evolves, MadeFor, Retires, Spent
<1>4. sup.permit[i].version = sup.grant[sup.permit[i].grant].version
  BY <1>3 DEF Retires, Spent
<1>5. ~Outdated(sup, i)
  BY <1>1, <1>4, PermitVersions DEF Outdated, Spent
<1> QED BY <1>5 DEF DatedInv, TouchedOutdated

\* The owner's answer to an issue is used only for the grant as it was when the
\* issue was raised: any takeover, pause, charge, renewal, change of scope or restart
\* since then makes the permit worthless for good, approved or not.
THEOREM PermitsDieWithTheirTerms == AuditSpec => SpentPermitIsUntouched
<1>1. AuditInit => DatedInv
  BY SupInvInit
  DEF AuditInit, SupInit, DatedInv, Dated, TouchedOutdated, EmptySup, NoPermitRecord
<1>2. DatedInv /\ [SupNext /\ Observe]_auditVars => DatedInv'
  <2> SUFFICES ASSUME DatedInv, UNCHANGED auditVars PROVE DatedInv'
    BY DatedInvStep
  <2> QED BY DEF DatedInv, SupInv, Dated, TouchedOutdated, Outdated, auditVars, supVars,
                 historyVars
<1>3. DatedInv /\ [SupNext /\ Observe]_auditVars
         => [\A i \in Issues : Spent(i) => i \notin touched]_auditVars
  BY SpentIsCurrent
<1> QED BY <1>1, <1>2, <1>3, PTL DEF AuditSpec, SpentPermitIsUntouched

================================================================================
