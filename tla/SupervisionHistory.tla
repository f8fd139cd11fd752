-------------------------- MODULE SupervisionHistory --------------------------
(***************************************************************************)
(* The supervision store with a record of what its callers were told and   *)
(* of what happened to a grant while a permit was open, which is what the  *)
(* promises of the store are about.  The history is computed from each     *)
(* step and constrains none.                                               *)
(***************************************************************************)
EXTENDS Supervision

VARIABLES
    redeemed,   \* grants a token was handed out for
    charged,    \* how often a charge to the grant returned
    revoked,    \* grants the process has held as revoked
    touched     \* permits made before the grant's terms changed, or before a restart

historyVars == <<redeemed, charged, revoked, touched>>
auditVars == <<supVars, historyVars>>

\* The terms a decision on an issue relies on.
Terms(gr) == <<gr.status, gr.pauses \ {"pending_issue"}, gr.used, gr.expiresAt, gr.writable>>

Spent(i) ==
    /\ supUp /\ supUp'
    /\ sup.permit[i].status = "pending" /\ sup'.permit[i].status = "consumed"

Observe ==
    /\ redeemed' = redeemed \cup {g \in Grants : sup' # sup /\ Redeem(g, TRUE)}
    /\ charged'  = [g \in Grants |->
            IF supUp /\ supUp' /\ sup'.grant[g].used > sup.grant[g].used
            THEN charged[g] + 1 ELSE charged[g]]
    /\ revoked'  = revoked \cup {g \in Grants : sup'.grant[g].status = "revoked"}
    /\ touched'  = {i \in Issues :
            /\ sup'.permit[i].status # "absent"
            /\ ~Spent(i)
            /\ \/ i \in touched
               \/ ~supUp
               \/ /\ sup.permit[i].status # "absent"
                  /\ LET g == sup.permit[i].grant IN Terms(sup'.grant[g]) # Terms(sup.grant[g])}

AuditInit ==
    /\ SupInit
    /\ redeemed = {}
    /\ charged = [g \in Grants |-> 0]
    /\ revoked = {}
    /\ touched = {}

AuditSpec == AuditInit /\ [][SupNext /\ Observe]_auditVars

--------------------------------------------------------------------------------
(* Properties.                                                             *)

\* Type invariant, with what validateStore demands: the store in memory and the
\* one in the file are always ones the next start accepts.
SupervisionTypeOK ==
    /\ sup \in SupStores /\ SupLoadable(sup)
    /\ supDisk \in SupStores /\ SupLoadable(supDisk)
    /\ supUp \in BOOLEAN
    /\ now \in 0 .. MaxTime

\* Every charge a caller was told of is in the file and, while the process runs, in
\* memory: no failed write, crash or restart gives spent operations back, so the
\* limit bounds the operations of the grant's whole life.
ChargesAreDurable ==
    \A g \in Grants :
        /\ charged[g] <= supDisk.grant[g].used
        /\ supUp => charged[g] <= sup.grant[g].used

\* A grant once held as revoked is revoked, with its credential void, in memory and
\* in the file for good: recovery and the owner's resume never bring it back.
RevocationIsFinal ==
    \A g \in revoked : \A s \in {supDisk} \cup {x \in {sup} : supUp} :
        s.grant[g].status = "revoked" /\ s.grant[g].cred = "void"

\* A redeem code yields one token, over crashes and failed writes.
CodeYieldsOneToken ==
    [][\A g \in Grants : sup' # sup /\ Redeem(g, TRUE) => g \notin redeemed]_auditVars

\* A permit is consumed only if nothing happened to its grant since the permit was
\* made: no takeover, pause, resume, charge, renewal, change of scope, revocation
\* or restart, whether before or after the owner approved it.
SpentPermitIsUntouched ==
    [][\A i \in Issues : Spent(i) => i \notin touched]_auditVars

\* A grant is paused for a pending issue exactly while it has a pending permit.
PausedWhileIssuePending ==
    \A g \in Grants :
        "pending_issue" \in sup.grant[g].pauses <=> PendingPermits(sup, g) # {}

================================================================================
