------------------------------ MODULE PlanDocument -----------------------------
(***************************************************************************)
(* src/server/command-executor.ts, resolvePlanFileOnClient and             *)
(* discoverPlansOnClient: a read looks for the plan card, opens its        *)
(* document with View Plan, notes the file's name and puts the tab and the *)
(* transcript back; a discovery walks up until it meets a plan card.  Both *)
(* are guests in an editor somebody is using.                              *)
(*                                                                         *)
(* A step is sent, happens in the page, and is returned; the page moves in *)
(* between.  The guard that ends a step and the one that opens the next    *)
(* are taken as one, asked when the first has returned.                    *)
(***************************************************************************)
EXTENDS PlanPage

CONSTANTS
    MaxSearch,   \* PLAN_DOCUMENT_SCROLL_MAX_STEPS
    MaxPolls     \* PLAN_DOCUMENT_OPEN_POLL_MAX and PLAN_DOCUMENT_RESTORE_POLL_MAX

ASSUME DocumentAssumption == MaxSearch \in Nat \ {0} /\ MaxPolls \in Nat \ {0}

VARIABLES
    flow,    \* the attempt under way, or the latest one
    trace    \* history: what it found, what it last saw, and whether the user came in

documentVars == <<pageVars, flow, trace>>

NoFlow == [attempt |-> NoAttempt, kind |-> "read", step |-> "done", phase |-> "back",
           baseline |-> AnyTab, flowTop |-> NoTop, initialTop |-> NoTop, correction |-> 0,
           count |-> 0, after |-> "none", outcome |-> "none"]

NoTrace == [entered |-> FALSE, input |-> FALSE, tab |-> AnyTab, row |-> 0,
            lastTab |-> AnyTab, lastRow |-> 0, lastInput |-> FALSE]

DocumentInit == PageInit /\ flow = NoFlow /\ trace = NoTrace

Active   == flow.step # "done"
Scrolled == flow.initialTop # NoTop

\* restoreBase
Target == flow.initialTop + flow.correction

\* `live` is what guard() finds; an attempt that is stale already never touches the page.
StartFlow(a, kind, live) ==
    /\ ~Active
    /\ flow' = IF live THEN [NoFlow EXCEPT !.attempt = a, !.kind = kind, !.step = "install", !.phase = "sent"]
               ELSE [NoFlow EXCEPT !.attempt = a, !.kind = kind, !.outcome = "failed"]
    /\ trace' = NoTrace
    /\ UNCHANGED pageVars

--------------------------------------------------------------------------------
(* In the page.                                                            *)

\* planStepReadDirectUri
UriStatus == IF CardStatus # "ok" THEN "refused" ELSE IF card.kind = "named" THEN "uri" ELSE "ok"

\* The evaluate that each step sends.
Evaluate(a, step) ==
    \/ step = "install" /\ Install(a)
    \/ step = "preflight" /\ Look(a, AnyTab, NoTop, CardStatus)
    \/ step = "start" /\ Look(a, AnyTab, NoTop, "ok")
    \/ step = "scrollUp" /\ ScrollUp(a, flow.baseline, flow.flowTop)
    \/ /\ step \in {"probe", "scan"}
       /\ Look(a, flow.baseline, flow.flowTop, CardStatus)
    \/ step = "uri" /\ Look(a, flow.baseline, flow.flowTop, UriStatus)
    \/ step = "click" /\ ClickViewPlan(a, flow.baseline, flow.flowTop)
    \/ step = "open" /\ Look(a, AnyTab, flow.flowTop, OpenStatus(flow.baseline))
    \/ step = "restoreTab" /\ RestoreTab(a, flow.baseline, flow.flowTop)
    \/ step = "verify" /\ Look(a, AnyTab, flow.flowTop,
                               IF page.selected = flow.baseline THEN "ok" ELSE "not_yet")
    \/ step = "restoreScroll" /\ RestoreScroll(a, flow.baseline, flow.flowTop, Target)
    \/ step \in {"confirm", "end"} /\ Look(a, flow.baseline, flow.flowTop, "ok")
    \/ step = "final" /\ LookAtWatch(a)
    \/ step = "remove" /\ Remove(a)

\* What the history keeps of it: the tab a flow found, the row on screen when it first
\* scrolled, and what the looks that can end a successful flow last saw.
Noted(step) ==
    LET last == step \in {"uri", "restoreScroll", "confirm", "end"} IN
    [trace EXCEPT
        !.entered = @ \/ step = "install",
        !.tab = IF step \in {"preflight", "start"} THEN page.selected ELSE @,
        !.row = IF step = "scrollUp" /\ ~Scrolled THEN Row ELSE @,
        !.lastTab = IF last THEN page'.selected ELSE @,
        !.lastRow = IF last THEN page'.top + page'.first ELSE @,
        !.lastInput = IF last \/ step = "final" THEN trace.input ELSE @]

InPage ==
    /\ Active /\ flow.phase = "sent"
    /\ Evaluate(flow.attempt, flow.step)
    /\ trace' = Noted(flow.step)
    /\ flow' = [flow EXCEPT !.phase = "back"]

--------------------------------------------------------------------------------
(* Returning: the branch each step takes on what the page told it.         *)

\* followScroll
Following ==
    IF flow.flowTop # NoTop /\ reply.top \notin {NoTop, flow.flowTop}
    THEN [flow EXCEPT !.correction = @ + reply.top - flow.flowTop, !.flowTop = reply.top]
    ELSE flow

GoTo(f, step) == flow' = [f EXCEPT !.step = step, !.phase = "sent"]

\* The finally of both flows.
End(outcome) == flow' = [flow EXCEPT !.outcome = outcome, !.step = "remove", !.phase = "sent"]

\* restoreSearchScroll, when there is something to restore, and what follows it
RestoreThen(f, after) ==
    IF Scrolled THEN GoTo([f EXCEPT !.after = after], "restoreScroll")
    ELSE IF after \in {"found", "missing"}
    THEN End(IF after = "found" THEN "ok" ELSE "failed")
    ELSE GoTo(f, after)

Back(step, statuses) ==
    /\ Active /\ flow.phase = "back" /\ flow.step = step
    /\ reply.status \in statuses
    /\ UNCHANGED <<pageVars, trace>>

ReturnInstall ==
    /\ Back("install", {"ok"})
    /\ GoTo(flow, IF flow.kind = "read" THEN "preflight" ELSE "start")

ReturnStart ==
    /\ Back("start", {"ok"})
    /\ GoTo([flow EXCEPT !.baseline = trace.tab], "scan")

ReturnPreflight ==
    /\ Back("preflight", {"ok", "missing"})
    /\ LET f == [flow EXCEPT !.baseline = trace.tab] IN
       IF reply.status = "ok" THEN GoTo(f, "uri")
       ELSE GoTo(f, "scrollUp")

\* The transcript starts here.
ReturnScrollTop ==
    /\ Back("scrollUp", {"scroll_top"})
    /\ RestoreThen(Following, IF flow.kind = "read" THEN "missing" ELSE "end")

ReturnScrolled ==
    /\ Back("scrollUp", {"scrolled"})
    /\ GoTo([Following EXCEPT
                !.initialTop = IF @ = NoTop THEN reply.top ELSE @,
                !.flowTop = reply.top - 1,
                !.count = @ + 1],
            IF flow.kind = "read" THEN "probe" ELSE "scan")

ReturnProbe ==
    /\ Back("probe", {"ok", "missing"})
    /\ IF reply.status = "ok" THEN GoTo([Following EXCEPT !.count = 0], "uri")
       ELSE IF flow.count < MaxSearch THEN GoTo(Following, "scrollUp")
       ELSE RestoreThen(Following, "missing")

ReturnScan ==
    /\ Back("scan", {"ok", "missing", "unsound"})
    /\ IF reply.status # "ok" /\ flow.count < MaxSearch THEN GoTo(Following, "scrollUp")
       ELSE RestoreThen(Following, "end")

\* The file's URI is in the page already: nothing has to be opened.
ReturnUri ==
    /\ Back("uri", {"ok", "uri"})
    /\ IF reply.status = "uri" THEN RestoreThen(Following, "found") ELSE GoTo([Following EXCEPT !.count = 0], "click")

ReturnClicked ==
    /\ Back("click", {"clicked"})
    /\ GoTo(Following, "open")

\* Polling goes on while no other document is in the way.
ReturnOpen ==
    /\ Back("open", {"not_open", "waiting", "ok"})
    /\ IF reply.status = "ok" THEN GoTo([Following EXCEPT !.count = 0], "restoreTab")
       ELSE IF flow.count + 1 < MaxPolls THEN GoTo([Following EXCEPT !.count = @ + 1], "open")
       ELSE End("failed")

ReturnRestoreTab ==
    /\ Back("restoreTab", {"restored"})
    /\ GoTo(Following, "verify")

ReturnVerify ==
    /\ Back("verify", {"ok", "not_yet"})
    /\ IF reply.status = "ok" THEN RestoreThen(Following, "confirm")
       ELSE IF flow.count + 1 < MaxPolls THEN GoTo([Following EXCEPT !.count = @ + 1], "verify")
       ELSE End("failed")

\* A card that was not found is a failure however the transcript ended up.
ReturnRestoreScroll ==
    /\ Back("restoreScroll", {"ok"})
    /\ LET f == [flow EXCEPT !.flowTop = reply.top, !.correction = reply.top - flow.initialTop] IN
       IF flow.after \in {"found", "missing"}
       THEN End(IF flow.after = "found" THEN "ok" ELSE "failed")
       ELSE GoTo(f, flow.after)

ReturnConfirm ==
    /\ Back("confirm", {"ok"})
    /\ GoTo(Following, "final")

ReturnLast ==
    /\ Back(flow.step, {"ok"})
    /\ flow.step \in {"final", "end"}
    /\ End("ok")

\* Anything else ends the attempt; so does a document whose path is not safe to read.
ReturnRefused ==
    /\ Back(flow.step, {"refused", "other_opened", "unsound"})
    /\ ~(flow.step = "scan" /\ reply.status = "unsound")
    /\ End("failed")

UnsafePath ==
    /\ Back("open", {"ok"})
    /\ End("failed")

Return(live) ==
    /\ live
    /\ \/ ReturnInstall \/ ReturnStart \/ ReturnPreflight \/ ReturnScrollTop
       \/ ReturnScrolled \/ ReturnProbe \/ ReturnScan \/ ReturnUri \/ ReturnClicked
       \/ ReturnOpen \/ ReturnRestoreTab \/ ReturnVerify \/ ReturnRestoreScroll
       \/ ReturnConfirm \/ ReturnLast \/ ReturnRefused \/ UnsafePath

\* guard() throws.
GuardThrows(live) ==
    /\ ~live
    /\ Active /\ flow.step # "remove" /\ flow.phase = "back"
    /\ End("failed")
    /\ UNCHANGED <<pageVars, trace>>

\* The evaluate rejects, before or after the page has done its part.
EvaluateThrows ==
    /\ Active /\ flow.phase \in {"sent", "back"} /\ flow.step # "remove"
    /\ End("failed")
    /\ UNCHANGED <<pageVars, trace>>

\* removeWatch, and the answer.
ReturnRemove ==
    /\ Active /\ flow.phase = "back" /\ flow.step = "remove"
    /\ flow' = [flow EXCEPT !.step = "done"]
    /\ UNCHANGED <<pageVars, trace>>

\* Its failure is swallowed, and the listeners may stay.
RemoveThrows ==
    /\ Active /\ flow.phase = "sent" /\ flow.step = "remove"
    /\ flow' = [flow EXCEPT !.step = "done", !.phase = "back"]
    /\ UNCHANGED <<pageVars, trace>>

FlowStep(live) ==
    \/ InPage \/ Return(live) \/ GuardThrows(live) \/ ReturnRemove

--------------------------------------------------------------------------------
(* The others.  What the page is shows when an evaluate runs in it: it may *)
(* as well have moved just before.                                         *)

UserActs(effect) ==
    /\ flow.phase = "sent"
    /\ UserInput(effect)
    /\ trace' = [trace EXCEPT !.input = @ \/ trace.entered]
    /\ UNCHANGED flow

CursorFollows == (CursorSelects \/ EditorReady) /\ UNCHANGED <<flow, trace>>

PageMoves ==
    /\ flow.phase = "sent"
    /\ \/ Reanchor \/ SwapScroller \/ Reload \/ CursorOpensOther
       \/ \E follow \in BOOLEAN : Grow(follow)
    /\ UNCHANGED <<flow, trace>>

================================================================================
