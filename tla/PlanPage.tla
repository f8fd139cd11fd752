------------------------------- MODULE PlanPage --------------------------------
(***************************************************************************)
(* src/server/command-executor.ts, PLAN_DOCUMENT_HELPERS_JS: the page of   *)
(* Cursor's window as a plan read finds it, and what one evaluate may see  *)
(* and change there.  The page belongs to the user and to Cursor, who move *)
(* it between any two steps.                                               *)
(*                                                                         *)
(* The transcript is a column of rows seen through a viewport one row      *)
(* high.  Rows that Cursor mounts above the first one get smaller numbers, *)
(* so `top + first` names the row on screen whatever the pixels say.       *)
(***************************************************************************)
EXTENDS Integers

CONSTANTS
    Attempts,       \* the tokens of reads and discoveries
    NoAttempt,
    MaxHeight       \* bound: rows of the transcript

ASSUME PageAssumption == NoAttempt \notin Attempts /\ MaxHeight \in Nat \ {0}

VARIABLES
    page,    \* what the page shows
    watch,   \* window.__cursorRemotePlanWatch
    card,    \* the plan card asked for; it does not change
    reply    \* what the latest evaluate returned

pageVars == <<page, watch, card, reply>>

AnyTab   == "any"
NoTop    == -1
NoRecord == [scroller |-> 0, top |-> NoTop, height |-> 0, row |-> 0]
NoReply  == [status |-> "none", top |-> NoTop]
NoWatch  == [installed |-> FALSE, touched |-> FALSE, record |-> NoRecord]

Row == page.top + page.first

\* A page to start on: what an attempt finds, whatever an earlier one left.
NewPage == [selected |-> "original", next |-> "none", editor |-> "closed",
            top |-> 1, height |-> 2, first |-> 0, scroller |-> 1, draft |-> FALSE]

PageInit ==
    /\ page = NewPage
    /\ watch = [a \in Attempts |-> NoWatch]
    /\ card \in [row : {0, 1}, kind : {"opens"}] \cup [row : {0}, kind : {"named"}]
                                            \cup [row : {1}, kind : {"unsound"}]
    /\ reply = NoReply

--------------------------------------------------------------------------------
(* What the helpers see.                                                   *)

\* planLocateCard: a virtualised card is there only while its row is on screen; an
\* unsound one is ambiguous, no plan card, or has no usable View Plan button; a named
\* one has the URI of its file in React's props.
CardStatus ==
    IF card.row # Row THEN "missing" ELSE IF card.kind = "unsound" THEN "unsound" ELSE "ok"

\* planWatchState
Undisturbed(a) == watch[a].installed /\ ~watch[a].touched

\* planScrollObserve
Observed(p) ==
    [scroller |-> p.scroller, top |-> p.top, height |-> p.height, row |-> p.top + p.first]

\* Mutant of Reanchored: the offsets alone, without the rows.
ReanchoredByOffset(a) ==
    /\ page.top # watch[a].record.top
    /\ page.top - watch[a].record.top = page.height - watch[a].record.height

\* planScrollReanchored: the offset moved by what the content grew, and the row this
\* attempt saw is still where it was on screen.
Reanchored(a) ==
    LET r == watch[a].record IN
    /\ page.top # r.top
    /\ page.top - r.top = page.height - r.height
    /\ Row = r.row

\* planScrollConfirmed
Confirmed(a, expectedTop) ==
    /\ watch[a].record # NoRecord
    /\ watch[a].record.scroller = page.scroller
    /\ page.top = expectedTop \/ Reanchored(a)

\* Mutant of FlowState: the watch is left to the last look.
FlowStateUnwatched(a, expectedTab, flowTop) ==
    /\ ~page.draft
    /\ expectedTab \in {AnyTab, page.selected}
    /\ flowTop = NoTop \/ Confirmed(a, flowTop)

\* planFlowState.  Its refusals differ only in what the caller is told; a composer that is
\* no longer there and an ambiguous selection are refused like another selection.
FlowState(a, expectedTab, flowTop) ==
    /\ Undisturbed(a)
    /\ ~page.draft
    /\ expectedTab \in {AnyTab, page.selected}
    /\ flowTop = NoTop \/ Confirmed(a, flowTop)

\* An accepted shift advances the record, so that it is not counted twice.
Followed(a, flowTop) ==
    IF flowTop \notin {NoTop, page.top}
    THEN [watch EXCEPT ![a].record = Observed(page)]
    ELSE watch

--------------------------------------------------------------------------------
(* The steps.  Each is one evaluate: `reply` is what it returns, and the   *)
(* page is as it was unless the step says otherwise.                       *)

Answer(status, top) == reply' = [status |-> status, top |-> top]

Refuse == Answer("refused", NoTop) /\ UNCHANGED <<page, watch, card>>

\* planWatchInstall
Install(a) ==
    \/ /\ ~watch[a].installed
       /\ watch' = [watch EXCEPT ![a] = [NoWatch EXCEPT !.installed = TRUE]]
       /\ Answer("ok", NoTop)
       /\ UNCHANGED <<page, card>>
    \/ watch[a].installed /\ Refuse

\* planWatchRemove
Remove(a) ==
    /\ watch' = [watch EXCEPT ![a] = NoWatch]
    /\ Answer("removed", NoTop)
    /\ UNCHANGED <<page, card>>

\* planWatchState, asked for by itself
LookAtWatch(a) ==
    /\ Answer(IF Undisturbed(a) THEN "ok" ELSE "refused", NoTop)
    /\ UNCHANGED <<page, watch, card>>

\* A step that only looks: planStepPreflight, planStepCardProbe, planStepScanPlans,
\* planStepReadDirectUri, planStepDiscoverStart, planStepDiscoverDone and
\* planStepVerifySelection, with what it finds as the status.
Look(a, tab, flowTop, status) ==
    \/ /\ FlowState(a, tab, flowTop)
       /\ Answer(status, page.top)
       /\ watch' = Followed(a, flowTop)
       /\ UNCHANGED <<page, card>>
    \/ ~FlowState(a, tab, flowTop) /\ Refuse

\* planStepScrollUp
ScrollUp(a, tab, flowTop) ==
    \/ /\ FlowState(a, tab, flowTop)
       /\ page.top > 0
       /\ page' = [page EXCEPT !.top = @ - 1]
       /\ watch' = [watch EXCEPT ![a].record = Observed(page')]
       /\ Answer("scrolled", page.top)
       /\ UNCHANGED card
    \/ page.top = 0 /\ Look(a, tab, flowTop, "scroll_top")
    \/ page.top > 0 /\ ~FlowState(a, tab, flowTop) /\ Refuse

\* planStepRestoreScroll.  The browser clips an offset the transcript no longer has.
RestoreScroll(a, tab, flowTop, base) ==
    LET target == base + (page.top - flowTop) IN
    \/ /\ FlowState(a, tab, flowTop)
       /\ target \in 0 .. page.height - 1
       /\ page' = [page EXCEPT !.top = target]
       /\ watch' = [watch EXCEPT ![a].record = Observed(page')]
       /\ Answer("ok", target)
       /\ UNCHANGED card
    \/ /\ FlowState(a, tab, flowTop)
       /\ target \notin 0 .. page.height - 1
       /\ page' = [page EXCEPT !.top = IF target < 0 THEN 0 ELSE page.height - 1]
       /\ watch' = Followed(a, flowTop)
       /\ Answer("refused", NoTop)
       /\ UNCHANGED card
    \/ ~FlowState(a, tab, flowTop) /\ Refuse

\* planStepClickViewPlan: Cursor opens the document when it gets to it.
ClickViewPlan(a, tab, flowTop) ==
    \/ /\ FlowState(a, tab, flowTop)
       /\ CardStatus = "ok"
       /\ page' = [page EXCEPT !.next = "plan"]
       /\ watch' = Followed(a, flowTop)
       /\ Answer("clicked", page.top)
       /\ UNCHANGED card
    \/ CardStatus # "ok" /\ Look(a, tab, flowTop, "refused")
    \/ CardStatus = "ok" /\ ~FlowState(a, tab, flowTop) /\ Refuse

\* planStepReadOpen, which expects no tab in particular.
OpenStatus(baseline) ==
    IF page.selected = baseline THEN "not_open"
    ELSE IF page.selected # "plan" THEN "other_opened"
    ELSE IF page.editor = "ready" THEN "ok" ELSE "waiting"

\* planStepRestoreTab; the tab the read started from may have been closed meanwhile.
RestoreTab(a, baseline, flowTop) ==
    \/ /\ FlowState(a, "plan", flowTop)
       /\ page' = [page EXCEPT !.next = baseline]
       /\ watch' = Followed(a, flowTop)
       /\ Answer("restored", page.top)
       /\ UNCHANGED card
    \/ Look(a, "plan", flowTop, "refused")

--------------------------------------------------------------------------------
(* What moves the page meanwhile.                                          *)

\* Trusted events reach every listener that is installed,
Touched == [a \in Attempts |->
    IF watch[a].installed THEN [watch[a] EXCEPT !.touched = TRUE] ELSE watch[a]]

\* and change what the user meant to change.
UserInput(effect) ==
    /\ page' = CASE effect = "draft"  -> [page EXCEPT !.draft = ~@]
                 [] effect = "tab"    -> [page EXCEPT !.selected = "other"]
                 [] effect = "scroll" -> [page EXCEPT !.top = IF @ = 0 THEN page.height - 1 ELSE @ - 1]
    /\ watch' = Touched
    /\ UNCHANGED <<card, reply>>

\* Cursor shows the document it was told to show, and fills its editor.
CursorSelects ==
    /\ page.next # "none"
    /\ page' = [page EXCEPT !.selected = page.next, !.next = "none",
                            !.editor = IF page.next = "plan" THEN "streaming" ELSE "closed"]
    /\ UNCHANGED <<watch, card, reply>>

EditorReady ==
    /\ page.editor = "streaming"
    /\ page' = [page EXCEPT !.editor = "ready"]
    /\ UNCHANGED <<watch, card, reply>>

\* An agent edits another file: no event of the user's.
CursorOpensOther ==
    /\ page' = [page EXCEPT !.selected = "other"]
    /\ UNCHANGED <<watch, card, reply>>

\* Rows are mounted above, and the browser keeps what is on screen in its place.
Reanchor ==
    /\ page.height < MaxHeight
    /\ page' = [page EXCEPT !.top = @ + 1, !.height = @ + 1, !.first = @ - 1]
    /\ UNCHANGED <<watch, card, reply>>

\* A message arrives, and the transcript follows it or stays.
Grow(follow) ==
    /\ page.height < MaxHeight
    /\ page' = [page EXCEPT !.height = @ + 1, !.top = IF follow THEN @ + 1 ELSE @]
    /\ UNCHANGED <<watch, card, reply>>

\* React replaces the scroller by another at the same offset.
SwapScroller ==
    /\ page' = [page EXCEPT !.scroller = 3 - @]
    /\ UNCHANGED <<watch, card, reply>>

\* A reload takes the listeners with it, and starts over.
Reload ==
    /\ page' = [page EXCEPT !.next = "none", !.editor = "closed", !.draft = FALSE]
    /\ watch' = [a \in Attempts |-> NoWatch]
    /\ UNCHANGED <<card, reply>>

================================================================================
