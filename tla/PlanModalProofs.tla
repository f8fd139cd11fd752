---------------------------- MODULE PlanModalProofs ----------------------------
(***************************************************************************)
(* Proofs about the reading of plans, for any number of attempts and       *)
(* sessions, and whatever the user, Cursor and the network do.  First what *)
(* the walk knows of the page (DocumentInv), then what the relay, the      *)
(* network and the client know of each other (ClientInv), then the         *)
(* theorems.                                                               *)
(***************************************************************************)
EXTENDS PlanModal, TLAPS

--------------------------------------------------------------------------------
(* Types of the page and of the walk.                                      *)

Tabs == {"original", "plan", "other"}

Records == [scroller : Int, top : Int, height : Int, row : Int]

PageRecords == [selected : Tabs, next : Tabs \cup {"none"}, editor : {"closed", "streaming", "ready"},
                top : Nat, height : Nat \ {0}, first : Int, scroller : Int, draft : BOOLEAN]

WatchRecords == [installed : BOOLEAN, touched : BOOLEAN, record : Records]

Statuses == {"none", "ok", "refused", "removed", "scrolled", "scroll_top", "missing", "unsound", "uri",
             "clicked", "restored", "not_open", "other_opened", "waiting", "not_yet"}

Openings == {"install", "preflight", "start"}
Walks    == {"scrollUp", "probe", "scan", "uri", "click", "open", "restoreTab", "verify",
             "restoreScroll", "confirm", "final", "end"}

Flows == [attempt : Attempts \cup {NoAttempt}, kind : {"read", "discover"},
          step : Openings \cup Walks \cup {"remove", "done"}, phase : {"sent", "back"},
          baseline : Tabs \cup {AnyTab}, flowTop : Int, initialTop : Int, correction : Int,
          count : Int, after : {"none", "found", "missing", "confirm", "end"},
          outcome : {"none", "ok", "failed"}]

Traces == [entered : BOOLEAN, input : BOOLEAN, tab : Tabs \cup {AnyTab}, row : Int,
           lastTab : Tabs \cup {AnyTab}, lastRow : Int, lastInput : BOOLEAN]

DocumentTypeOK ==
    /\ page \in PageRecords
    /\ watch \in [Attempts -> WatchRecords]
    /\ reply \in [status : Statuses, top : Int]
    /\ flow \in Flows /\ (Active => flow.attempt \in Attempts)
    /\ trace \in Traces

--------------------------------------------------------------------------------
(* What the walk knows of the page.                                        *)

\* Once the user came in, the watch of the attempt says so, or is gone with a reload.
InputIsSeen ==
    /\ trace.input => trace.entered
    /\ trace.entered /\ flow.step = "install" => flow.phase = "back"
    /\ trace.input /\ Active => ~Undisturbed(flow.attempt)

\* The page has done its part, or is about to.
Walking == flow.step \notin {"remove", "done"} /\ (flow.phase = "back" => reply.status # "refused")

\* The walk as it will be once it has taken in what the page returned.
Held ==
    IF flow.phase = "sent" THEN flow
    ELSE IF flow.step = "scrollUp" /\ reply.status = "scrolled"
         THEN [Following EXCEPT !.initialTop = IF @ = NoTop THEN reply.top ELSE @, !.flowTop = reply.top - 1]
    ELSE IF flow.step = "restoreScroll"
         THEN [flow EXCEPT !.flowTop = reply.top, !.correction = reply.top - flow.initialTop]
    ELSE Following

\* From what it recorded last, the offsets it keeps lead back to the row it left; and
\* nobody but Cursor has moved the page since, which adds rows above and below only.
Placed(f) ==
    f.initialTop # NoTop =>
        /\ f.flowTop >= 0
        /\ Undisturbed(flow.attempt) =>
              LET r == watch[flow.attempt].record IN
              /\ r.top = f.flowTop
              /\ f.initialTop + f.correction + r.row - r.top = trace.row
              /\ page.first <= r.row - r.top /\ r.row <= Row

WalkInv ==
    /\ flow.initialTop = NoTop => flow.correction = 0 /\ flow.flowTop = NoTop
    /\ flow.step \in Openings => ~Scrolled
    /\ flow.step = "restoreScroll" => Scrolled /\ flow.after # "none"
    /\ flow.step \in Walks => flow.baseline = trace.tab /\ trace.tab \in Tabs
    /\ flow.step \in {"preflight", "start"} /\ Walking /\ flow.phase = "back" => trace.tab \in Tabs
    /\ flow.phase = "back" /\ Walking /\ reply.status = "scrolled" => reply.top > 0
    /\ flow.phase = "back" /\ flow.step = "restoreScroll" /\ Walking => reply.top >= 0
    /\ Walking => Placed(Held)

\* What it last saw is what it found.
TabBack == trace.lastTab = trace.tab
RowBack == Scrolled => trace.lastRow = trace.row

LastInv ==
    /\ flow.step \in {"confirm", "end"} /\ Scrolled => flow.initialTop + flow.correction = flow.flowTop
    /\ flow.step = "final" => TabBack /\ RowBack
    /\ flow.phase = "back" /\ Walking /\ flow.step \in {"uri", "restoreScroll", "confirm", "end"}
       => TabBack /\ ~trace.lastInput /\ (flow.step # "uri" => RowBack)
    /\ flow.phase = "back" /\ Walking /\ flow.step = "final" => ~trace.lastInput
    /\ flow.outcome = "ok" => flow.step \in {"remove", "done"} /\ TabBack /\ RowBack /\ ~trace.lastInput

DocumentInv == DocumentTypeOK /\ InputIsSeen /\ WalkInv /\ LastInv

--------------------------------------------------------------------------------
(* What an evaluate may see and leave behind.                              *)

\* With the watch in place and the page where it was, the offsets lead back to the row.
OnTrack == Scrolled => flow.initialTop + flow.correction + (page.top - flow.flowTop) + page.first = trace.row

LEMMA Seen ==
  ASSUME DocumentInv, flow.phase = "sent", flow.step \in Openings \cup Walks,
         NEW tab, FlowState(flow.attempt, tab, flow.flowTop)
  PROVE  /\ ~trace.input /\ Undisturbed(flow.attempt) /\ tab \in {AnyTab, page.selected}
         /\ OnTrack
<1>1. Active /\ Walking /\ Held = flow /\ flow.attempt \in Attempts
  BY DEF DocumentInv, DocumentTypeOK, Active, Walking, Held, Openings, Walks
<1>2. ~trace.input /\ Undisturbed(flow.attempt) /\ tab \in {AnyTab, page.selected}
  BY <1>1 DEF DocumentInv, InputIsSeen, FlowState
<1>3. ASSUME Scrolled
      PROVE  flow.initialTop + flow.correction + (page.top - flow.flowTop) + page.first = trace.row
  <2> DEFINE r == watch[flow.attempt].record
  <2>1. /\ flow.flowTop >= 0 /\ r.top = flow.flowTop
        /\ flow.initialTop + flow.correction + r.row - r.top = trace.row
        /\ page.first <= r.row - r.top /\ r.row <= Row
    BY <1>1, <1>2, <1>3 DEF DocumentInv, WalkInv, Placed, Scrolled
  <2>2. /\ r.top \in Int /\ r.row \in Int /\ page.top \in Int /\ page.first \in Int
        /\ flow.flowTop \in Int /\ flow.initialTop \in Int /\ flow.correction \in Int /\ trace.row \in Int
    BY <1>1 DEF DocumentInv, DocumentTypeOK, PageRecords, WatchRecords, Records, Flows, Traces
  <2>3. page.top = flow.flowTop \/ Row = r.row
    BY <2>1 DEF FlowState, Confirmed, Reanchored, NoTop
  <2> HIDE DEF r
  <2> QED BY <2>1, <2>2, <2>3 DEF Row
<1> QED BY <1>2, <1>3 DEF OnTrack

\* The record of the watch is all that a step of the walk changes of it.
LEMMA FollowedTyped ==
  ASSUME DocumentInv, NEW a \in Attempts, NEW w, w = Followed(a, flow.flowTop)
  PROVE  /\ w \in [Attempts -> WatchRecords]
         /\ w[a].installed = watch[a].installed /\ w[a].touched = watch[a].touched
         /\ flow.flowTop \notin {NoTop, page.top} =>
               w[a].record.top = page.top /\ w[a].record.row = page.top + page.first
         /\ flow.flowTop \in {NoTop, page.top} => w[a].record = watch[a].record
<1>1. watch \in [Attempts -> WatchRecords] /\ page \in PageRecords
  BY DEF DocumentInv, DocumentTypeOK
<1>2. Observed(page) \in Records /\ Observed(page).top = page.top
      /\ Observed(page).row = page.top + page.first
  BY <1>1 DEF Observed, PageRecords, Records
<1> HIDE DEF Observed
<1>3. CASE flow.flowTop \in {NoTop, page.top}
  BY <1>1, <1>3 DEF Followed
<1>4. CASE flow.flowTop \notin {NoTop, page.top}
  <2>1. w = [watch EXCEPT ![a].record = Observed(page)]
    BY <1>4 DEF Followed
  <2>2. w \in [Attempts -> WatchRecords] /\ w[a] = [watch[a] EXCEPT !.record = Observed(page)]
    BY <1>1, <1>2, <2>1 DEF WatchRecords
  <2> QED BY <1>1, <1>2, <1>4, <2>2 DEF WatchRecords
<1> QED BY <1>3, <1>4

\* What a step that sees the flow in order returns keeps the walk in its place.
LEMMA StaysPlaced ==
  ASSUME DocumentInv, flow.phase = "sent", flow.step \in Walks \ {"final", "restoreScroll"},
         NEW tab, FlowState(flow.attempt, tab, flow.flowTop),
         page'.top = page.top, page'.first = page.first,
         watch' = Followed(flow.attempt, flow.flowTop),
         reply'.top = page.top, reply'.status # "scrolled",
         flow' = [flow EXCEPT !.phase = "back"], Scrolled => trace'.row = trace.row
  PROVE  Placed(Held)'
<1> DEFINE f == Following'
           r == watch'[flow.attempt].record
<1>1. Active /\ Walking /\ Held = flow /\ flow.attempt \in Attempts
  BY DEF DocumentInv, DocumentTypeOK, Active, Walking, Held, Walks
<1>2. /\ flow'.step = flow.step /\ flow'.phase = "back" /\ flow'.initialTop = flow.initialTop
      /\ flow'.correction = flow.correction /\ flow'.flowTop = flow.flowTop
      /\ flow'.attempt = flow.attempt /\ flow' \in Flows
  BY DEF DocumentInv, DocumentTypeOK, Flows
<1>3. Held' = f
  BY <1>2 DEF Held
<1>4. /\ page.top \in Nat /\ page.first \in Int
      /\ flow.flowTop \in Int /\ flow.initialTop \in Int /\ flow.correction \in Int /\ trace.row \in Int
      /\ watch[flow.attempt].record.top \in Int /\ watch[flow.attempt].record.row \in Int
  BY <1>1 DEF DocumentInv, DocumentTypeOK, PageRecords, WatchRecords, Records, Flows, Traces
<1> SUFFICES ASSUME f.initialTop # NoTop
             PROVE  /\ f.flowTop >= 0
                    /\ f.initialTop + f.correction + r.row - r.top = trace'.row
                    /\ r.top = f.flowTop /\ page'.first <= r.row - r.top /\ r.row <= Row'
  BY <1>2, <1>3 DEF Placed
<1>5. /\ f.initialTop = flow.initialTop
      /\ flow.flowTop # NoTop /\ flow.flowTop # page.top =>
            f.correction = flow.correction + page.top - flow.flowTop /\ f.flowTop = page.top
      /\ flow.flowTop = NoTop \/ flow.flowTop = page.top =>
            f.correction = flow.correction /\ f.flowTop = flow.flowTop
  BY <1>2, <1>4 DEF Following, Flows, NoTop
<1> HIDE DEF f
<1>6. Scrolled /\ flow.flowTop >= 0
  BY <1>1, <1>5 DEF Scrolled, DocumentInv, WalkInv, Placed
<1>7. flow.initialTop + flow.correction + (page.top - flow.flowTop) + page.first = trace.row
  BY <1>6, Seen DEF OnTrack
<1>8. /\ flow.flowTop # page.top => r.top = page.top /\ r.row = page.top + page.first
      /\ flow.flowTop = page.top => r = watch[flow.attempt].record
  BY <1>1, <1>4, <1>6, FollowedTyped DEF NoTop
<1>9. /\ watch[flow.attempt].record.top = flow.flowTop
      /\ flow.initialTop + flow.correction + watch[flow.attempt].record.row
            - watch[flow.attempt].record.top = trace.row
  BY <1>1, <1>6, Seen DEF DocumentInv, WalkInv, Placed, Scrolled
<1> HIDE DEF r
<1>10. CASE flow.flowTop = page.top
  BY <1>4, <1>5, <1>6, <1>7, <1>8, <1>9, <1>10 DEF Row
<1>11. CASE flow.flowTop # page.top
  BY <1>4, <1>5, <1>6, <1>7, <1>8, <1>11 DEF Row, NoTop
<1> QED BY <1>10, <1>11

\* What is recorded anew after the walk has scrolled.
LEMMA Recorded ==
  ASSUME DocumentInv, NEW a \in Attempts, page' \in PageRecords,
         watch' = [watch EXCEPT ![a].record = Observed(page')]
  PROVE  /\ watch' \in [Attempts -> WatchRecords]
         /\ watch'[a].installed = watch[a].installed /\ watch'[a].touched = watch[a].touched
         /\ watch'[a].record.top = page'.top /\ watch'[a].record.row = page'.top + page'.first
<1>1. watch \in [Attempts -> WatchRecords]
  BY DEF DocumentInv, DocumentTypeOK
<1>2. Observed(page') \in Records /\ Observed(page').top = page'.top
      /\ Observed(page').row = page'.top + page'.first
  BY DEF Observed, PageRecords, Records
<1> HIDE DEF Observed
<1>3. watch' \in [Attempts -> WatchRecords] /\ watch'[a] = [watch[a] EXCEPT !.record = Observed(page')]
  BY <1>1, <1>2 DEF WatchRecords
<1> QED BY <1>1, <1>2, <1>3 DEF WatchRecords

\* The row that was on screen before the first step up is the row to come back to.
LEMMA ScrolledPlaced ==
  ASSUME DocumentInv, flow.phase = "sent", flow.step = "scrollUp",
         NEW tab, FlowState(flow.attempt, tab, flow.flowTop), page.top > 0,
         page' = [page EXCEPT !.top = @ - 1],
         watch' = [watch EXCEPT ![flow.attempt].record = Observed(page')],
         reply' = [status |-> "scrolled", top |-> page.top],
         flow' = [flow EXCEPT !.phase = "back"],
         trace'.row = IF ~Scrolled THEN Row ELSE trace.row
  PROVE  Placed(Held)'
<1> DEFINE f == [Following' EXCEPT !.initialTop = IF @ = NoTop THEN page.top ELSE @, !.flowTop = page.top - 1]
           r == watch'[flow.attempt].record
<1>1. flow.attempt \in Attempts /\ flow.step \in Walks
  BY DEF DocumentInv, DocumentTypeOK, Active, Walks
<1>2. /\ flow'.step = flow.step /\ flow'.phase = "back" /\ flow'.initialTop = flow.initialTop
      /\ flow'.correction = flow.correction /\ flow'.flowTop = flow.flowTop
      /\ flow'.attempt = flow.attempt /\ flow' \in Flows
  BY DEF DocumentInv, DocumentTypeOK, Flows
<1>3. Held' = f
  BY <1>2 DEF Held
<1>4. /\ page.top \in Nat /\ page.first \in Int /\ page \in PageRecords
      /\ flow.flowTop \in Int /\ flow.initialTop \in Int /\ flow.correction \in Int /\ trace.row \in Int
  BY DEF DocumentInv, DocumentTypeOK, PageRecords, Flows, Traces
<1>5. page' \in PageRecords /\ page'.top = page.top - 1 /\ page'.first = page.first
  BY <1>4 DEF PageRecords
<1>6. r.top = page.top - 1 /\ r.row = page.top - 1 + page.first
  BY <1>1, <1>5, Recorded
<1>7. /\ f.initialTop = IF Scrolled THEN flow.initialTop ELSE page.top
      /\ f.flowTop = page.top - 1
      /\ f.correction = IF flow.flowTop # NoTop THEN flow.correction + (page.top - flow.flowTop)
                        ELSE flow.correction
  BY <1>2, <1>4 DEF Following, Flows, NoTop, Scrolled
<1> HIDE DEF f, r
<1>8. f.initialTop + f.correction + page.first = trace'.row
  <2>1. CASE Scrolled
    <3>1. flow.flowTop # NoTop
      BY <2>1 DEF Scrolled, DocumentInv, WalkInv, Placed, Walking, Held, NoTop, Walks
    <3>2. flow.initialTop + flow.correction + (page.top - flow.flowTop) + page.first = trace.row
      BY <1>1, <2>1, Seen DEF OnTrack
    <3> QED BY <1>4, <1>7, <2>1, <3>1, <3>2
  <2>2. CASE ~Scrolled
    <3>1. flow.correction = 0 /\ flow.flowTop = NoTop
      BY <2>2 DEF Scrolled, DocumentInv, WalkInv
    <3> QED BY <1>4, <1>7, <2>2, <3>1 DEF Row
  <2> QED BY <2>1, <2>2
<1>9. f.initialTop \in Int /\ f.correction \in Int
  BY <1>4, <1>7
<1>10. /\ f.flowTop >= 0 /\ r.top = f.flowTop
       /\ f.initialTop + f.correction + r.row - r.top = trace'.row
       /\ page'.first <= r.row - r.top /\ r.row <= Row'
  BY <1>4, <1>5, <1>6, <1>7, <1>8, <1>9 DEF Row
<1> QED BY <1>2, <1>3, <1>10 DEF Placed, r

\* The restored offset shows the row that was left, wherever its rows have moved to.
LEMMA RestoredPlaced ==
  ASSUME DocumentInv, flow.phase = "sent", flow.step = "restoreScroll",
         NEW tab, FlowState(flow.attempt, tab, flow.flowTop),
         NEW target \in Nat, target = Target + (page.top - flow.flowTop),
         page' = [page EXCEPT !.top = target],
         watch' = [watch EXCEPT ![flow.attempt].record = Observed(page')],
         reply' = [status |-> "ok", top |-> target],
         flow' = [flow EXCEPT !.phase = "back"], trace'.row = trace.row
  PROVE  Placed(Held)' /\ page'.top + page'.first = trace.row
<1> DEFINE f == [flow' EXCEPT !.flowTop = target, !.correction = target - flow.initialTop]
           r == watch'[flow.attempt].record
<1>1. flow.attempt \in Attempts /\ flow.step \in Walks /\ Scrolled
  BY DEF DocumentInv, DocumentTypeOK, Active, Walks, WalkInv
<1>2. /\ flow'.step = flow.step /\ flow'.phase = "back" /\ flow'.initialTop = flow.initialTop
      /\ flow'.attempt = flow.attempt /\ flow' \in Flows
  BY DEF DocumentInv, DocumentTypeOK, Flows
<1>3. Held' = f
  BY <1>2 DEF Held
<1>4. /\ page.top \in Nat /\ page.first \in Int /\ page \in PageRecords
      /\ flow.flowTop \in Int /\ flow.initialTop \in Int /\ flow.correction \in Int /\ trace.row \in Int
  BY DEF DocumentInv, DocumentTypeOK, PageRecords, Flows, Traces
<1>5. page' \in PageRecords /\ page'.top = target /\ page'.first = page.first
  BY <1>4 DEF PageRecords
<1>6. r.top = target /\ r.row = target + page.first
  BY <1>1, <1>5, Recorded
<1>7. f.initialTop = flow.initialTop /\ f.flowTop = target /\ f.correction = target - flow.initialTop
  BY <1>2 DEF Flows
<1> HIDE DEF f, r
<1>8. flow.initialTop + flow.correction + (page.top - flow.flowTop) + page.first = trace.row
  BY <1>1, Seen DEF OnTrack
<1>9. target + page.first = trace.row
  BY <1>4, <1>8 DEF Target
<1>10. /\ f.flowTop >= 0 /\ r.top = f.flowTop
       /\ f.initialTop + f.correction + r.row - r.top = trace'.row
       /\ page'.first <= r.row - r.top /\ r.row <= Row'
  BY <1>4, <1>5, <1>6, <1>7, <1>9 DEF Row
<1> QED BY <1>2, <1>3, <1>5, <1>9, <1>10 DEF Placed, r

--------------------------------------------------------------------------------
(* One step in the page.                                                   *)

\* What all of them have in common.
Sent ==
    /\ Active /\ flow.phase = "sent"
    /\ flow' = [flow EXCEPT !.phase = "back"]
    /\ trace' = Noted(flow.step)

\* The watch of the attempt is as it was, but for the record.
WatchKept ==
    /\ watch' \in [Attempts -> WatchRecords]
    /\ watch'[flow.attempt].installed = watch[flow.attempt].installed
    /\ watch'[flow.attempt].touched = watch[flow.attempt].touched

LEMMA SentFlow ==
  ASSUME DocumentInv, Sent
  PROVE  /\ flow' \in Flows /\ flow'.phase = "back" /\ flow'.attempt \in Attempts
         /\ flow'.attempt = flow.attempt /\ flow'.step = flow.step /\ flow'.baseline = flow.baseline
         /\ flow'.initialTop = flow.initialTop /\ flow'.correction = flow.correction
         /\ flow'.flowTop = flow.flowTop /\ flow'.after = flow.after /\ flow'.outcome = flow.outcome
         /\ flow.step \in Openings \cup Walks \cup {"remove"}
         /\ Scrolled' = Scrolled
  BY DEF DocumentInv, DocumentTypeOK, Sent, Active, Flows, Scrolled

LEMMA SentTrace ==
  ASSUME DocumentInv, Sent, page' \in PageRecords
  PROVE  /\ trace' \in Traces /\ trace'.input = trace.input
         /\ trace'.entered = (trace.entered \/ flow.step = "install")
         /\ flow.step \notin {"preflight", "start"} => trace'.tab = trace.tab
         /\ flow.step \in {"preflight", "start"} => trace'.tab = page.selected
         /\ trace'.row = IF flow.step = "scrollUp" /\ ~Scrolled THEN Row ELSE trace.row
         /\ flow.step \notin {"uri", "restoreScroll", "confirm", "end"} =>
               trace'.lastTab = trace.lastTab /\ trace'.lastRow = trace.lastRow
         /\ flow.step \in {"uri", "restoreScroll", "confirm", "end"} =>
               /\ trace'.lastTab = page'.selected /\ trace'.lastRow = page'.top + page'.first
               /\ trace'.lastInput = trace.input
         /\ flow.step = "final" => trace'.lastInput = trace.input
         /\ flow.step = "remove" => trace'.lastInput = trace.lastInput
<1>1. trace \in Traces /\ page \in PageRecords /\ Row \in Int /\ page'.top + page'.first \in Int
      /\ page'.selected \in Tabs /\ page.selected \in Tabs
  BY DEF DocumentInv, DocumentTypeOK, PageRecords, Row
<1> HIDE DEF Row
<1> QED BY <1>1 DEF Sent, Noted, Traces

LEMMA SentSeesInput ==
  ASSUME DocumentInv, Sent, page' \in PageRecords, WatchKept
  PROVE  InputIsSeen'
<1>1. trace'.input = trace.input /\ trace'.entered = (trace.entered \/ flow.step = "install")
      /\ flow'.phase = "back" /\ flow'.attempt = flow.attempt
  BY SentFlow, SentTrace
<1> QED BY <1>1 DEF DocumentInv, InputIsSeen, WatchKept, Undisturbed, Sent

\* The page refused: the walk has come to its end.
LEMMA Refusal ==
  ASSUME DocumentInv, Sent, flow.step # "remove", page' \in PageRecords, WatchKept,
         reply' \in [status : Statuses, top : Int], reply'.status = "refused"
  PROVE  DocumentInv'
<1>1. DocumentTypeOK'
  BY SentFlow, SentTrace DEF DocumentTypeOK, WatchKept
<1>2. ~Walking'
  BY SentFlow DEF Walking
<1>3. WalkInv'
  <2>1. flow.step \in Walks => trace'.tab = trace.tab
    BY SentTrace DEF Walks
  <2> QED BY <1>2, <2>1, SentFlow DEF DocumentInv, WalkInv
<1>4. LastInv'
  <2>1. flow.outcome # "ok"
    BY DEF DocumentInv, LastInv, Sent, Active
  <2>2. flow.step = "final" => trace'.lastTab = trace.lastTab /\ trace'.lastRow = trace.lastRow
                               /\ trace'.tab = trace.tab /\ trace'.row = trace.row
    BY SentTrace
  <2> QED BY <1>2, <2>1, <2>2, SentFlow DEF DocumentInv, LastInv, TabBack, RowBack
<1> QED BY <1>1, <1>3, <1>4, SentSeesInput DEF DocumentInv

\* The page was as the walk expects it, and is still.
LEMMA Regular ==
  ASSUME DocumentInv, Sent, flow.step \in Walks \ {"final", "restoreScroll"},
         NEW tab, FlowState(flow.attempt, tab, flow.flowTop),
         flow.step \in {"uri", "confirm", "end"} => tab = flow.baseline,
         page' \in PageRecords, page'.selected = page.selected,
         page'.top = page.top, page'.first = page.first,
         watch' = Followed(flow.attempt, flow.flowTop),
         NEW status \in Statuses \ {"refused", "scrolled"},
         reply' = [status |-> status, top |-> page.top]
  PROVE  DocumentInv'
<1>1. WatchKept
  BY SentFlow, FollowedTyped DEF WatchKept
<1>2. reply' \in [status : Statuses, top : Int] /\ reply'.status = status /\ reply'.top = page.top
  BY DEF DocumentInv, DocumentTypeOK, PageRecords
<1>3. DocumentTypeOK'
  BY <1>1, <1>2, SentFlow, SentTrace DEF DocumentTypeOK, WatchKept
<1>4. WalkInv'
  <2>1. trace'.tab = trace.tab /\ flow.step \notin Openings
    BY SentTrace DEF Walks, Openings
  <2>2. Scrolled => trace'.row = trace.row
    BY SentTrace
  <2>3. Placed(Held)'
    BY <1>2, <2>2, StaysPlaced DEF Sent
  <2> QED BY <1>2, <2>1, <2>3, SentFlow DEF DocumentInv, WalkInv, Openings
<1>5. LastInv'
  <2>1. flow.outcome # "ok"
    BY DEF DocumentInv, LastInv, Walks
  <2>2. ASSUME flow.step \in {"uri", "confirm", "end"}
        PROVE  TabBack' /\ ~trace'.lastInput /\ (flow.step # "uri" => RowBack')
    <3>1. trace'.lastTab = page.selected /\ trace'.lastInput = trace.input /\ trace'.tab = trace.tab
          /\ trace'.lastRow = page.top + page.first /\ trace'.row = trace.row
      BY <2>2, SentTrace
    <3>2. ~trace.input /\ flow.baseline \in {AnyTab, page.selected} /\ OnTrack
      BY <2>2, Seen DEF Sent
    <3>3. flow.baseline = trace.tab /\ trace.tab # AnyTab
      BY DEF DocumentInv, WalkInv, Tabs, AnyTab
    <3>4. ASSUME Scrolled, flow.step # "uri" PROVE page.top + page.first = trace.row
      <4>1. flow.initialTop + flow.correction = flow.flowTop
        BY <2>2, <3>4 DEF DocumentInv, LastInv
      <4>2. flow.initialTop + flow.correction + (page.top - flow.flowTop) + page.first = trace.row
        BY <3>2, <3>4 DEF OnTrack
      <4>3. page.top \in Int /\ page.first \in Int /\ flow.flowTop \in Int /\ flow.initialTop \in Int
            /\ flow.correction \in Int
        BY DEF DocumentInv, DocumentTypeOK, PageRecords, Flows
      <4> QED BY <4>1, <4>2, <4>3
    <3> QED BY <3>1, <3>2, <3>3, <3>4, SentFlow DEF TabBack, RowBack
  <2> QED BY <2>1, <2>2, SentFlow DEF DocumentInv, LastInv
<1> QED BY <1>1, <1>3, <1>4, <1>5, SentSeesInput DEF DocumentInv

\* Before the walk begins there is nothing to come back to.
LEMMA OpeningInv ==
  ASSUME DocumentInv, Sent, flow.step \in Openings, page' = page, WatchKept \/ flow.step = "install",
         watch' \in [Attempts -> WatchRecords],
         reply' \in [status : Statuses, top : Int], reply'.status # "scrolled",
         InputIsSeen'
  PROVE  DocumentInv'
<1>1. page' \in PageRecords
  BY DEF DocumentInv, DocumentTypeOK
<1>2. DocumentTypeOK'
  BY <1>1, SentFlow, SentTrace DEF DocumentTypeOK
<1>3. WalkInv'
  <2>1. ~Scrolled /\ flow.correction = 0 /\ flow.flowTop = NoTop
    BY DEF DocumentInv, WalkInv, Scrolled
  <2>2. Held'.initialTop = NoTop
    BY <2>1, SentFlow DEF Held, Following, Scrolled, Openings
  <2>3. flow.step \in {"preflight", "start"} => trace'.tab \in Tabs
    BY <1>1, SentTrace DEF PageRecords
  <2> QED BY <2>1, <2>2, <2>3, SentFlow DEF WalkInv, Placed, Openings, Walks
<1>4. LastInv'
  BY SentFlow DEF DocumentInv, LastInv, Openings
<1> QED BY <1>2, <1>3, <1>4 DEF DocumentInv

LEMMA NoWatchTyped == NoWatch \in WatchRecords /\ NoTop \in Int /\ ~NoWatch.installed
<1>1. NoRecord \in Records /\ NoTop \in Int
  BY DEF NoRecord, Records, NoTop
<1> QED BY <1>1 DEF NoWatch, WatchRecords

LEMMA InstallInv ==
  ASSUME DocumentInv, Sent, flow.step = "install", Install(flow.attempt) PROVE DocumentInv'
<1>1. /\ page' = page /\ reply' \in [status : Statuses, top : Int] /\ reply'.status # "scrolled"
      /\ watch' \in [Attempts -> WatchRecords]
  <2>1. NoWatch \in WatchRecords /\ [NoWatch EXCEPT !.installed = TRUE] \in WatchRecords /\ NoTop \in Int
    BY NoWatchTyped DEF WatchRecords
  <2> QED BY <2>1 DEF Install, Answer, Refuse, Statuses, DocumentInv, DocumentTypeOK
<1>2. ~trace.input
  BY DEF DocumentInv, InputIsSeen, Sent
<1>3. page' \in PageRecords
  BY <1>1 DEF DocumentInv, DocumentTypeOK
<1>4. InputIsSeen'
  BY <1>2, <1>3, SentFlow, SentTrace DEF InputIsSeen
<1> QED BY <1>1, <1>4, OpeningInv DEF Openings

\* A look before the walk begins, or a refusal, or a look that keeps the walk in place.
LEMMA LookInv ==
  ASSUME DocumentInv, Sent, flow.step \in (Openings \cup Walks) \ {"install", "final", "restoreScroll"},
         NEW tab, flow.step \in {"uri", "confirm", "end"} => tab = flow.baseline,
         NEW status \in Statuses \ {"scrolled"}, Look(flow.attempt, tab, flow.flowTop, status)
  PROVE  DocumentInv'
<1>1. page' = page /\ page' \in PageRecords
  BY DEF Look, Refuse, DocumentInv, DocumentTypeOK
<1>2. page.top \in Int /\ NoTop \in Int
  BY DEF DocumentInv, DocumentTypeOK, PageRecords, NoTop
<1>3. CASE Refuse
  <2>1. WatchKept /\ reply' = [status |-> "refused", top |-> NoTop]
    BY <1>3 DEF Refuse, Answer, WatchKept, DocumentInv, DocumentTypeOK
  <2>2. reply' \in [status : Statuses, top : Int] /\ reply'.status = "refused"
    BY <1>2, <2>1 DEF Statuses
  <2> QED BY <1>1, <2>1, <2>2, Refusal DEF Openings, Walks
<1>4. CASE ~Refuse
  <2>1. /\ FlowState(flow.attempt, tab, flow.flowTop) /\ watch' = Followed(flow.attempt, flow.flowTop)
        /\ reply' = [status |-> status, top |-> page.top]
    BY <1>4 DEF Look, Answer
  <2>2. WatchKept
    BY <2>1, SentFlow, FollowedTyped DEF WatchKept
  <2>3. reply' \in [status : Statuses, top : Int] /\ reply'.status = status
    BY <1>2, <2>1
  <2>4. CASE status = "refused"
    BY <1>1, <2>2, <2>3, <2>4, Refusal DEF Openings, Walks
  <2>5. CASE status # "refused" /\ flow.step \in Openings
    <3>1. InputIsSeen'
      BY <1>1, <2>2, SentSeesInput
    <3> QED BY <1>1, <2>2, <2>3, <2>5, <3>1, OpeningInv DEF WatchKept
  <2>6. CASE status # "refused" /\ flow.step \notin Openings
    BY <1>1, <2>1, <2>6, Regular
  <2> QED BY <2>4, <2>5, <2>6
<1> QED BY <1>3, <1>4

\* A step that tells Cursor which document to show, and does no more.
LEMMA TellsCursor ==
  ASSUME DocumentInv, Sent, flow.step \in {"click", "restoreTab"},
         NEW tab, FlowState(flow.attempt, tab, flow.flowTop),
         NEW next \in Tabs, page' = [page EXCEPT !.next = next],
         watch' = Followed(flow.attempt, flow.flowTop),
         NEW status \in {"clicked", "restored"}, reply' = [status |-> status, top |-> page.top]
  PROVE  DocumentInv'
<1>1. /\ page' \in PageRecords /\ page'.selected = page.selected /\ page'.top = page.top
      /\ page'.first = page.first
  BY DEF DocumentInv, DocumentTypeOK, PageRecords
<1> QED BY <1>1, Regular DEF Statuses, Walks

LEMMA ClickInv ==
  ASSUME DocumentInv, Sent, flow.step = "click",
         ClickViewPlan(flow.attempt, flow.baseline, flow.flowTop)
  PROVE  DocumentInv'
<1>1. CASE Look(flow.attempt, flow.baseline, flow.flowTop, "refused")
  BY <1>1, LookInv DEF Statuses, Walks
<1>2. CASE ~Look(flow.attempt, flow.baseline, flow.flowTop, "refused")
  <2>1. CASE ~FlowState(flow.attempt, flow.baseline, flow.flowTop)
    BY <1>2, <2>1 DEF ClickViewPlan, Look
  <2>2. CASE FlowState(flow.attempt, flow.baseline, flow.flowTop)
    BY <1>2, <2>2, TellsCursor DEF ClickViewPlan, Answer, Tabs
  <2> QED BY <2>1, <2>2
<1> QED BY <1>1, <1>2

LEMMA RestoreTabInv ==
  ASSUME DocumentInv, Sent, flow.step = "restoreTab",
         RestoreTab(flow.attempt, flow.baseline, flow.flowTop)
  PROVE  DocumentInv'
<1>1. CASE Look(flow.attempt, "plan", flow.flowTop, "refused")
  BY <1>1, LookInv DEF Statuses, Walks
<1>2. CASE ~Look(flow.attempt, "plan", flow.flowTop, "refused")
  <2>1. flow.baseline \in Tabs
    BY DEF DocumentInv, WalkInv, Walks
  <2> QED BY <1>2, <2>1, TellsCursor DEF RestoreTab, Answer
<1> QED BY <1>1, <1>2

\* Scrolling up: not at the top, at the top, or refused.
LEMMA ScrollUpInv ==
  ASSUME DocumentInv, Sent, flow.step = "scrollUp",
         ScrollUp(flow.attempt, flow.baseline, flow.flowTop)
  PROVE  DocumentInv'
<1>1. CASE Look(flow.attempt, flow.baseline, flow.flowTop, "scroll_top")
  BY <1>1, LookInv DEF Statuses, Walks
<1>2. CASE ~Look(flow.attempt, flow.baseline, flow.flowTop, "scroll_top")
  <2>1. CASE ~FlowState(flow.attempt, flow.baseline, flow.flowTop)
    BY <1>2, <2>1 DEF ScrollUp, Look
  <2>2. CASE FlowState(flow.attempt, flow.baseline, flow.flowTop)
    <3>1. /\ page.top > 0 /\ page' = [page EXCEPT !.top = @ - 1]
          /\ watch' = [watch EXCEPT ![flow.attempt].record = Observed(page')]
          /\ reply' = [status |-> "scrolled", top |-> page.top]
      BY <1>2, <2>2 DEF ScrollUp, Answer
    <3>2. page' \in PageRecords /\ page.top \in Int
      BY <3>1 DEF DocumentInv, DocumentTypeOK, PageRecords
    <3>3. WatchKept
      BY <3>1, <3>2, SentFlow, Recorded DEF WatchKept
    <3>4. reply' \in [status : Statuses, top : Int] /\ reply'.top > 0 /\ reply'.status = "scrolled"
      BY <3>1, <3>2 DEF Statuses
    <3>5. DocumentTypeOK'
      BY <3>2, <3>3, <3>4, SentFlow, SentTrace DEF DocumentTypeOK, WatchKept
    <3>6. trace'.tab = trace.tab /\ trace'.row = IF ~Scrolled THEN Row ELSE trace.row
      BY <3>2, SentTrace
    <3>7. Placed(Held)'
      BY <2>2, <3>1, <3>6, ScrolledPlaced DEF Sent
    <3>8. WalkInv'
      BY <3>4, <3>6, <3>7, SentFlow DEF DocumentInv, WalkInv, Openings
    <3>9. LastInv'
      BY SentFlow DEF DocumentInv, LastInv
    <3> QED BY <3>2, <3>3, <3>5, <3>8, <3>9, SentSeesInput DEF DocumentInv
  <2> QED BY <2>1, <2>2
<1> QED BY <1>1, <1>2

\* Putting the transcript back; an offset that it no longer has is a refusal.
LEMMA RestoreScrollInv ==
  ASSUME DocumentInv, Sent, flow.step = "restoreScroll",
         RestoreScroll(flow.attempt, flow.baseline, flow.flowTop, Target)
  PROVE  DocumentInv'
<1> DEFINE target == Target + (page.top - flow.flowTop)
<1>1. /\ page \in PageRecords /\ page.height \in Nat \ {0} /\ page.top \in Int /\ target \in Int
      /\ flow.step \in Walks
  BY DEF DocumentInv, DocumentTypeOK, PageRecords, Flows, Target, Walks
<1>2. CASE Refuse
  <2>1. WatchKept /\ page' = page /\ reply' = [status |-> "refused", top |-> NoTop]
    BY <1>2 DEF Refuse, Answer, WatchKept, DocumentInv, DocumentTypeOK
  <2>2. reply' \in [status : Statuses, top : Int] /\ reply'.status = "refused"
    BY <2>1, NoWatchTyped DEF Statuses
  <2> QED BY <1>1, <2>1, <2>2, Refusal
<1>3. CASE ~Refuse
  <2>1. FlowState(flow.attempt, flow.baseline, flow.flowTop)
    BY <1>3 DEF RestoreScroll
  <2>2. CASE target \notin 0 .. page.height - 1
    <3>1. /\ page' = [page EXCEPT !.top = IF target < 0 THEN 0 ELSE page.height - 1]
          /\ watch' = Followed(flow.attempt, flow.flowTop)
          /\ reply' = [status |-> "refused", top |-> NoTop]
      BY <1>3, <2>2 DEF RestoreScroll, Answer
    <3> HIDE DEF target
    <3>2. page' \in PageRecords
      BY <1>1, <3>1 DEF PageRecords
    <3>3. WatchKept
      BY <3>1, SentFlow, FollowedTyped DEF WatchKept
    <3>4. reply' \in [status : Statuses, top : Int] /\ reply'.status = "refused"
      BY <3>1, NoWatchTyped DEF Statuses
    <3> QED BY <3>2, <3>3, <3>4, Refusal
  <2>3. CASE target \in 0 .. page.height - 1
    <3>1. /\ page' = [page EXCEPT !.top = target]
          /\ watch' = [watch EXCEPT ![flow.attempt].record = Observed(page')]
          /\ reply' = [status |-> "ok", top |-> target]
      BY <1>3, <2>3 DEF RestoreScroll, Answer
    <3>2. target \in Nat /\ target = Target + (page.top - flow.flowTop)
      BY <1>1, <2>3
    <3> HIDE DEF target
    <3>3. page' \in PageRecords /\ page'.selected = page.selected
      BY <1>1, <3>1, <3>2 DEF PageRecords
    <3>4. WatchKept
      BY <3>1, <3>3, SentFlow, Recorded DEF WatchKept
    <3>5. reply' \in [status : Statuses, top : Int] /\ reply'.top >= 0 /\ reply'.status = "ok"
      BY <3>1, <3>2 DEF Statuses
    <3>6. DocumentTypeOK'
      BY <3>3, <3>4, <3>5, SentFlow, SentTrace DEF DocumentTypeOK, WatchKept
    <3>7. /\ trace'.tab = trace.tab /\ trace'.row = trace.row /\ trace'.lastTab = page.selected
          /\ trace'.lastRow = page'.top + page'.first /\ trace'.lastInput = trace.input
      BY <3>3, SentTrace
    <3>8. Placed(Held)' /\ page'.top + page'.first = trace.row
      BY <2>1, <3>1, <3>2, <3>7, RestoredPlaced DEF Sent
    <3>9. WalkInv'
      BY <3>5, <3>7, <3>8, SentFlow DEF DocumentInv, WalkInv, Openings
    <3>10. TabBack' /\ RowBack' /\ ~trace'.lastInput
      <4>1. ~trace.input /\ flow.baseline \in {AnyTab, page.selected}
        BY <1>1, <2>1, Seen DEF Sent
      <4>2. flow.baseline = trace.tab /\ trace.tab # AnyTab
        BY <1>1 DEF DocumentInv, WalkInv, Tabs, AnyTab
      <4> QED BY <3>7, <3>8, <4>1, <4>2 DEF TabBack, RowBack
    <3>11. LastInv'
      BY <3>10, SentFlow DEF DocumentInv, LastInv
    <3> QED BY <3>3, <3>4, <3>6, <3>9, <3>11, SentSeesInput DEF DocumentInv
  <2> QED BY <2>2, <2>3
<1> QED BY <1>2, <1>3

\* The last look asks for nothing but that the user is not there.
LEMMA FinalInv ==
  ASSUME DocumentInv, Sent, flow.step = "final", LookAtWatch(flow.attempt)
  PROVE  DocumentInv'
<1>1. /\ page' = page /\ page' \in PageRecords /\ WatchKept
      /\ reply' = [status |-> IF Undisturbed(flow.attempt) THEN "ok" ELSE "refused", top |-> NoTop]
      /\ watch' = watch
  BY DEF LookAtWatch, Answer, WatchKept, DocumentInv, DocumentTypeOK
<1>2. reply' \in [status : Statuses, top : Int]
  BY <1>1, NoWatchTyped DEF Statuses
<1>3. CASE ~Undisturbed(flow.attempt)
  BY <1>1, <1>2, <1>3, Refusal
<1>4. CASE Undisturbed(flow.attempt)
  <2>1. ~trace.input
    BY <1>4 DEF DocumentInv, InputIsSeen, Sent
  <2>2. DocumentTypeOK'
    BY <1>1, <1>2, SentFlow, SentTrace DEF DocumentTypeOK, WatchKept
  <2>3. /\ trace'.tab = trace.tab /\ trace'.row = trace.row /\ trace'.lastTab = trace.lastTab
        /\ trace'.lastRow = trace.lastRow /\ ~trace'.lastInput
    BY <1>1, <2>1, SentTrace
  <2>4. Placed(Held)'
    <3>1. reply'.top = NoTop /\ reply'.status = "ok"
      BY <1>1, <1>4
    <3>2. Held' = flow'
      BY <3>1, SentFlow DEF Held, Following
    <3>3. Walking /\ Held = flow
      BY DEF Walking, Held, Sent
    <3>4. Placed(flow)
      BY <3>3 DEF DocumentInv, WalkInv
    <3> QED BY <1>1, <2>3, <3>2, <3>4, SentFlow DEF Placed, Undisturbed, Row
  <2>5. WalkInv'
    BY <1>1, <2>3, <2>4, SentFlow DEF DocumentInv, WalkInv, Openings
  <2>6. LastInv'
    BY <2>3, SentFlow DEF DocumentInv, LastInv, TabBack, RowBack
  <2> QED BY <1>1, <2>2, <2>5, <2>6, SentSeesInput DEF DocumentInv
<1> QED BY <1>3, <1>4

LEMMA RemoveInv ==
  ASSUME DocumentInv, Sent, flow.step = "remove", Remove(flow.attempt)
  PROVE  DocumentInv'
<1>1. /\ page' = page /\ page' \in PageRecords
      /\ watch' = [watch EXCEPT ![flow.attempt] = NoWatch]
      /\ reply' = [status |-> "removed", top |-> NoTop]
  BY DEF Remove, Answer, DocumentInv, DocumentTypeOK
<1>2. reply' \in [status : Statuses, top : Int] /\ reply'.status # "scrolled"
  BY <1>1, NoWatchTyped DEF Statuses
<1>3. watch' \in [Attempts -> WatchRecords] /\ ~watch'[flow.attempt].installed
  BY <1>1, SentFlow, NoWatchTyped DEF DocumentInv, DocumentTypeOK
<1>4. DocumentTypeOK'
  BY <1>1, <1>2, <1>3, SentFlow, SentTrace DEF DocumentTypeOK
<1>5. /\ trace'.tab = trace.tab /\ trace'.row = trace.row /\ trace'.lastTab = trace.lastTab
      /\ trace'.lastRow = trace.lastRow /\ trace'.lastInput = trace.lastInput
      /\ trace'.input = trace.input /\ trace'.entered = trace.entered
  <2>1. flow.step # "install"
    OBVIOUS
  <2> QED BY <1>1, <2>1, SentTrace DEF DocumentInv, DocumentTypeOK, Traces
<1>6. InputIsSeen'
  BY <1>3, <1>5, SentFlow DEF DocumentInv, InputIsSeen, Undisturbed
<1>7. WalkInv'
  BY <1>2, SentFlow DEF DocumentInv, WalkInv, Walking, Openings, Walks
<1>8. LastInv'
  BY <1>5, SentFlow DEF DocumentInv, LastInv, Walking, TabBack, RowBack
<1> QED BY <1>4, <1>6, <1>7, <1>8 DEF DocumentInv

\* Every evaluate, whatever it finds in the page.
LEMMA InPageInv == ASSUME DocumentInv, InPage PROVE DocumentInv'
<1>1. Sent /\ Evaluate(flow.attempt, flow.step)
  BY DEF InPage, Sent
<1>2. /\ CardStatus \in Statuses \ {"scrolled"} /\ UriStatus \in Statuses \ {"scrolled"}
      /\ OpenStatus(flow.baseline) \in Statuses \ {"scrolled"}
  BY DEF CardStatus, UriStatus, OpenStatus, Statuses
<1>3. ASSUME flow.step \in {"preflight", "start"} PROVE DocumentInv'
  <2>1. flow.flowTop = NoTop
    BY <1>3 DEF DocumentInv, WalkInv, Scrolled, Openings
  <2>2. PICK status \in Statuses \ {"scrolled"} : Look(flow.attempt, AnyTab, flow.flowTop, status)
    BY <1>1, <1>2, <1>3, <2>1 DEF Evaluate, Statuses
  <2> QED BY <1>1, <1>3, <2>2, LookInv DEF Openings
<1>4. ASSUME flow.step \in {"probe", "scan", "uri", "open", "verify", "confirm", "end"} PROVE DocumentInv'
  <2>1. PICK tab \in {AnyTab, flow.baseline}, status \in Statuses \ {"scrolled"} :
          /\ Look(flow.attempt, tab, flow.flowTop, status)
          /\ flow.step \in {"uri", "confirm", "end"} => tab = flow.baseline
    <3>1. /\ "ok" \in Statuses \ {"scrolled"}
          /\ (IF page.selected = flow.baseline THEN "ok" ELSE "not_yet") \in Statuses \ {"scrolled"}
      BY DEF Statuses
    <3>2. CASE flow.step \in {"uri", "confirm", "end"}
      BY <1>1, <1>2, <3>1, <3>2 DEF Evaluate
    <3>3. CASE flow.step \in {"probe", "scan"}
      BY <1>1, <1>2, <3>3 DEF Evaluate
    <3>4. CASE flow.step \in {"open", "verify"}
      BY <1>1, <1>2, <3>1, <3>4 DEF Evaluate
    <3> QED BY <1>4, <3>2, <3>3, <3>4
  <2> QED BY <1>1, <1>4, <2>1, LookInv DEF Walks
<1>5. CASE flow.step = "install"
  BY <1>1, <1>5, InstallInv DEF Evaluate
<1>6. CASE flow.step = "scrollUp"
  BY <1>1, <1>6, ScrollUpInv DEF Evaluate
<1>7. CASE flow.step = "click"
  BY <1>1, <1>7, ClickInv DEF Evaluate
<1>8. CASE flow.step = "restoreTab"
  BY <1>1, <1>8, RestoreTabInv DEF Evaluate
<1>9. CASE flow.step = "restoreScroll"
  BY <1>1, <1>9, RestoreScrollInv DEF Evaluate
<1>10. CASE flow.step = "final"
  BY <1>1, <1>10, FinalInv DEF Evaluate
<1>11. CASE flow.step = "remove"
  BY <1>1, <1>11, RemoveInv DEF Evaluate
<1> QED BY <1>1, <1>3, <1>4, <1>5, <1>6, <1>7, <1>8, <1>9, <1>10, <1>11 DEF Evaluate

--------------------------------------------------------------------------------
(* What the walk makes of the answer.                                      *)

\* The rest of the walk's record.
Alike(f, g) ==
    f.attempt = g.attempt /\ f.baseline = g.baseline /\ f.outcome = g.outcome /\ f.kind = g.kind

LEMMA FollowingShape ==
  ASSUME DocumentInv
  PROVE  /\ Following \in Flows /\ Alike(Following, flow) /\ Following.initialTop = flow.initialTop
         /\ flow.flowTop = NoTop => Following.flowTop = NoTop /\ Following.correction = flow.correction
         /\ Following.correction - Following.flowTop = flow.correction - flow.flowTop
<1>1. flow \in Flows /\ reply.top \in Int
  BY DEF DocumentInv, DocumentTypeOK
<1>2. CASE flow.flowTop # NoTop /\ reply.top \notin {NoTop, flow.flowTop}
  <2>1. Following = [flow EXCEPT !.correction = flow.correction + reply.top - flow.flowTop, !.flowTop = reply.top]
    BY <1>2 DEF Following
  <2>2. flow.flowTop \in Int /\ flow.correction \in Int
    BY <1>1 DEF Flows
  <2>3. flow.correction + reply.top - flow.flowTop \in Int
    BY <1>1, <2>2
  <2>4. /\ Following \in Flows /\ Alike(Following, flow) /\ Following.initialTop = flow.initialTop
        /\ Following.flowTop = reply.top /\ Following.correction = flow.correction + reply.top - flow.flowTop
    BY <1>1, <2>1, <2>3 DEF Flows, Alike
  <2> QED BY <1>1, <1>2, <2>2, <2>4
<1>3. CASE ~(flow.flowTop # NoTop /\ reply.top \notin {NoTop, flow.flowTop})
  BY <1>1, <1>3 DEF Following, Alike, Flows
<1> QED BY <1>2, <1>3

\* The attempt ends, with success only after it has seen what it had to.
LEMMA EndInv ==
  ASSUME DocumentInv, Active, NEW outcome \in {"ok", "failed"}, End(outcome),
         UNCHANGED <<pageVars, trace>>,
         outcome = "ok" => TabBack /\ RowBack /\ ~trace.lastInput
  PROVE  DocumentInv'
<1>1. /\ flow' \in Flows /\ flow'.step = "remove" /\ flow'.phase = "sent" /\ flow'.outcome = outcome
      /\ flow'.attempt = flow.attempt /\ flow'.initialTop = flow.initialTop
      /\ flow'.correction = flow.correction /\ flow'.flowTop = flow.flowTop /\ Active
  BY DEF End, DocumentInv, DocumentTypeOK, Flows, Active
<1>2. page' = page /\ watch' = watch /\ reply' = reply /\ trace' = trace
  BY DEF pageVars
<1>3. DocumentTypeOK'
  BY <1>1, <1>2 DEF DocumentInv, DocumentTypeOK
<1>4. InputIsSeen'
  BY <1>1, <1>2 DEF DocumentInv, InputIsSeen, Undisturbed
<1>5. WalkInv'
  BY <1>1, <1>2 DEF DocumentInv, WalkInv, Walking, Openings, Walks
<1>6. LastInv'
  BY <1>1, <1>2 DEF LastInv, Walking, TabBack, RowBack, Scrolled
<1> QED BY <1>3, <1>4, <1>5, <1>6 DEF DocumentInv

\* It goes on, with the offsets it holds.
LEMMA GoToInv ==
  ASSUME DocumentInv, Walking, flow.phase = "back", UNCHANGED <<pageVars, trace>>,
         NEW f \in Flows, NEW step \in (Openings \cup Walks) \ {"install"}, GoTo(f, step),
         f.attempt = flow.attempt, f.outcome = flow.outcome,
         f.initialTop = Held.initialTop, f.correction = Held.correction, f.flowTop = Held.flowTop,
         f.initialTop = NoTop => f.correction = 0 /\ f.flowTop = NoTop,
         step \in Openings => f.initialTop = NoTop,
         step = "restoreScroll" => f.initialTop # NoTop /\ f.after # "none",
         step \in Walks => f.baseline = trace.tab /\ trace.tab \in Tabs,
         step \in {"confirm", "end"} /\ f.initialTop # NoTop => f.initialTop + f.correction = f.flowTop,
         step = "final" => TabBack /\ (f.initialTop # NoTop => trace.lastRow = trace.row)
  PROVE  DocumentInv'
<1>1. /\ flow' \in Flows /\ flow'.step = step /\ flow'.phase = "sent" /\ flow'.outcome = flow.outcome
      /\ flow'.attempt = flow.attempt /\ flow'.initialTop = f.initialTop /\ flow'.baseline = f.baseline
      /\ flow'.correction = f.correction /\ flow'.flowTop = f.flowTop /\ flow'.after = f.after
  BY DEF GoTo, Flows, Openings, Walks
<1>2. page' = page /\ watch' = watch /\ reply' = reply /\ trace' = trace
  BY DEF pageVars
<1>3. Active
  BY DEF Walking, Active
<1>4. DocumentTypeOK'
  BY <1>1, <1>2, <1>3 DEF DocumentInv, DocumentTypeOK
<1>5. InputIsSeen'
  BY <1>1, <1>2, <1>3 DEF DocumentInv, InputIsSeen, Undisturbed
<1>6. Placed(Held)'
  <2>1. Held' = flow'
    BY <1>1 DEF Held
  <2>2. Placed(Held)
    BY DEF DocumentInv, WalkInv
  <2> QED BY <1>1, <1>2, <2>1, <2>2 DEF Placed, Undisturbed, Row
<1>7. WalkInv'
  BY <1>1, <1>2, <1>6 DEF WalkInv, Scrolled
<1>8. LastInv'
  <2>1. flow.outcome # "ok"
    BY DEF DocumentInv, LastInv, Walking
  <2> QED BY <1>1, <1>2, <2>1 DEF LastInv, TabBack, RowBack, Scrolled
<1> QED BY <1>4, <1>5, <1>7, <1>8 DEF DocumentInv

\* It goes on from a look, and only steps up and back count otherwise.
LEMMA GoOnInv ==
  ASSUME DocumentInv, Walking, flow.phase = "back", UNCHANGED <<pageVars, trace>>,
         flow.step # "restoreScroll", flow.step = "scrollUp" => reply.status # "scrolled",
         NEW f \in Flows, NEW step \in (Openings \cup Walks) \ {"install"}, GoTo(f, step),
         f.attempt = flow.attempt, f.outcome = flow.outcome,
         f.initialTop = Following.initialTop, f.correction = Following.correction, f.flowTop = Following.flowTop,
         step \in Openings => ~Scrolled,
         step = "restoreScroll" => Scrolled /\ f.after # "none",
         step \in Walks => f.baseline = trace.tab /\ trace.tab \in Tabs,
         step \in {"confirm", "end"} => ~Scrolled,
         step = "final" => TabBack /\ RowBack
  PROVE  DocumentInv'
<1>1. Held = Following
  BY DEF Held
<1>2. /\ f.initialTop = flow.initialTop
      /\ flow.initialTop = NoTop => f.correction = 0 /\ f.flowTop = NoTop
  BY FollowingShape DEF DocumentInv, WalkInv
<1> QED BY <1>1, <1>2, GoToInv DEF Scrolled, RowBack

\* It goes back up or down to where it was, or has nothing to go back to.
LEMMA RestoreThenInv ==
  ASSUME DocumentInv, Walking, flow.phase = "back", UNCHANGED <<pageVars, trace>>,
         flow.step \in Walks, flow.step # "restoreScroll", flow.step = "scrollUp" => reply.status # "scrolled",
         NEW after \in {"found", "missing", "confirm", "end"}, RestoreThen(Following, after),
         after = "found" => TabBack /\ ~trace.lastInput
  PROVE  DocumentInv'
<1>1. flow.baseline = trace.tab /\ trace.tab \in Tabs
  BY DEF DocumentInv, WalkInv
<1>2. /\ Following \in Flows /\ Following.initialTop = flow.initialTop
      /\ Following.attempt = flow.attempt /\ Following.outcome = flow.outcome
      /\ Following.baseline = flow.baseline
  BY FollowingShape DEF Alike
<1>3. CASE Scrolled
  <2> DEFINE f == [Following EXCEPT !.after = after]
  <2>1. /\ f \in Flows /\ f.initialTop = Following.initialTop /\ f.correction = Following.correction
        /\ f.flowTop = Following.flowTop /\ f.attempt = flow.attempt /\ f.outcome = flow.outcome
        /\ f.baseline = flow.baseline /\ f.after = after
    BY <1>2 DEF Flows
  <2>2. GoTo(f, "restoreScroll")
    BY <1>3 DEF RestoreThen
  <2> HIDE DEF f
  <2> QED BY <1>1, <1>3, <2>1, <2>2, GoOnInv DEF Openings, Walks
<1>4. CASE ~Scrolled /\ after \in {"found", "missing"}
  <2>1. End(IF after = "found" THEN "ok" ELSE "failed")
    BY <1>4 DEF RestoreThen
  <2> QED BY <1>4, <2>1, EndInv DEF RowBack, Walking, Active
<1>5. CASE ~Scrolled /\ after \in {"confirm", "end"}
  <2>1. GoTo(Following, after)
    BY <1>5 DEF RestoreThen
  <2> QED BY <1>1, <1>2, <1>5, <2>1, GoOnInv DEF Openings, Walks
<1> QED BY <1>3, <1>4, <1>5

LEMMA BackHeld ==
  ASSUME DocumentInv, flow.phase = "back"
  PROVE  /\ flow.step \in Walks => flow.baseline = trace.tab /\ trace.tab \in Tabs
         /\ flow \in Flows /\ reply.top \in Int
         /\ flow.initialTop = NoTop => flow.correction = 0 /\ flow.flowTop = NoTop
         /\ flow.step \in Openings => ~Scrolled
  BY DEF DocumentInv, DocumentTypeOK, WalkInv

LEMMA ReturnOpeningsInv ==
  ASSUME DocumentInv, ReturnInstall \/ ReturnStart \/ ReturnPreflight
  PROVE  DocumentInv'
<1>1. /\ flow.phase = "back" /\ Walking /\ UNCHANGED <<pageVars, trace>>
      /\ flow.step \in Openings
  BY DEF ReturnInstall, ReturnStart, ReturnPreflight, Back, Walking, Openings
<1>2. /\ flow \in Flows /\ ~Scrolled /\ Held = flow /\ flow.flowTop = NoTop /\ flow.correction = 0
  BY <1>1, BackHeld DEF Held, Following, Openings, Scrolled
<1>3. CASE ReturnInstall
  <2>1. PICK step \in {"preflight", "start"} : GoTo(flow, step)
    BY <1>3 DEF ReturnInstall
  <2> QED BY <1>1, <1>2, <2>1, GoToInv DEF Openings, Walks, Scrolled
<1>4. ASSUME ReturnStart \/ ReturnPreflight PROVE DocumentInv'
  <2> DEFINE f == [flow EXCEPT !.baseline = trace.tab]
  <2>1. trace.tab \in Tabs
    BY <1>1, <1>4 DEF ReturnStart, ReturnPreflight, Back, DocumentInv, WalkInv
  <2>2. /\ f \in Flows /\ f.initialTop = flow.initialTop /\ f.correction = flow.correction
        /\ f.flowTop = flow.flowTop /\ f.attempt = flow.attempt /\ f.outcome = flow.outcome
        /\ f.baseline = trace.tab
    BY <1>2, <2>1 DEF Flows
  <2>3. PICK step \in {"scan", "uri", "scrollUp"} : GoTo(f, step)
    BY <1>4 DEF ReturnStart, ReturnPreflight
  <2> HIDE DEF f
  <2> QED BY <1>1, <1>2, <2>1, <2>2, <2>3, GoToInv DEF Openings, Walks, Scrolled
<1> QED BY <1>3, <1>4

\* A branch that goes on with what it holds, having counted or not.
LEMMA CountedInv ==
  ASSUME DocumentInv, flow.phase = "back", flow.step \in Walks \ {"restoreScroll"}, reply.status # "refused",
         flow.step = "scrollUp" => reply.status # "scrolled", UNCHANGED <<pageVars, trace>>,
         NEW f, f = Following \/ (\E n \in Int : f = [Following EXCEPT !.count = n]),
         NEW step \in Walks \ {"restoreScroll", "confirm", "end", "final"}, GoTo(f, step)
  PROVE  DocumentInv'
<1>1. /\ Following \in Flows /\ Following.initialTop = flow.initialTop
      /\ Following.attempt = flow.attempt /\ Following.outcome = flow.outcome
      /\ Following.baseline = flow.baseline
  BY FollowingShape DEF Alike
<1>2. /\ f \in Flows /\ f.initialTop = Following.initialTop /\ f.correction = Following.correction
      /\ f.flowTop = Following.flowTop /\ f.attempt = flow.attempt /\ f.outcome = flow.outcome
      /\ f.baseline = flow.baseline
  BY <1>1 DEF Flows
<1>3. Walking /\ step \notin Openings
  BY DEF Walking, Walks, Openings
<1> QED BY <1>2, <1>3, BackHeld, GoOnInv DEF Walks, Openings

\* The transcript has been scrolled up one row.
LEMMA ReturnScrolledInv == ASSUME DocumentInv, ReturnScrolled PROVE DocumentInv'
<1> DEFINE h == [Following EXCEPT !.initialTop = IF @ = NoTop THEN reply.top ELSE @, !.flowTop = reply.top - 1]
           f == [Following EXCEPT !.initialTop = IF @ = NoTop THEN reply.top ELSE @,
                                  !.flowTop = reply.top - 1, !.count = @ + 1]
<1>1. /\ flow.phase = "back" /\ Walking /\ UNCHANGED <<pageVars, trace>>
      /\ flow.step = "scrollUp" /\ reply.status = "scrolled"
  BY DEF ReturnScrolled, Back, Walking
<1>2. Held = h
  BY <1>1 DEF Held
<1>3. /\ Following \in Flows /\ Following.attempt = flow.attempt /\ Following.outcome = flow.outcome
      /\ Following.baseline = flow.baseline /\ reply.top \in Int /\ reply.top > 0
      /\ flow.baseline = trace.tab /\ trace.tab \in Tabs
  BY <1>1, FollowingShape, BackHeld DEF Alike, Walks, DocumentInv, WalkInv
<1>4. /\ f \in Flows /\ f.initialTop = h.initialTop /\ f.correction = h.correction /\ f.flowTop = h.flowTop
      /\ f.attempt = flow.attempt /\ f.outcome = flow.outcome /\ f.baseline = flow.baseline
      /\ f.initialTop # NoTop
  <2>1. reply.top - 1 \in Int /\ reply.top # NoTop
    BY <1>3 DEF NoTop
  <2>2. Following.initialTop \in Int /\ Following.count + 1 \in Int
    BY <1>3 DEF Flows
  <2> QED BY <1>3, <2>1, <2>2 DEF Flows
<1>5. PICK step \in {"probe", "scan"} : GoTo(f, step)
  BY DEF ReturnScrolled
<1> HIDE DEF f, h
<1> QED BY <1>1, <1>2, <1>3, <1>4, <1>5, GoToInv DEF Openings, Walks

\* It has put the transcript back, and knows where that is.
LEMMA ReturnRestoreScrollInv == ASSUME DocumentInv, ReturnRestoreScroll PROVE DocumentInv'
<1> DEFINE f == [flow EXCEPT !.flowTop = reply.top, !.correction = reply.top - flow.initialTop]
<1>1. /\ flow.phase = "back" /\ Walking /\ UNCHANGED <<pageVars, trace>>
      /\ flow.step = "restoreScroll" /\ reply.status = "ok"
  BY DEF ReturnRestoreScroll, Back, Walking
<1>2. /\ flow \in Flows /\ reply.top \in Int /\ Scrolled /\ flow.after # "none"
      /\ flow.baseline = trace.tab /\ trace.tab \in Tabs
      /\ TabBack /\ RowBack /\ ~trace.lastInput
  BY <1>1, BackHeld DEF Walks, DocumentInv, WalkInv, LastInv
<1>3. Held = f
  BY <1>1 DEF Held
<1>4. flow.initialTop \in Int /\ reply.top - flow.initialTop \in Int
  BY <1>2 DEF Flows
<1>5. /\ f \in Flows /\ f.initialTop = flow.initialTop /\ f.correction = reply.top - flow.initialTop
      /\ f.flowTop = reply.top /\ f.attempt = flow.attempt /\ f.outcome = flow.outcome
      /\ f.baseline = flow.baseline
  BY <1>2, <1>4 DEF Flows
<1>6. f.initialTop + f.correction = f.flowTop
  BY <1>2, <1>4, <1>5
<1>7. CASE flow.after \in {"found", "missing"}
  <2>1. End(IF flow.after = "found" THEN "ok" ELSE "failed")
    BY <1>7 DEF ReturnRestoreScroll
  <2> QED BY <1>1, <1>2, <2>1, EndInv DEF Walking, Active
<1>8. CASE flow.after \in {"confirm", "end"}
  <2>1. GoTo(f, flow.after)
    BY <1>8 DEF ReturnRestoreScroll
  <2> HIDE DEF f
  <2> QED BY <1>1, <1>2, <1>3, <1>5, <1>6, <1>8, <2>1, GoToInv DEF Openings, Walks, Scrolled
<1>9. flow.after \in {"found", "missing", "confirm", "end"}
  BY <1>2 DEF Flows
<1> QED BY <1>7, <1>8, <1>9

\* What follows the last look at the page is the last look at the watch.
LEMMA ReturnConfirmInv == ASSUME DocumentInv, ReturnConfirm PROVE DocumentInv'
<1>1. /\ flow.phase = "back" /\ Walking /\ UNCHANGED <<pageVars, trace>>
      /\ flow.step = "confirm" /\ reply.status = "ok" /\ GoTo(Following, "final")
  BY DEF ReturnConfirm, Back, Walking
<1>2. TabBack /\ RowBack /\ flow.baseline = trace.tab /\ trace.tab \in Tabs
  BY <1>1, BackHeld DEF DocumentInv, LastInv, Walks
<1>3. /\ Following \in Flows /\ Following.attempt = flow.attempt /\ Following.outcome = flow.outcome
      /\ Following.baseline = flow.baseline
  BY FollowingShape DEF Alike
<1> QED BY <1>1, <1>2, <1>3, GoOnInv DEF Openings, Walks

\* The steps that look for the card.
LEMMA ReturnSearchInv ==
  ASSUME DocumentInv, ReturnScrollTop \/ ReturnProbe \/ ReturnScan
  PROVE  DocumentInv'
<1>1. /\ flow.phase = "back" /\ Walking /\ UNCHANGED <<pageVars, trace>>
      /\ flow.step \in Walks \ {"restoreScroll"} /\ reply.status # "refused"
      /\ flow.step = "scrollUp" => reply.status # "scrolled"
  BY DEF ReturnScrollTop, ReturnProbe, ReturnScan, Back, Walking, Walks
<1>2. \/ RestoreThen(Following, "missing") \/ RestoreThen(Following, "end")
      \/ GoTo(Following, "scrollUp") \/ GoTo([Following EXCEPT !.count = 0], "uri")
  BY DEF ReturnScrollTop, ReturnProbe, ReturnScan
<1>3. CASE RestoreThen(Following, "missing")
  BY <1>1, <1>3, RestoreThenInv
<1>4. CASE RestoreThen(Following, "end")
  BY <1>1, <1>4, RestoreThenInv
<1>5. CASE GoTo(Following, "scrollUp")
  BY <1>1, <1>5, CountedInv DEF Walks
<1>6. CASE GoTo([Following EXCEPT !.count = 0], "uri")
  BY <1>1, <1>6, CountedInv DEF Walks
<1> QED BY <1>2, <1>3, <1>4, <1>5, <1>6

\* The steps that open the document and go back to the tab.
LEMMA ReturnReadInv ==
  ASSUME DocumentInv, ReturnUri \/ ReturnClicked \/ ReturnOpen \/ ReturnRestoreTab \/ ReturnVerify
  PROVE  DocumentInv'
<1>1. /\ flow.phase = "back" /\ Walking /\ UNCHANGED <<pageVars, trace>>
      /\ flow.step \in Walks \ {"restoreScroll"} /\ reply.status # "refused"
      /\ flow.step # "scrollUp"
  BY DEF ReturnUri, ReturnClicked, ReturnOpen, ReturnRestoreTab, ReturnVerify, Back, Walking, Walks
<1>2. Following.count + 1 \in Int
  BY FollowingShape DEF Flows
<1>3. ASSUME NEW step \in {"click", "open", "restoreTab", "verify"},
             \/ GoTo(Following, step) \/ GoTo([Following EXCEPT !.count = 0], step)
             \/ GoTo([Following EXCEPT !.count = @ + 1], step)
      PROVE  DocumentInv'
  <2>1. \E f : /\ f = Following \/ \E n \in Int : f = [Following EXCEPT !.count = n]
               /\ GoTo(f, step)
    BY <1>2, <1>3
  <2> QED BY <1>1, <2>1, CountedInv DEF Walks
<1>4. CASE ReturnUri
  <2>1. CASE RestoreThen(Following, "found") /\ flow.step = "uri"
    <3>1. TabBack /\ ~trace.lastInput
      BY <1>1, <2>1 DEF DocumentInv, LastInv
    <3> QED BY <1>1, <2>1, <3>1, RestoreThenInv
  <2>2. CASE GoTo([Following EXCEPT !.count = 0], "click")
    BY <1>3, <2>2
  <2> QED BY <1>4, <2>1, <2>2 DEF ReturnUri, Back
<1>5. CASE ReturnClicked
  BY <1>3, <1>5 DEF ReturnClicked
<1>6. CASE ReturnOpen
  <2>1. \/ GoTo([Following EXCEPT !.count = 0], "restoreTab")
        \/ GoTo([Following EXCEPT !.count = @ + 1], "open")
        \/ End("failed")
    BY <1>6 DEF ReturnOpen
  <2>2. CASE End("failed")
    BY <1>1, <2>2, EndInv DEF Walking, Active
  <2> QED BY <1>3, <2>1, <2>2
<1>7. CASE ReturnRestoreTab
  BY <1>3, <1>7 DEF ReturnRestoreTab
<1>8. CASE ReturnVerify
  <2>1. \/ RestoreThen(Following, "confirm")
        \/ GoTo([Following EXCEPT !.count = @ + 1], "verify")
        \/ End("failed")
    BY <1>8 DEF ReturnVerify
  <2>2. CASE End("failed")
    BY <1>1, <2>2, EndInv DEF Walking, Active
  <2>3. CASE RestoreThen(Following, "confirm")
    BY <1>1, <2>3, RestoreThenInv
  <2> QED BY <1>3, <2>1, <2>2, <2>3
<1> QED BY <1>4, <1>5, <1>6, <1>7, <1>8

\* An attempt that ends well has just seen that it may.
LEMMA ReturnLastInv == ASSUME DocumentInv, ReturnLast PROVE DocumentInv'
<1>1. /\ flow.phase = "back" /\ Walking /\ flow.step \in {"final", "end"} /\ UNCHANGED <<pageVars, trace>>
      /\ End("ok")
  BY DEF ReturnLast, Back, Walking
<1>2. TabBack /\ RowBack /\ ~trace.lastInput
  BY <1>1 DEF DocumentInv, LastInv
<1> QED BY <1>1, <1>2, EndInv DEF Walking, Active

LEMMA ReturnsInv ==
  ASSUME DocumentInv, NEW live \in BOOLEAN, Return(live) \/ GuardThrows(live)
  PROVE  DocumentInv'
<1>1. ASSUME ReturnRefused \/ UnsafePath \/ GuardThrows(live) PROVE DocumentInv'
  BY <1>1, EndInv DEF ReturnRefused, UnsafePath, GuardThrows, Back
<1>2. CASE Return(live) /\ ~ReturnRefused /\ ~UnsafePath
  BY <1>2, ReturnOpeningsInv, ReturnScrolledInv, ReturnSearchInv, ReturnReadInv, ReturnRestoreScrollInv,
     ReturnConfirmInv, ReturnLastInv DEF Return
<1> QED BY <1>1, <1>2

--------------------------------------------------------------------------------
(* What happens around the walk.                                           *)

\* An attempt begins with nothing found and nothing left, or has failed already.
LEMMA StartInv ==
  ASSUME DocumentInv, NEW a \in Attempts, NEW kind \in {"read", "discover"}, NEW live, StartFlow(a, kind, live)
  PROVE  DocumentInv'
<1>1. /\ page' = page /\ watch' = watch /\ reply' = reply /\ trace' = NoTrace
  BY DEF StartFlow, pageVars
<1>2. /\ flow' \in Flows /\ flow'.attempt \in Attempts /\ flow'.initialTop = NoTop
      /\ flow'.correction = 0 /\ flow'.flowTop = NoTop /\ flow'.outcome # "ok"
      /\ \/ flow'.step = "install" /\ flow'.phase = "sent"
         \/ flow'.step = "done"
  <2>1. NoFlow \in Flows /\ NoFlow.step = "done" /\ NoFlow.initialTop = NoTop /\ NoFlow.flowTop = NoTop
        /\ NoFlow.correction = 0 /\ NoFlow.outcome = "none"
    BY DEF NoFlow, Flows, NoTop, AnyTab
  <2>2. CASE flow' = [NoFlow EXCEPT !.attempt = a, !.kind = kind, !.step = "install", !.phase = "sent"]
    BY <2>1, <2>2 DEF Flows, Openings
  <2>3. CASE flow' = [NoFlow EXCEPT !.attempt = a, !.kind = kind, !.outcome = "failed"]
    BY <2>1, <2>3 DEF Flows
  <2> QED BY <2>2, <2>3 DEF StartFlow
<1>3. NoTrace \in Traces /\ ~NoTrace.input /\ ~NoTrace.entered
  BY DEF NoTrace, Traces, AnyTab
<1>4. DocumentTypeOK'
  BY <1>1, <1>2, <1>3 DEF DocumentInv, DocumentTypeOK
<1>5. InputIsSeen'
  BY <1>1, <1>3 DEF InputIsSeen
<1>6. Placed(Held)'
  <2>1. flow'.phase = "sent" => Held' = flow'
    BY DEF Held
  <2>2. flow'.step = "done" => Held' = flow'
    BY <1>2 DEF Held, Following
  <2> QED BY <1>2, <2>1, <2>2 DEF Placed
<1>7. WalkInv'
  BY <1>2, <1>6 DEF WalkInv, Scrolled, Walks, Openings, Walking
<1>8. LastInv'
  BY <1>2 DEF LastInv
<1> QED BY <1>4, <1>5, <1>7, <1>8 DEF DocumentInv

LEMMA OverInv ==
  ASSUME page' = NewPage, watch' = [a \in Attempts |-> NoWatch], reply' = NoReply,
         flow' = NoFlow, trace' = NoTrace
  PROVE  DocumentInv'
<1>1. /\ NewPage \in PageRecords /\ NoWatch \in WatchRecords /\ NoReply \in [status : Statuses, top : Int]
      /\ NoFlow \in Flows /\ NoTrace \in Traces
  BY NoWatchTyped DEF NewPage, PageRecords, Tabs, NoReply, Statuses, NoFlow, Flows, NoTrace, Traces, AnyTab
<1>2. DocumentTypeOK'
  BY <1>1 DEF DocumentTypeOK, Active, NoFlow
<1>3. InputIsSeen' /\ LastInv'
  BY DEF InputIsSeen, LastInv, NoTrace, NoFlow, Walking, Scrolled
<1>4. WalkInv'
  BY DEF WalkInv, NoFlow, Walking, Scrolled, Openings, Walks, NoReply
<1> QED BY <1>2, <1>3, <1>4 DEF DocumentInv

\* A step that is swallowed, and the end of every attempt.
LEMMA DoneInv == ASSUME DocumentInv, ReturnRemove \/ RemoveThrows PROVE DocumentInv'
<1>1. /\ page' = page /\ watch' = watch /\ reply' = reply /\ trace' = trace
      /\ flow.step = "remove"
  BY DEF ReturnRemove, RemoveThrows, pageVars
<1>2. /\ flow' \in Flows /\ flow'.step = "done" /\ flow'.attempt = flow.attempt /\ flow'.phase = "back"
      /\ flow'.initialTop = flow.initialTop /\ flow'.correction = flow.correction
      /\ flow'.flowTop = flow.flowTop /\ flow'.outcome = flow.outcome
  BY DEF ReturnRemove, RemoveThrows, DocumentInv, DocumentTypeOK, Flows
<1>3. DocumentTypeOK'
  BY <1>1, <1>2 DEF DocumentInv, DocumentTypeOK, Active
<1>4. InputIsSeen'
  BY <1>1, <1>2 DEF DocumentInv, InputIsSeen, Active
<1>5. ~Walking'
  BY <1>2 DEF Walking
<1>6. flow.phase = "sent" \/ flow.phase = "back"
  BY DEF DocumentInv, DocumentTypeOK, Flows
<1>7. WalkInv'
  BY <1>1, <1>2, <1>5 DEF DocumentInv, WalkInv, Openings, Walks
<1>8. LastInv'
  BY <1>1, <1>2, <1>5 DEF DocumentInv, LastInv, TabBack, RowBack, Scrolled
<1> QED BY <1>3, <1>4, <1>7, <1>8 DEF DocumentInv

\* It ends where it is.
LEMMA ThrowsInv == ASSUME DocumentInv, EvaluateThrows PROVE DocumentInv'
  BY EndInv DEF EvaluateThrows

--------------------------------------------------------------------------------
(* What moves the page meanwhile.                                          *)

\* What is moved while a step is under way: the walk is held to what it recorded, or
\* is told that the user came in.
LEMMA MovedInv ==
  ASSUME DocumentInv, flow.phase = "sent", Active, flow' = flow, reply' = reply,
         page' \in PageRecords, watch' \in [Attempts -> WatchRecords],
         trace' = trace \/ trace' = [trace EXCEPT !.input = @ \/ trace.entered],
         ~Undisturbed(flow.attempt)' \/ trace' = trace,
         Undisturbed(flow.attempt)' =>
             /\ Undisturbed(flow.attempt) /\ watch' = watch
             /\ page'.first <= page.first /\ Row <= Row'
  PROVE  DocumentInv'
<1>1. /\ trace' \in Traces /\ trace'.entered = trace.entered /\ trace'.tab = trace.tab
      /\ trace'.row = trace.row /\ trace'.lastTab = trace.lastTab /\ trace'.lastRow = trace.lastRow
      /\ trace'.lastInput = trace.lastInput /\ (trace'.input => trace.input \/ trace.entered)
      /\ trace' = trace \/ (trace'.input => trace.entered)
  BY DEF DocumentInv, DocumentTypeOK, Traces
<1>2. DocumentTypeOK'
  BY <1>1 DEF DocumentInv, DocumentTypeOK, Active
<1>3. InputIsSeen'
  <2>1. trace'.input => trace'.entered
    BY <1>1 DEF DocumentInv, InputIsSeen
  <2>2. trace'.input => ~Undisturbed(flow.attempt)'
    BY DEF DocumentInv, InputIsSeen
  <2> QED BY <1>1, <2>1, <2>2 DEF DocumentInv, InputIsSeen, Undisturbed
<1>4. Held = flow /\ Held' = flow' /\ (Walking <=> Walking')
  BY DEF Held, Walking
<1>5. ASSUME Walking PROVE Placed(Held)'
  <2>1. Placed(flow)
    BY <1>4, <1>5 DEF DocumentInv, WalkInv
  <2>2. CASE ~Undisturbed(flow.attempt)'
    BY <1>4, <2>1, <2>2 DEF Placed, Undisturbed
  <2>3. CASE Undisturbed(flow.attempt)'
    <3> DEFINE r == watch[flow.attempt].record
    <3>1. flow.initialTop # NoTop => page.first <= r.row - r.top /\ r.row <= Row
      BY <2>1, <2>3 DEF Placed
    <3>2. r.row \in Int /\ r.top \in Int /\ page.first \in Int /\ page'.first \in Int /\ Row \in Int /\ Row' \in Int
      BY DEF DocumentInv, DocumentTypeOK, WatchRecords, Records, PageRecords, Row
    <3>3. flow.initialTop # NoTop => page'.first <= r.row - r.top /\ r.row <= Row'
      <4> HIDE DEF r
      <4> QED BY <2>3, <3>1, <3>2
    <3>4. watch' = watch
      BY <2>3
    <3>5. flow.initialTop # NoTop =>
             /\ flow.flowTop >= 0 /\ r.top = flow.flowTop
             /\ flow.initialTop + flow.correction + r.row - r.top = trace.row
      BY <2>1, <2>3 DEF Placed
    <3> QED BY <1>1, <1>4, <3>3, <3>4, <3>5 DEF Placed, Undisturbed
  <2> QED BY <2>2, <2>3
<1>6. WalkInv'
  BY <1>1, <1>4, <1>5 DEF DocumentInv, WalkInv, Scrolled
<1>7. LastInv'
  BY <1>1, <1>4 DEF DocumentInv, LastInv, TabBack, RowBack, Scrolled, Active
<1> QED BY <1>2, <1>3, <1>6, <1>7 DEF DocumentInv

LEMMA UserActsInv ==
  ASSUME DocumentInv, Active, NEW e \in {"draft", "tab", "scroll"}, UserActs(e)
  PROVE  DocumentInv'
<1>1. page \in PageRecords /\ watch \in [Attempts -> WatchRecords] /\ flow.attempt \in Attempts
  BY DEF DocumentInv, DocumentTypeOK
<1>2. /\ flow.phase = "sent" /\ flow' = flow /\ reply' = reply /\ watch' = Touched
      /\ trace' = [trace EXCEPT !.input = @ \/ trace.entered]
  BY DEF UserActs, UserInput
<1>3. page' \in PageRecords
  <2>1. \/ page' = [page EXCEPT !.draft = ~page.draft]
        \/ page' = [page EXCEPT !.selected = "other"]
        \/ page' = [page EXCEPT !.top = IF page.top = 0 THEN page.height - 1 ELSE page.top - 1]
    BY DEF UserActs, UserInput
  <2>2. (IF page.top = 0 THEN page.height - 1 ELSE page.top - 1) \in Nat
    BY <1>1 DEF PageRecords
  <2>3. CASE page' = [page EXCEPT !.draft = ~page.draft]
    <3>1. (~page.draft) \in BOOLEAN
      OBVIOUS
    <3> QED BY <1>1, <2>3, <3>1 DEF PageRecords
  <2>4. CASE page' = [page EXCEPT !.selected = "other"]
    BY <1>1, <2>4 DEF PageRecords, Tabs
  <2>5. CASE page' = [page EXCEPT !.top = IF page.top = 0 THEN page.height - 1 ELSE page.top - 1]
    BY <1>1, <2>2, <2>5 DEF PageRecords
  <2> QED BY <2>1, <2>3, <2>4, <2>5
<1>4. watch' \in [Attempts -> WatchRecords] /\ ~Undisturbed(flow.attempt)'
  <2>1. \A a \in Attempts : Touched[a] \in WatchRecords /\ (Touched[a].installed => Touched[a].touched)
    BY <1>1 DEF Touched, WatchRecords
  <2>2. Touched \in [Attempts -> WatchRecords]
    BY <2>1 DEF Touched
  <2> QED BY <1>1, <1>2, <2>1, <2>2 DEF Undisturbed
<1> QED BY <1>2, <1>3, <1>4, MovedInv

LEMMA PageMovesInv == ASSUME DocumentInv, Active, PageMoves PROVE DocumentInv'
<1>1. page \in PageRecords /\ watch \in [Attempts -> WatchRecords] /\ flow.attempt \in Attempts
  BY DEF DocumentInv, DocumentTypeOK
<1>2. /\ page.top \in Nat /\ page.height \in Nat \ {0} /\ page.first \in Int /\ page.scroller \in Int
  BY <1>1 DEF PageRecords
<1>3. flow.phase = "sent" /\ flow' = flow /\ trace' = trace /\ reply' = reply
  BY DEF PageMoves, Reanchor, SwapScroller, Reload, CursorOpensOther, Grow
<1>4. CASE Reload
  <2>1. page' \in PageRecords
    BY <1>1, <1>4 DEF Reload, PageRecords
  <2>2. watch' \in [Attempts -> WatchRecords] /\ ~Undisturbed(flow.attempt)'
    BY <1>1, <1>3, <1>4, NoWatchTyped DEF Reload, Undisturbed
  <2> QED BY <1>3, <2>1, <2>2, MovedInv
<1>5. CASE ~Reload
  <2>1. watch' = watch
    BY <1>5 DEF PageMoves, Reanchor, SwapScroller, CursorOpensOther, Grow
  <2>2. page' \in PageRecords /\ page'.first <= page.first /\ Row <= Row'
    <3>1. CASE Reanchor
      <4>1. page.top + 1 \in Nat /\ page.height + 1 \in Nat \ {0} /\ page.first - 1 \in Int
        BY <1>2
      <4>2. /\ page' \in PageRecords /\ page'.top = page.top + 1 /\ page'.first = page.first - 1
        BY <1>1, <3>1, <4>1 DEF Reanchor, PageRecords
      <4> QED BY <1>2, <4>2 DEF Row
    <3>2. CASE SwapScroller \/ CursorOpensOther
      <4>1. 3 - page.scroller \in Int
        BY <1>2
      <4>2. page' \in PageRecords /\ page'.top = page.top /\ page'.first = page.first
        BY <1>1, <3>2, <4>1 DEF SwapScroller, CursorOpensOther, PageRecords, Tabs
      <4> QED BY <1>2, <4>2 DEF Row
    <3>3. ASSUME NEW follow \in BOOLEAN, Grow(follow)
          PROVE  page' \in PageRecords /\ page'.first <= page.first /\ Row <= Row'
      <4>1. page.top + 1 \in Nat /\ page.height + 1 \in Nat \ {0}
        BY <1>2
      <4>2. /\ page' \in PageRecords /\ page'.top \in {page.top, page.top + 1} /\ page'.first = page.first
        BY <1>1, <3>3, <4>1 DEF Grow, PageRecords
      <4> QED BY <1>2, <4>2 DEF Row
    <3> QED BY <1>5, <3>1, <3>2, <3>3 DEF PageMoves
  <2>3. Undisturbed(flow.attempt)' => Undisturbed(flow.attempt)
    BY <1>3, <2>1 DEF Undisturbed
  <2> QED BY <1>1, <1>3, <2>1, <2>2, <2>3, MovedInv
<1> QED BY <1>4, <1>5

\* Cursor's tabs are not what the walk keeps its place by.
LEMMA CursorFollowsInv == ASSUME DocumentInv, CursorFollows PROVE DocumentInv'
<1>1. /\ flow' = flow /\ trace' = trace /\ reply' = reply /\ watch' = watch
  BY DEF CursorFollows, CursorSelects, EditorReady
<1>2. page' \in PageRecords /\ page'.top = page.top /\ page'.first = page.first
  BY DEF CursorFollows, CursorSelects, EditorReady, DocumentInv, DocumentTypeOK, PageRecords
<1>3. DocumentTypeOK'
  BY <1>1, <1>2 DEF DocumentInv, DocumentTypeOK, Active
<1>4. InputIsSeen'
  BY <1>1 DEF DocumentInv, InputIsSeen, Undisturbed, Active
<1>5. Held' = Held
  BY <1>1 DEF Held, Following
<1>6. Placed(Held) => Placed(Held)'
  BY <1>1, <1>2, <1>5 DEF Placed, Undisturbed, Row
<1>7. WalkInv'
  BY <1>1, <1>6 DEF DocumentInv, WalkInv, Walking, Scrolled
<1>8. LastInv'
  BY <1>1 DEF DocumentInv, LastInv, Walking, TabBack, RowBack, Scrolled
<1> QED BY <1>3, <1>4, <1>7, <1>8 DEF DocumentInv

LEMMA StandsInv == ASSUME DocumentInv, UNCHANGED documentVars PROVE DocumentInv'
<1>1. /\ flow' = flow /\ trace' = trace /\ reply' = reply /\ watch' = watch /\ page' = page
  BY DEF documentVars, pageVars
<1>2. DocumentTypeOK'
  BY <1>1 DEF DocumentInv, DocumentTypeOK, Active
<1>3. InputIsSeen'
  BY <1>1 DEF DocumentInv, InputIsSeen, Undisturbed, Active
<1>4. Held' = Held
  BY <1>1 DEF Held, Following
<1>5. Placed(Held) => Placed(Held)'
  BY <1>1, <1>4 DEF Placed, Undisturbed, Row
<1>6. WalkInv'
  BY <1>1, <1>5 DEF DocumentInv, WalkInv, Walking, Scrolled
<1>7. LastInv'
  BY <1>1 DEF DocumentInv, LastInv, Walking, TabBack, RowBack, Scrolled
<1> QED BY <1>2, <1>3, <1>6, <1>7 DEF DocumentInv

--------------------------------------------------------------------------------
(* Types of the relay, the network and the client.                         *)

Healths == {"live", "stale", "down"}
Plans   == {Card, NoCommand} \cup Commands

Relays   == [session : Sessions, gen : Int, health : Healths, summary : Int]
States   == [session : Sessions, health : Healths, summary : Int]
Scopes   == [id : Sessions \X BOOLEAN \X Int, epoch : Int, refs : Plans, busy : Plans]
Requests == [kind : {"read", "discover"}, session : Sessions, plan : Plans, summary : Int, gen : Int,
             epoch : Int, invalid : BOOLEAN, gone : BOOLEAN, phase : {"queued", "page", "file", "emit"}]

Asked    == [of : Commands, kind : {"read", "discover"}, session : Sessions, plan : Plans]
Failures == [kind : {"answer"}, of : Commands, ok : {FALSE}]
Answers  == [kind : {"answer"}, of : Commands, ok : {TRUE}, plan : Plans, session : Sessions, summary : Int]
Patches  == [kind : {"patch", "full"}, state : States]

Views  == [session : Sessions, health : Healths, summary : Int, fresh : BOOLEAN]
Data   == [plan : Plans, session : Sessions, summary : Int]
Modals == [plan : Plans, session : Sessions \cup {NoCommand}, summary : Int,
           awaits : Commands \cup {NoCommand}, data : Data \cup {NoData}]

ReadingTypeOK ==
    /\ relay \in Relays /\ sent \in States /\ scope \in Scopes
    /\ req \in [Commands -> Requests \cup {NoRequest}]
    /\ link \in BOOLEAN
    /\ view \in Views /\ modal \in Modals /\ issued \in Nat

\* Of commands, patches and answers one is under way at most.
NetworkInv ==
    /\ toClient = <<>> \/ (toServer = <<>> /\ \E m \in Failures \cup Answers \cup Patches : toClient = <<m>>)
    /\ toServer = <<>> \/ \E m \in Asked : toServer = <<m>> /\ m.of \in 1 .. issued
    /\ \A c \in Commands : Running(c) => c \in 1 .. issued

--------------------------------------------------------------------------------
(* What is known where.                                                    *)

\* The summary: the relay's is the newest, and the client's is the one sent, unless a
\* patch is on its way.
SummaryInv ==
    /\ sent.summary <= relay.summary /\ view.summary <= relay.summary
    /\ \A m \in Patches : toClient = <<m>> =>
          sent.summary <= m.state.summary /\ m.state.summary <= relay.summary
    /\ link /\ (\A m \in Patches : toClient # <<m>>) => sent.summary <= view.summary

\* What carries the answer a window waits for was asked for this window.
CarriersInv ==
    LET c == modal.awaits IN
    /\ c # NoCommand => c \in 1 .. issued
    /\ \A m \in Asked : toServer = <<m>> /\ m.of = c =>
          m.kind = "read" /\ m.plan = modal.plan /\ m.session = modal.session
    /\ c \in Commands /\ Running(c) =>
          req[c].kind = "read" /\ req[c].plan = modal.plan /\ req[c].session = modal.session
    /\ \A m \in Answers : toClient = <<m>> /\ m.of = c =>
          /\ m.plan = modal.plan /\ m.session = modal.session
          /\ modal.plan = Card => m.summary = relay.summary

\* What the window shows.
ShownInv ==
    /\ link /\ modal.session = view.session
    /\ modal.plan = Card => modal.summary = view.summary
    /\ modal.data # NoData =>
          /\ modal.data.session = view.session /\ modal.data.plan = modal.plan
          /\ modal.plan = Card =>
                view.summary <= modal.data.summary /\ modal.data.summary <= relay.summary

ModalInv == modal = NoModal \/ (CarriersInv /\ ShownInv)

ReadingInv == ReadingTypeOK /\ NetworkInv

ClientInv == ReadingInv /\ SummaryInv /\ ModalInv

--------------------------------------------------------------------------------
(* The relay's side.                                                       *)

LEMMA UpdatedTyped ==
  ASSUME ReadingTypeOK
  PROVE  Updated(relay) \in Scopes /\ \A c \in Commands : Freed(Updated(relay), c) \in Scopes
<1>1. relay \in Relays /\ scope \in Scopes
  BY DEF ReadingTypeOK
<1>2. ScopeId(relay) \in Sessions \X BOOLEAN \X Int
  <2>1. relay.session \in Sessions /\ relay.gen \in Int /\ (relay.health # "down") \in BOOLEAN
    BY <1>1 DEF Relays
  <2> QED BY <2>1 DEF ScopeId
<1>3. Updated(relay) \in Scopes
  <2>1. scope.epoch + 1 \in Int
    BY <1>1 DEF Scopes
  <2>2. CASE ScopeId(relay) = scope.id
    BY <1>1, <2>2 DEF Updated
  <2>3. CASE ScopeId(relay) # scope.id
    <3> DEFINE id == ScopeId(relay)
    <3>1. Updated(relay) = [scope EXCEPT !.id = id, !.epoch = scope.epoch + 1, !.refs = NoCommand]
      BY <2>3 DEF Updated
    <3> HIDE DEF id
    <3> QED BY <1>1, <1>2, <2>1, <3>1 DEF Scopes, Plans, id
  <2> QED BY <2>2, <2>3
<1>4. ASSUME NEW c \in Commands PROVE Freed(Updated(relay), c) \in Scopes
  BY <1>3 DEF Freed, Scopes, Plans
<1> QED BY <1>3, <1>4

LEMMA CapturedTyped ==
  ASSUME ReadingTypeOK, NEW m \in Asked
  PROVE  /\ Captured(m) \in Requests
         /\ Captured(m).kind = m.kind /\ Captured(m).plan = m.plan /\ Captured(m).session = m.session
<1>1. relay \in Relays /\ Updated(relay).epoch \in Int
  BY UpdatedTyped DEF ReadingTypeOK, Scopes
<1> QED BY <1>1 DEF Captured, Requests, Relays, Asked

\* A request goes on as what it was asked for, or is over.
Kept ==
    /\ req' \in [Commands -> Requests \cup {NoRequest}]
    /\ \A c \in Commands : req'[c].phase # "none" =>
          /\ Running(c)
          /\ req'[c].kind = req[c].kind /\ req'[c].plan = req[c].plan /\ req'[c].session = req[c].session

LEMMA RequestTyped ==
  ASSUME ReadingTypeOK, NEW c \in Commands
  PROVE  /\ Running(c) => req[c] \in Requests
         /\ ~Running(c) => req[c] = NoRequest
  BY DEF ReadingTypeOK, Running, Requests, NoRequest

LEMMA LookedTyped ==
  ASSUME ReadingTypeOK, NEW c \in Commands, Running(c)
  PROVE  /\ Looked(c) \in Requests
         /\ Looked(c).kind = req[c].kind /\ Looked(c).plan = req[c].plan /\ Looked(c).session = req[c].session
<1>1. req[c] \in Requests
  BY RequestTyped
<1> QED BY <1>1 DEF Looked, Requests

\* One request of them moves on.
LEMMA OneKept ==
  ASSUME ReadingTypeOK, NEW c \in Commands, NEW q, req' = [req EXCEPT ![c] = q],
         \/ q = NoRequest
         \/ /\ Running(c) /\ q \in Requests
            /\ q.kind = req[c].kind /\ q.plan = req[c].plan /\ q.session = req[c].session
  PROVE  Kept
<1>1. q \in Requests \cup {NoRequest}
  OBVIOUS
<1>2. req \in [Commands -> Requests \cup {NoRequest}]
  BY DEF ReadingTypeOK
<1>3. req' \in [Commands -> Requests \cup {NoRequest}]
  BY <1>1, <1>2
<1>4. ASSUME NEW d \in Commands, req'[d].phase # "none"
      PROVE  Running(d) /\ req'[d].kind = req[d].kind /\ req'[d].plan = req[d].plan
             /\ req'[d].session = req[d].session
  <2>1. CASE d # c
    BY <1>2, <1>4, <2>1 DEF Running
  <2>2. CASE d = c
    BY <1>2, <1>4, <2>2 DEF Running, NoRequest
  <2> QED BY <2>1, <2>2
<1> QED BY <1>3, <1>4 DEF Kept

LEMMA StillKept == ASSUME ReadingTypeOK, req' = req PROVE Kept
  BY DEF ReadingTypeOK, Kept, Running

LEMMA RefusedShape ==
  ASSUME ReadingTypeOK, NEW c \in Commands, Refused(c), Quiet
  PROVE  /\ Kept /\ scope' \in Scopes
         /\ toClient' = <<>> \/ \E m \in Failures : toClient' = <<m>>
<1>1. Kept /\ scope' \in Scopes
  BY UpdatedTyped, OneKept DEF Refused
<1>2. [kind |-> "answer", of |-> c, ok |-> FALSE] \in Failures
  BY DEF Failures
<1>3. \A x : Append(<<>>, x) = <<x>>
  OBVIOUS
<1> QED BY <1>1, <1>2, <1>3 DEF Refused, Fail, Quiet

\* What arrives is told apart.
LEMMA SaidApart ==
  /\ \A m \in Patches : m.kind # "answer"
  /\ \A m \in Failures : m.kind = "answer" /\ m.ok = FALSE
  /\ \A m \in Answers : m.kind = "answer" /\ m.ok = TRUE
  BY DEF Patches, Failures, Answers

\* What leaves the client alone, and answers it with no more than a failure.
AsBefore ==
    /\ relay' \in Relays /\ relay.summary <= relay'.summary
    /\ sent' = sent /\ scope' \in Scopes /\ Kept
    /\ link' = link /\ toServer' = <<>>
    /\ toClient' = <<>> \/ \E m \in Failures : toClient' = <<m>>

LEMMA AsBeforeInv == ASSUME ClientInv, Quiet, AsBefore, UNCHANGED clientVars PROVE ClientInv'
<1>1. /\ view' = view /\ modal' = modal /\ issued' = issued
      /\ toServer = <<>> /\ toClient = <<>> /\ ReadingTypeOK
  BY DEF clientVars, Quiet, ClientInv, ReadingInv
<1>2. relay.summary \in Int /\ relay'.summary \in Int /\ sent.summary \in Int /\ view.summary \in Int
      /\ (modal.data # NoData => modal.data.summary \in Int)
  BY <1>1 DEF AsBefore, ReadingTypeOK, Relays, States, Views, Modals, Data
<1>3. ReadingTypeOK'
  BY <1>1 DEF ReadingTypeOK, AsBefore, Kept
<1>4. \A m \in Patches \cup Answers : toClient' # <<m>>
  <2>1. ASSUME NEW m \in Patches \cup Answers, NEW f \in Failures PROVE m # f
    BY <2>1, SaidApart
  <2>2. \A m, f : <<m>> = <<f>> => m = f
    OBVIOUS
  <2>3. \A m : <<>> # <<m>>
    OBVIOUS
  <2> QED BY <2>1, <2>2, <2>3 DEF AsBefore
<1>5. NetworkInv'
  <2>1. \A c \in Commands : Running(c)' => c \in 1 .. issued'
    BY <1>1 DEF AsBefore, Kept, Running, ClientInv, ReadingInv, NetworkInv
  <2> QED BY <2>1 DEF AsBefore, NetworkInv
<1>6. SummaryInv'
  <2>1. link => sent.summary <= view.summary
    BY <1>1 DEF ClientInv, SummaryInv
  <2>2. sent.summary <= relay.summary /\ view.summary <= relay.summary
    BY DEF ClientInv, SummaryInv
  <2> QED BY <1>1, <1>2, <1>4, <2>1, <2>2 DEF AsBefore, SummaryInv
<1>7. ModalInv'
  <2>1. CASE modal = NoModal
    BY <1>1, <2>1 DEF ModalInv, NoModal
  <2>2. CASE modal # NoModal
    <3>1. CarriersInv /\ ShownInv
      BY <2>2 DEF ClientInv, ModalInv
    <3>2. CarriersInv'
      BY <1>1, <1>4, <3>1 DEF CarriersInv, AsBefore, Kept, Running
    <3>3. ShownInv'
      BY <1>1, <1>2, <3>1 DEF ShownInv, AsBefore
    <3> QED BY <3>2, <3>3 DEF ModalInv
  <2> QED BY <2>1, <2>2
<1> QED BY <1>3, <1>5, <1>6, <1>7 DEF ClientInv, ReadingInv

\* The steps of the relay, of Cursor and of time that answer nobody, or refuse.
LEMMA RelayKeeps ==
  ASSUME ClientInv, Quiet,
         \/ PageStep \/ ReferencesExpire \/ StateMoves \/ PageActs \/ CursorActs
         \/ \E c \in Commands : Begin(c) \/ Dropped(c) \/ FileNamed(c) \/ PlansFound(c) \/ ReadFile(c)
                                \/ LaneTimeout(c)
  PROVE  AsBefore
<1>1. /\ toServer = <<>> /\ toClient = <<>> /\ ReadingTypeOK
      /\ relay \in Relays /\ relay.summary \in Int /\ scope \in Scopes /\ Updated(relay) \in Scopes
  BY UpdatedTyped DEF Quiet, ClientInv, ReadingInv, ReadingTypeOK, Relays
<1>2. ASSUME UNCHANGED <<relay, sent, networkVars>>, Kept, scope' \in Scopes PROVE AsBefore
  BY <1>1, <1>2 DEF AsBefore, networkVars
<1>3. ASSUME NEW c \in Commands, Refused(c), UNCHANGED <<relay, sent, toServer, link>> PROVE AsBefore
  BY <1>1, <1>3, RefusedShape DEF AsBefore
<1>4. ASSUME NEW c \in Commands, Begin(c) PROVE AsBefore
  <2> DEFINE q == [Looked(c) EXCEPT !.phase = "page"]
  <2>1. Running(c)
    BY <1>4 DEF Begin, Running
  <2>2. q \in Requests /\ q.kind = req[c].kind /\ q.plan = req[c].plan /\ q.session = req[c].session
    BY <1>1, <2>1, LookedTyped DEF Requests
  <2>3. req' = [req EXCEPT ![c] = q]
    BY <1>4 DEF Begin
  <2> HIDE DEF q
  <2>4. Kept
    BY <1>1, <2>1, <2>2, <2>3, OneKept
  <2> QED BY <1>1, <1>2, <1>4, <2>4 DEF Begin
<1>5. CASE PageStep
  <2>1. CASE UNCHANGED <<scope, req>>
    <3>1. Kept
      BY <1>1, <2>1, StillKept
    <3> QED BY <1>1, <1>2, <1>5, <2>1, <3>1 DEF PageStep
  <2>2. CASE ~UNCHANGED <<scope, req>>
    <3>1. /\ scope' = Updated(relay) /\ Running(flow.attempt)
          /\ req' = [req EXCEPT ![flow.attempt] = Looked(flow.attempt)]
      BY <1>5, <2>2 DEF PageStep
    <3>2. CASE flow.attempt \in Commands
      <4>1. Kept
        BY <1>1, <3>1, <3>2, LookedTyped, OneKept
      <4> QED BY <1>1, <1>2, <1>5, <3>1, <4>1 DEF PageStep
    <3>3. CASE flow.attempt \notin Commands
      <4>1. req' = req
        BY <1>1, <3>1, <3>3 DEF ReadingTypeOK
      <4>2. Kept
        BY <1>1, <4>1, StillKept
      <4> QED BY <1>1, <1>2, <1>5, <3>1, <4>2 DEF PageStep
    <3> QED BY <3>2, <3>3
  <2> QED BY <2>1, <2>2
<1>6. ASSUME NEW c \in Commands, FileNamed(c) \/ PlansFound(c) \/ ReadFile(c) PROVE AsBefore
  <2>1. UNCHANGED <<relay, sent, toServer, link>>
    BY <1>6 DEF FileNamed, PlansFound, ReadFile, PageOver
  <2>2. CASE Refused(c)
    BY <1>3, <2>1, <2>2
  <2>3. CASE ~Refused(c)
    <3>1. PICK phase \in {"file", "emit"} : req' = [req EXCEPT ![c].phase = phase]
      BY <1>6, <2>3 DEF FileNamed, PlansFound, ReadFile
    <3>2. Running(c) /\ toClient' = toClient
      BY <1>6, <2>3 DEF FileNamed, PlansFound, ReadFile, PageOver, Running
    <3>3. scope' \in Scopes
      <4>1. scope' = Updated(relay) \/ scope' = [Updated(relay) EXCEPT !.refs = c, !.busy = NoCommand]
        BY <1>6, <2>3 DEF FileNamed, PlansFound, ReadFile
      <4> QED BY <1>1, <4>1 DEF Scopes, Plans
    <3>4. Kept
      <4> DEFINE q == [req[c] EXCEPT !.phase = phase]
      <4>1. q \in Requests /\ q.kind = req[c].kind /\ q.plan = req[c].plan /\ q.session = req[c].session
        BY <1>1, <3>2, RequestTyped DEF Requests
      <4>2. req' = [req EXCEPT ![c] = q]
        BY <3>1
      <4> HIDE DEF q
      <4> QED BY <1>1, <3>2, <4>1, <4>2, OneKept
    <3> QED BY <1>2, <2>1, <3>2, <3>3, <3>4 DEF networkVars
  <2> QED BY <2>2, <2>3
<1>7. ASSUME NEW c \in Commands, Dropped(c) \/ LaneTimeout(c) PROVE AsBefore
  BY <1>3, <1>7 DEF Dropped, LaneTimeout
<1>8. CASE ReferencesExpire
  <2>1. scope' \in Scopes
    BY <1>1, <1>8 DEF ReferencesExpire, Scopes, Plans
  <2>2. Kept
    BY <1>1, <1>8, StillKept DEF ReferencesExpire
  <2> QED BY <1>2, <1>8, <2>1, <2>2 DEF ReferencesExpire
<1>9. CASE StateMoves
  <2>1. relay' \in Relays /\ relay.summary <= relay'.summary
    <3>1. CASE \E s \in Sessions \ {relay.session} : relay' = [relay EXCEPT !.session = s]
      BY <1>1, <3>1 DEF Relays
    <3>2. CASE relay' = [relay EXCEPT !.gen = @ + 1]
      <4>1. relay.gen + 1 \in Int
        BY <1>1 DEF Relays
      <4> QED BY <1>1, <3>2, <4>1 DEF Relays
    <3>3. CASE \E h \in {"live", "stale", "down"} \ {relay.health} : relay' = [relay EXCEPT !.health = h]
      BY <1>1, <3>3 DEF Relays, Healths
    <3>4. CASE \E v \in relay.summary + 1 .. Named : relay' = [relay EXCEPT !.summary = v]
      <4>1. PICK v \in relay.summary + 1 .. Named : relay' = [relay EXCEPT !.summary = v]
        BY <3>4
      <4>2. v \in Int /\ relay.summary <= v
        BY <1>1 DEF Named
      <4> QED BY <1>1, <4>1, <4>2 DEF Relays
    <3> QED BY <1>9, <3>1, <3>2, <3>3, <3>4 DEF StateMoves
  <2>2. Kept
    BY <1>1, <1>9, StillKept DEF StateMoves
  <2> QED BY <1>1, <1>9, <2>1, <2>2 DEF StateMoves, AsBefore, networkVars
<1>10. CASE PageActs \/ CursorActs
  <2>1. Kept
    BY <1>1, <1>10, StillKept DEF PageActs, CursorActs, serverVars
  <2> QED BY <1>1, <1>2, <1>10, <2>1 DEF PageActs, CursorActs, serverVars
<1> QED BY <1>4, <1>5, <1>6, <1>7, <1>8, <1>9, <1>10

\* An answer leaves only while the card says what it was read for.
LEMMA EmitInv == ASSUME ClientInv, Quiet, NEW c \in Commands, Emit(c), UNCHANGED clientVars PROVE ClientInv'
<1>1. /\ view' = view /\ modal' = modal /\ issued' = issued
      /\ toServer = <<>> /\ toClient = <<>> /\ ReadingTypeOK
      /\ relay' = relay /\ sent' = sent /\ link' = link /\ toServer' = <<>>
  BY DEF clientVars, Quiet, ClientInv, ReadingInv, Emit
<1>2. CASE Refused(c)
  <2>1. relay.summary <= relay'.summary /\ relay' \in Relays
    BY <1>1 DEF ReadingTypeOK, Relays
  <2>2. AsBefore
    BY <1>1, <1>2, <2>1, RefusedShape DEF AsBefore
  <2> QED BY <2>2, AsBeforeInv
<1>3. CASE ~Refused(c)
  <2> DEFINE a == [kind |-> "answer", of |-> c, ok |-> TRUE,
                   plan |-> req[c].plan, session |-> req[c].session, summary |-> req[c].summary]
  <2>1. /\ Running(c) /\ IsCurrent(req[c], relay)
        /\ toClient' = Append(toClient, a) /\ req' = [req EXCEPT ![c] = NoRequest]
        /\ scope' = Updated(relay)
    BY <1>3 DEF Emit, ResultGuard, Running
  <2>2. /\ a \in Answers /\ a.of = c /\ a.plan = req[c].plan /\ a.session = req[c].session
        /\ a.summary = req[c].summary
    BY <1>1, <2>1, RequestTyped DEF Answers, Requests
  <2>3. toClient' = <<a>>
    BY <1>1, <2>1
  <2> HIDE DEF a
  <2>4. Kept
    BY <1>1, <2>1, OneKept
  <2>5. ReadingTypeOK'
    BY <1>1, <2>1, <2>4, UpdatedTyped DEF ReadingTypeOK, Kept
  <2>6. NetworkInv'
    <3>1. \A d \in Commands : Running(d)' => d \in 1 .. issued'
      BY <1>1, <2>4 DEF Kept, Running, ClientInv, ReadingInv, NetworkInv
    <3> QED BY <1>1, <2>2, <2>3, <3>1 DEF NetworkInv
  <2>7. \A m : toClient' = <<m>> => m = a
    BY <2>3
  <2>8. \A m \in Patches : toClient' # <<m>>
    BY <2>2, <2>7, SaidApart
  <2>9. SummaryInv'
    <3>1. \A m \in Patches : toClient # <<m>>
      BY <1>1
    <3> QED BY <1>1, <2>8, <3>1 DEF ClientInv, SummaryInv
  <2>10. ASSUME CarriersInv PROVE CarriersInv'
    <3>1. ASSUME c = modal.awaits
          PROVE  /\ a.plan = modal.plan /\ a.session = modal.session
                 /\ modal.plan = Card => a.summary = relay.summary
      <4>1. req[c].kind = "read" /\ req[c].plan = modal.plan /\ req[c].session = modal.session
        BY <2>1, <2>10, <3>1 DEF CarriersInv
      <4> QED BY <2>1, <2>2, <4>1 DEF IsCurrent
    <3> QED BY <1>1, <2>2, <2>4, <2>7, <2>10, <3>1 DEF CarriersInv, Kept, Running
  <2>11. ModalInv'
    <3>1. ShownInv => ShownInv'
      BY <1>1 DEF ShownInv
    <3>2. modal = NoModal => modal' = NoModal'
      BY <1>1 DEF NoModal, NoData
    <3> QED BY <2>10, <3>1, <3>2 DEF ClientInv, ModalInv
  <2> QED BY <2>5, <2>6, <2>9, <2>11 DEF ClientInv, ReadingInv
<1> QED BY <1>2, <1>3

LEMMA PublicTyped ==
  ASSUME ReadingTypeOK
  PROVE  Public \in States /\ Public.summary = relay.summary
  BY DEF ReadingTypeOK, Public, Relays, States

\* The patch says what the relay knows, and nobody's place changes by it.
LEMMA PatchSentInv == ASSUME ClientInv, Quiet, PatchSent, UNCHANGED clientVars PROVE ClientInv'
<1> DEFINE p == [kind |-> "patch", state |-> Public]
<1>1. /\ view' = view /\ modal' = modal /\ issued' = issued
      /\ toServer = <<>> /\ toClient = <<>> /\ ReadingTypeOK
      /\ relay' = relay /\ sent' = Public /\ link' = link /\ toServer' = <<>>
  BY DEF clientVars, Quiet, ClientInv, ReadingInv, PatchSent
<1>2. Public \in States /\ Public.summary = relay.summary /\ p \in Patches /\ p.state = Public
  BY <1>1, PublicTyped DEF Patches
<1>3. (link /\ toClient' = <<p>>) \/ (~link /\ toClient' = <<>>)
  BY <1>1 DEF PatchSent
<1> HIDE DEF p
<1>4. Kept
  <2>1. req' = [c \in Commands |->
           IF Running(c) /\ req[c].kind = "read" /\ req[c].phase # "emit" /\ ~IsCurrent(req[c], relay)
           THEN [req[c] EXCEPT !.invalid = TRUE] ELSE req[c]]
    BY DEF PatchSent
  <2>2. ASSUME NEW c \in Commands
        PROVE  /\ req'[c] \in Requests \cup {NoRequest}
               /\ req'[c].phase # "none" =>
                     /\ Running(c)
                     /\ req'[c].kind = req[c].kind /\ req'[c].plan = req[c].plan
                     /\ req'[c].session = req[c].session
    <3>1. CASE req'[c] = req[c]
      BY <1>1, <3>1 DEF ReadingTypeOK, Running
    <3>2. CASE Running(c) /\ req'[c] = [req[c] EXCEPT !.invalid = TRUE]
      BY <1>1, <3>2, RequestTyped DEF Requests
    <3> QED BY <2>1, <3>1, <3>2
  <2>3. req' \in [Commands -> Requests \cup {NoRequest}]
    BY <2>1, <2>2
  <2> QED BY <2>2, <2>3 DEF Kept
<1>5. ReadingTypeOK'
  <2>1. scope' \in Scopes
    BY <1>1, UpdatedTyped DEF PatchSent, ReadingTypeOK
  <2> QED BY <1>1, <1>2, <1>4, <2>1 DEF ReadingTypeOK, Kept
<1>6. NetworkInv'
  <2>1. \A d \in Commands : Running(d)' => d \in 1 .. issued'
    BY <1>1, <1>4 DEF Kept, Running, ClientInv, ReadingInv, NetworkInv
  <2> QED BY <1>1, <1>2, <1>3, <2>1 DEF NetworkInv
<1>7. \A m : toClient' = <<m>> => m = p
  BY <1>3
<1>8. SummaryInv'
  <2>1. relay.summary \in Int
    BY <1>1 DEF ReadingTypeOK, Relays
  <2>2. view.summary <= relay.summary
    BY DEF ClientInv, SummaryInv
  <2>3. ~(link' /\ \A m \in Patches : toClient' # <<m>>)
    BY <1>1, <1>2, <1>3
  <2> QED BY <1>1, <1>2, <1>7, <2>1, <2>2, <2>3 DEF SummaryInv
<1>9. ASSUME CarriersInv PROVE CarriersInv'
  <2>1. \A m \in Answers : toClient' # <<m>>
    BY <1>2, <1>7, SaidApart
  <2> QED BY <1>1, <1>4, <1>9, <2>1 DEF CarriersInv, Kept, Running
<1>10. ModalInv'
  <2>1. ShownInv => ShownInv'
    BY <1>1 DEF ShownInv
  <2>2. modal = NoModal => modal' = NoModal'
    BY <1>1 DEF NoModal, NoData
  <2> QED BY <1>9, <2>1, <2>2 DEF ClientInv, ModalInv
<1> QED BY <1>5, <1>6, <1>8, <1>10 DEF ClientInv, ReadingInv

\* A new socket starts from all there is to know.
LEMMA ReconnectInv == ASSUME ClientInv, Quiet, Reconnect, UNCHANGED clientVars PROVE ClientInv'
<1> DEFINE p == [kind |-> "full", state |-> Public]
<1>1. /\ view' = view /\ modal' = modal /\ issued' = issued
      /\ toServer = <<>> /\ toClient = <<>> /\ ReadingTypeOK /\ ~link
      /\ relay' = relay /\ sent' = sent /\ link' = TRUE /\ toServer' = <<>> /\ toClient' = <<p>> /\ req' = req
  BY DEF clientVars, Quiet, ClientInv, ReadingInv, Reconnect
<1>2. Public \in States /\ Public.summary = relay.summary /\ p \in Patches /\ p.state = Public
  BY <1>1, PublicTyped DEF Patches
<1> HIDE DEF p
<1>3. ReadingTypeOK'
  <2>1. scope' \in Scopes
    BY <1>1, UpdatedTyped DEF Reconnect
  <2> QED BY <1>1, <2>1 DEF ReadingTypeOK
<1>4. NetworkInv'
  BY <1>1, <1>2 DEF NetworkInv, ClientInv, ReadingInv, Running
<1>5. SummaryInv'
  <2>1. relay.summary \in Int /\ \A m : toClient' = <<m>> => m = p
    BY <1>1 DEF ReadingTypeOK, Relays
  <2> QED BY <1>1, <1>2, <2>1 DEF ClientInv, SummaryInv
<1>6. ModalInv'
  <2>1. modal = NoModal
    BY <1>1 DEF ClientInv, ModalInv, ShownInv
  <2> QED BY <1>1, <2>1 DEF ModalInv, NoModal, NoData
<1> QED BY <1>3, <1>4, <1>5, <1>6 DEF ClientInv, ReadingInv

LEMMA DropInv == ASSUME ClientInv, Quiet, Drop, LosesSocket PROVE ClientInv'
<1>1. /\ modal' = NoModal /\ issued' = issued /\ ReadingTypeOK
      /\ relay' = relay /\ sent' = sent /\ link' = FALSE /\ toServer' = <<>> /\ toClient' = <<>>
  BY DEF LosesSocket, ClientInv, ReadingInv, Drop
<1>2. view' \in Views /\ view'.summary = view.summary
  BY <1>1 DEF LosesSocket, ReadingTypeOK, Views
<1>3. NoModal \in Modals
  BY DEF NoModal, Modals, Plans
<1>4. Kept
  <2>1. req' = [c \in Commands |->
           IF Running(c) THEN [req[c] EXCEPT !.invalid = TRUE, !.gone = TRUE] ELSE NoRequest]
    BY DEF Drop
  <2>2. ASSUME NEW c \in Commands
        PROVE  /\ req'[c] \in Requests \cup {NoRequest}
               /\ req'[c].phase # "none" =>
                     /\ Running(c)
                     /\ req'[c].kind = req[c].kind /\ req'[c].plan = req[c].plan
                     /\ req'[c].session = req[c].session
    <3>1. CASE ~Running(c)
      BY <2>1, <3>1 DEF NoRequest
    <3>2. CASE Running(c)
      BY <1>1, <2>1, <3>2, RequestTyped DEF Requests
    <3> QED BY <3>1, <3>2
  <2>3. req' \in [Commands -> Requests \cup {NoRequest}]
    BY <2>1, <2>2
  <2> QED BY <2>2, <2>3 DEF Kept
<1>5. ReadingTypeOK'
  <2>1. scope' \in Scopes
    <3>1. Updated(relay) \in Scopes
      BY <1>1, UpdatedTyped
    <3>2. Updated(relay).epoch + 1 \in Int
      BY <3>1 DEF Scopes
    <3> QED BY <3>1, <3>2 DEF Drop, Scopes, Plans
  <2> QED BY <1>1, <1>2, <1>3, <1>4, <2>1 DEF ReadingTypeOK, Kept
<1>6. NetworkInv'
  BY <1>1, <1>4 DEF Kept, Running, ClientInv, ReadingInv, NetworkInv
<1>7. SummaryInv'
  <2>1. \A m : toClient' # <<m>>
    BY <1>1
  <2> QED BY <1>1, <1>2, <2>1 DEF ClientInv, SummaryInv
<1>8. ModalInv'
  BY <1>1 DEF ModalInv, NoModal, NoData
<1> QED BY <1>5, <1>6, <1>7, <1>8 DEF ClientInv, ReadingInv

\* A command becomes a request for what it asks, or is refused.
LEMMA ReceiveInv == ASSUME ClientInv, ReceiveCommand, UNCHANGED clientVars PROVE ClientInv'
<1>1. PICK m \in Asked : toServer = <<m>> /\ m.of \in 1 .. issued
  BY DEF ReceiveCommand, ClientInv, ReadingInv, NetworkInv
<1>2. Head(toServer) = m /\ Tail(toServer) = <<>> /\ toClient = <<>>
  BY <1>1 DEF ClientInv, ReadingInv, NetworkInv
<1>3. ReceiveDiscover(m) \/ ReceiveRead(m)
  BY <1>2 DEF ReceiveCommand
<1>4. /\ view' = view /\ modal' = modal /\ issued' = issued /\ ReadingTypeOK
      /\ relay' = relay /\ sent' = sent /\ link' = link /\ toServer' = <<>>
  BY <1>2, <1>3 DEF clientVars, ClientInv, ReadingInv, ReceiveDiscover, ReceiveRead, Received
<1>5. m.of \in Commands
  BY DEF Asked
<1>6. toClient' = <<>> \/ \E f \in Failures : toClient' = <<f>>
  <2>1. [kind |-> "answer", of |-> m.of, ok |-> FALSE] \in Failures
    BY <1>5 DEF Failures
  <2>2. \A x : Append(<<>>, x) = <<x>>
    OBVIOUS
  <2> QED BY <1>2, <1>3, <2>1, <2>2 DEF ReceiveDiscover, ReceiveRead, Fail
<1>7. scope' \in Scopes
  <2>1. \/ scope' = Updated(relay)
        \/ scope' = [Updated(relay) EXCEPT !.refs = NoCommand, !.busy = m.of]
    BY <1>3 DEF ReceiveDiscover, ReceiveRead
  <2> QED BY <1>4, <1>5, <2>1, UpdatedTyped DEF Scopes, Plans
<1>8. PICK q \in Requests : /\ req' = req \/ req' = [req EXCEPT ![m.of] = q]
                            /\ q.kind = m.kind /\ q.plan = m.plan /\ q.session = m.session
  <2>1. /\ Captured(m) \in Requests
        /\ Captured(m).kind = m.kind /\ Captured(m).plan = m.plan /\ Captured(m).session = m.session
    BY <1>4, CapturedTyped
  <2> DEFINE q == [Captured(m) EXCEPT !.phase = "file"]
  <2>2. q \in Requests /\ q.kind = m.kind /\ q.plan = m.plan /\ q.session = m.session
    BY <2>1 DEF Requests
  <2>3. req' = req \/ req' = [req EXCEPT ![m.of] = Captured(m)] \/ req' = [req EXCEPT ![m.of] = q]
    BY <1>3 DEF ReceiveDiscover, ReceiveRead
  <2> HIDE DEF q
  <2> QED BY <2>1, <2>2, <2>3
<1>9. ReadingTypeOK'
  BY <1>4, <1>7, <1>8 DEF ReadingTypeOK
<1>10. \A c \in Commands : req'[c] = req[c] \/ (c = m.of /\ req'[c] = q)
  BY <1>4, <1>8 DEF ReadingTypeOK
<1>11. NetworkInv'
  <2>1. \A c \in Commands : Running(c)' => c \in 1 .. issued'
    BY <1>1, <1>4, <1>10 DEF Running, ClientInv, ReadingInv, NetworkInv
  <2> QED BY <1>4, <1>6, <2>1 DEF NetworkInv
<1>12. \A x \in Patches \cup Answers : toClient' # <<x>> /\ toClient # <<x>>
  <2>1. ASSUME NEW x \in Patches \cup Answers, NEW f \in Failures PROVE x # f
    BY <2>1, SaidApart
  <2>2. \A x, f : (<<x>> = <<f>> => x = f) /\ <<>> # <<x>>
    OBVIOUS
  <2> QED BY <1>2, <1>6, <2>1, <2>2
<1>13. SummaryInv'
  BY <1>4, <1>12 DEF ClientInv, SummaryInv
<1>14. ASSUME CarriersInv PROVE CarriersInv'
  <2>1. modal.awaits = m.of => m.kind = "read" /\ m.plan = modal.plan /\ m.session = modal.session
    BY <1>1, <1>14 DEF CarriersInv
  <2>2. ASSUME modal.awaits \in Commands, Running(modal.awaits)'
        PROVE  /\ req'[modal.awaits].kind = "read" /\ req'[modal.awaits].plan = modal.plan
               /\ req'[modal.awaits].session = modal.session
    BY <1>4, <1>8, <1>10, <1>14, <2>1, <2>2 DEF CarriersInv, Running
  <2>3. \A x : toServer' # <<x>>
    BY <1>4
  <2> QED BY <1>4, <1>12, <1>14, <2>2, <2>3 DEF CarriersInv, Running
<1>15. ModalInv'
  <2>1. ShownInv => ShownInv'
    BY <1>4 DEF ShownInv
  <2>2. modal = NoModal => modal' = NoModal'
    BY <1>4 DEF NoModal, NoData
  <2> QED BY <1>14, <2>1, <2>2 DEF ClientInv, ModalInv
<1> QED BY <1>9, <1>11, <1>13, <1>15 DEF ClientInv, ReadingInv

--------------------------------------------------------------------------------
(* The client's side.                                                      *)

\* What the window becomes when the state beside it does.
LEMMA SyncedShape ==
  ASSUME NEW m \in Modals, NEW v, NEW d
  PROVE  \/ Synced(m, v, d) = NoModal
         \/ /\ Synced(m, v, d) = m /\ m.session = v.session
            /\ m.plan = Card => m.summary = v.summary
         \/ /\ Synced(m, v, d) = [m EXCEPT !.summary = v.summary, !.awaits = NoCommand, !.data = NoData]
            /\ m.session = v.session
  BY DEF Synced

LEMMA WithoutReferenceShape == \A m : WithoutReference(m) = m \/ WithoutReference(m) = NoModal
  BY DEF WithoutReference

LEMMA NoModalTyped == NoModal \in Modals /\ NoData \notin Data /\ NoModal.awaits = NoCommand
                      /\ NoCommand \notin Commands
  BY PageAssumption DEF NoModal, NoData, Modals, Data, Plans, NoCommand, Commands

\* A step of the client that leaves the relay alone, and reads the network or not.
Alone ==
    /\ relay' = relay /\ sent' = sent /\ scope' = scope /\ req' = req /\ link' = link
    /\ toServer = <<>> /\ toServer' = <<>> /\ toClient' = <<>> /\ issued' = issued

LEMMA AloneInv ==
  ASSUME ClientInv, Alone, view' \in Views, modal' \in Modals, ModalInv',
         view'.summary <= relay.summary, link => sent.summary <= view'.summary
  PROVE  ClientInv'
<1>1. ReadingTypeOK'
  BY DEF ClientInv, ReadingInv, ReadingTypeOK, Alone
<1>2. NetworkInv'
  BY DEF ClientInv, ReadingInv, NetworkInv, Running, Alone
<1>3. SummaryInv'
  <2>1. \A m : toClient' # <<m>>
    BY DEF Alone
  <2> QED BY <2>1 DEF ClientInv, SummaryInv, Alone
<1> QED BY <1>1, <1>2, <1>3 DEF ClientInv, ReadingInv

\* The window goes on waiting for what it waited for, or waits no more.
LEMMA AloneCarries ==
  ASSUME CarriersInv, Alone, modal'.awaits = NoCommand \/ modal'.awaits = modal.awaits,
         modal'.plan = modal.plan, modal'.session = modal.session
  PROVE  CarriersInv'
<1>1. \A m : toServer' # <<m>> /\ toClient' # <<m>>
  BY DEF Alone
<1>2. NoCommand \notin Commands
  BY NoModalTyped
<1> QED BY <1>1, <1>2 DEF CarriersInv, Alone, Running

LEMMA GetStateInv ==
  ASSUME ClientInv, GetState, toClient' = Tail(toClient), UNCHANGED <<serverVars, toServer, link>>
  PROVE  ClientInv'
<1>1. ReadingTypeOK /\ toClient # <<>>
  BY DEF ClientInv, ReadingInv, GetState
<1>2. PICK p \in Failures \cup Answers \cup Patches : toClient = <<p>>
  BY <1>1 DEF ClientInv, ReadingInv, NetworkInv
<1>3. Head(toClient) = p /\ Tail(toClient) = <<>> /\ toServer = <<>>
  BY <1>1, <1>2 DEF ClientInv, ReadingInv, NetworkInv
<1>4. p \in Patches
  BY <1>3, SaidApart DEF GetState
<1>5. p.state \in States /\ sent.summary <= p.state.summary /\ p.state.summary <= relay.summary
  BY <1>2, <1>4 DEF Patches, ClientInv, SummaryInv
<1>6. /\ view' \in Views /\ view'.session = p.state.session /\ view'.summary = p.state.summary
  <2>1. (view.fresh \/ p.kind = "full") \in BOOLEAN
    OBVIOUS
  <2>2. view' = [session |-> p.state.session, health |-> p.state.health, summary |-> p.state.summary,
                 fresh |-> view.fresh \/ p.kind = "full"]
    BY <1>3 DEF GetState
  <2> DEFINE fresh == view.fresh \/ p.kind = "full"
  <2>3. view' = [session |-> p.state.session, health |-> p.state.health, summary |-> p.state.summary,
                 fresh |-> fresh] /\ fresh \in BOOLEAN
    BY <2>1, <2>2
  <2> HIDE DEF fresh
  <2> QED BY <1>5, <2>3 DEF Views, States
<1>7. Alone
  BY <1>3 DEF Alone, GetState, serverVars
<1>8. PICK m \in {modal, NoModal} : \E d : modal' = Synced(m, view', d)
  <2>1. \E m \in {modal, WithoutReference(modal)} : modal' = Synced(m, view', disc')
    BY DEF GetState
  <2> QED BY <2>1, WithoutReferenceShape
<1>9. m \in Modals
  BY <1>1, <1>8, NoModalTyped DEF ReadingTypeOK
<1>10. CASE modal' = NoModal
  <2>1. ModalInv' /\ modal' \in Modals
    BY <1>10, NoModalTyped DEF ModalInv, NoModal, NoData
  <2> QED BY <1>5, <1>6, <1>7, <2>1, AloneInv
<1>11. CASE modal' # NoModal
  <2>1. m = modal /\ modal # NoModal
    BY <1>8, <1>11 DEF Synced
  <2>2. CarriersInv /\ ShownInv
    BY <2>1 DEF ClientInv, ModalInv
  <2>3. CASE modal' = modal /\ modal.session = view'.session /\ (modal.plan = Card => modal.summary = view'.summary)
    <3>1. CarriersInv'
      BY <1>7, <2>2, <2>3, AloneCarries
    <3>2. ShownInv'
      BY <1>7, <2>2, <2>3 DEF ShownInv, Alone
    <3> QED BY <1>5, <1>6, <1>7, <1>9, <2>1, <2>3, <3>1, <3>2, AloneInv DEF ModalInv
  <2>4. CASE /\ modal' = [modal EXCEPT !.summary = view'.summary, !.awaits = NoCommand, !.data = NoData]
             /\ modal.session = view'.session
    <3>1. /\ modal' \in Modals /\ modal'.awaits = NoCommand /\ modal'.plan = modal.plan
          /\ modal'.session = modal.session /\ modal'.summary = view'.summary /\ modal'.data = NoData
      BY <1>6, <1>9, <2>1, <2>4 DEF Modals, Views
    <3>2. CarriersInv'
      BY <1>7, <2>2, <3>1, AloneCarries
    <3>3. ShownInv'
      BY <1>7, <2>2, <2>4, <3>1 DEF ShownInv, Alone, NoData
    <3> QED BY <1>5, <1>6, <1>7, <3>1, <3>2, <3>3, AloneInv DEF ModalInv
  <2> QED BY <1>8, <1>9, <1>11, <2>1, <2>3, <2>4, SyncedShape
<1> QED BY <1>10, <1>11

\* Nothing is shown of an answer but to the window that waits for it.
LEMMA SettleInv ==
  ASSUME ClientInv, Alone, NEW c \in Commands, NEW r, Settle(c, r), \A m \in Patches : toClient # <<m>>,
         r.ok = FALSE \/ (r \in Answers /\ toClient = <<r>> /\ r.of = c)
  PROVE  ClientInv'
<1>1. /\ view' = view /\ view' \in Views /\ view.summary <= relay.summary /\ modal \in Modals
      /\ link => sent.summary <= view.summary
  BY DEF Settle, ClientInv, SummaryInv, ReadingInv, ReadingTypeOK
<1>2. CASE modal.awaits # c
  <2>1. modal' = modal
    BY <1>2 DEF Settle
  <2>2. CarriersInv => CarriersInv'
    BY <2>1, AloneCarries
  <2>3. ShownInv => ShownInv'
    BY <1>1, <2>1 DEF ShownInv, Alone
  <2>4. modal = NoModal => modal' = NoModal'
    BY <2>1 DEF NoModal, NoData
  <2>5. ModalInv'
    BY <2>2, <2>3, <2>4 DEF ClientInv, ModalInv
  <2> QED BY <1>1, <2>1, <2>5, AloneInv
<1>3. CASE modal.awaits = c
  <2>1. CarriersInv /\ ShownInv
    BY <1>3, NoModalTyped DEF ClientInv, ModalInv
  <2> DEFINE data == [plan |-> r.plan, session |-> r.session, summary |-> r.summary]
  <2>2. CASE r.ok = FALSE
    <3>1. modal' = [modal EXCEPT !.awaits = NoCommand, !.data = NoData]
      BY <1>3, <2>2 DEF Settle
    <3>2. /\ modal' \in Modals /\ modal'.awaits = NoCommand /\ modal'.plan = modal.plan
          /\ modal'.session = modal.session /\ modal'.summary = modal.summary /\ modal'.data = NoData
      BY <1>1, <3>1 DEF Modals
    <3>3. CarriersInv'
      BY <2>1, <3>2, AloneCarries
    <3>4. ShownInv'
      BY <1>1, <2>1, <3>2 DEF ShownInv, Alone, NoData
    <3> QED BY <1>1, <3>2, <3>3, <3>4, AloneInv DEF ModalInv
  <2>3. CASE r \in Answers /\ toClient = <<r>> /\ r.of = c
    <3>1. r.ok = TRUE /\ data \in Data
      BY <2>3 DEF Answers, Data
    <3>2. modal' = [modal EXCEPT !.awaits = NoCommand, !.data = data]
      BY <1>3, <3>1 DEF Settle
    <3>3. /\ data.plan = modal.plan /\ data.session = modal.session
          /\ modal.plan = Card => data.summary = relay.summary
      BY <1>3, <2>1, <2>3 DEF CarriersInv
    <3> HIDE DEF data
    <3>4. /\ modal' \in Modals /\ modal'.awaits = NoCommand /\ modal'.plan = modal.plan
          /\ modal'.session = modal.session /\ modal'.summary = modal.summary /\ modal'.data = data
      BY <1>1, <3>1, <3>2 DEF Modals
    <3>5. CarriersInv'
      BY <2>1, <3>4, AloneCarries
    <3>6. ShownInv'
      <4>1. relay.summary \in Int
        BY DEF ClientInv, ReadingInv, ReadingTypeOK, Relays
      <4> QED BY <1>1, <2>1, <3>3, <3>4, <4>1 DEF ShownInv, Alone
    <3> QED BY <1>1, <3>4, <3>5, <3>6, AloneInv DEF ModalInv
  <2> QED BY <2>2, <2>3
<1> QED BY <1>2, <1>3

LEMMA GetAnswerInv ==
  ASSUME ClientInv, GetAnswer, toClient' = Tail(toClient), UNCHANGED <<serverVars, toServer, link>>
  PROVE  ClientInv'
<1>1. toClient # <<>>
  BY DEF GetAnswer
<1>2. PICK r \in Failures \cup Answers \cup Patches : toClient = <<r>>
  BY <1>1 DEF ClientInv, ReadingInv, NetworkInv
<1>3. Head(toClient) = r /\ Tail(toClient) = <<>> /\ toServer = <<>>
  BY <1>1, <1>2 DEF ClientInv, ReadingInv, NetworkInv
<1>4. r \in Failures \cup Answers /\ \A m \in Patches : toClient # <<m>>
  <2>1. \A m : toClient = <<m>> => m = r
    BY <1>2
  <2> QED BY <1>2, <1>3, <2>1, SaidApart DEF GetAnswer
<1>5. Alone
  BY <1>3 DEF Alone, GetAnswer, Settle, serverVars, clientVars
<1>6. CASE Settle(r.of, r)
  <2>1. r.of \in Commands
    BY <1>4 DEF Failures, Answers
  <2>2. r.ok = FALSE \/ r \in Answers
    BY <1>4, SaidApart
  <2> QED BY <1>2, <1>4, <1>5, <1>6, <2>1, <2>2, SettleInv
<1>7. CASE UNCHANGED clientVars
  <2>1. view' = view /\ modal' = modal
    BY <1>7 DEF clientVars
  <2>2. CarriersInv => CarriersInv'
    BY <1>5, <2>1, AloneCarries
  <2>3. ShownInv => ShownInv'
    BY <1>5, <2>1 DEF ShownInv, Alone
  <2>4. modal = NoModal => modal' = NoModal'
    BY <2>1 DEF NoModal, NoData
  <2>5. ModalInv'
    BY <2>2, <2>3, <2>4 DEF ClientInv, ModalInv
  <2>6. link => sent.summary <= view.summary
    BY <1>4 DEF ClientInv, SummaryInv
  <2> QED BY <1>5, <2>1, <2>5, <2>6, AloneInv DEF ClientInv, SummaryInv, ReadingInv, ReadingTypeOK
<1> QED BY <1>3, <1>6, <1>7 DEF GetAnswer

LEMMA FailsInv == ASSUME ClientInv, Quiet, Fails PROVE ClientInv'
<1>1. Alone
  BY DEF Fails, Quiet, serverVars, networkVars, Alone, ClosePlan, RefsExpire, GivesUp, Settle
<1>2. /\ \A m : toClient # <<m>>
      /\ view.summary <= relay.summary /\ (link => sent.summary <= view.summary)
      /\ view \in Views /\ modal \in Modals
  BY DEF Quiet, ClientInv, SummaryInv, ReadingInv, ReadingTypeOK
<1>3. ASSUME modal' = NoModal, view' = view PROVE ClientInv'
  <2>1. ModalInv' /\ modal' \in Modals
    BY <1>3, NoModalTyped DEF ModalInv, NoModal, NoData
  <2> QED BY <1>1, <1>2, <1>3, <2>1, AloneInv
<1>4. CASE ClosePlan
  BY <1>3, <1>4 DEF ClosePlan
<1>5. CASE RefsExpire
  <2>1. view' = view /\ \E m \in {modal, NoModal} : modal' = Synced(m, view, NoDisc)
    BY <1>5, WithoutReferenceShape DEF RefsExpire
  <2>2. CASE modal' = NoModal
    BY <1>3, <2>1, <2>2
  <2>3. CASE modal' # NoModal
    <3>1. modal # NoModal /\ modal' = Synced(modal, view, NoDisc)
      BY <2>1, <2>3 DEF Synced
    <3>2. CarriersInv /\ ShownInv
      BY <3>1 DEF ClientInv, ModalInv
    <3>3. modal' = modal
      BY <2>3, <3>1, <3>2 DEF Synced, ShownInv
    <3>4. CarriersInv' /\ ShownInv'
      BY <1>1, <2>1, <3>2, <3>3, AloneCarries DEF ShownInv, Alone
    <3> QED BY <1>1, <1>2, <2>1, <3>3, <3>4, AloneInv DEF ModalInv
  <2> QED BY <2>2, <2>3
<1>6. ASSUME NEW c \in Commands, GivesUp(c) PROVE ClientInv'
  <2>1. Settle(c, [ok |-> FALSE]) /\ [ok |-> FALSE].ok = FALSE
    BY <1>6 DEF GivesUp
  <2> QED BY <1>1, <1>2, <2>1, SettleInv
<1> QED BY <1>4, <1>5, <1>6 DEF Fails

\* What the client sends has a number of its own.
LEMMA SendsInv ==
  ASSUME ClientInv, Quiet, NEW c \in Commands, NEW kind \in {"read", "discover"}, NEW plan \in Plans,
         Sends(c, kind, plan), UNCHANGED <<serverVars, toClient, link, view>>,
         modal' \in Modals, ModalInv'
  PROVE  ClientInv'
<1> DEFINE m == [of |-> c, kind |-> kind, session |-> view.session, plan |-> plan]
<1>1. /\ ReadingTypeOK /\ view \in Views /\ issued \in Nat /\ toServer = <<>> /\ toClient = <<>>
  BY DEF ClientInv, ReadingInv, ReadingTypeOK, Quiet
<1>2. m \in Asked /\ m.of = c
  BY <1>1 DEF Asked, Views
<1>3. issued' = issued + 1 /\ c = issued + 1 /\ toServer' = Append(<<>>, m)
  BY <1>1 DEF Sends
<1> HIDE DEF m
<1>4. toServer' = <<m>> /\ issued' \in Nat /\ c \in 1 .. issued' /\ 1 .. issued \subseteq 1 .. issued'
  BY <1>1, <1>3
<1>5. /\ relay' = relay /\ sent' = sent /\ scope' = scope /\ req' = req /\ link' = link
      /\ toClient' = toClient /\ view' = view
  BY DEF serverVars
<1>6. ReadingTypeOK'
  BY <1>1, <1>4, <1>5 DEF ReadingTypeOK
<1>7. NetworkInv'
  BY <1>1, <1>2, <1>4, <1>5 DEF NetworkInv, ClientInv, ReadingInv, Running
<1>8. SummaryInv'
  BY <1>5 DEF ClientInv, SummaryInv
<1> QED BY <1>6, <1>7, <1>8 DEF ClientInv, ReadingInv

\* A request nobody has made before, and the window that waits for it.
LEMMA FreshRequest ==
  ASSUME ClientInv, Quiet, NEW c \in Commands, NEW plan \in Plans, Sends(c, "read", plan),
         UNCHANGED <<serverVars, toClient, link, view>>,
         modal' \in Modals, modal'.awaits = c, modal'.plan = plan, modal'.session = view.session,
         modal'.data = NoData, plan = Card => modal'.summary = view.summary, link
  PROVE  ClientInv'
<1> DEFINE m == [of |-> c, kind |-> "read", session |-> view.session, plan |-> plan]
<1>1. issued \in Nat /\ toServer = <<>> /\ toClient = <<>>
  BY DEF ClientInv, ReadingInv, ReadingTypeOK, Quiet
<1>2. /\ issued' = issued + 1 /\ c = issued + 1 /\ toServer' = Append(<<>>, m)
      /\ m.kind = "read" /\ m.plan = plan /\ m.session = view.session
  BY <1>1 DEF Sends
<1> HIDE DEF m
<1>3. c \in 1 .. issued' /\ c \notin 1 .. issued /\ \A x : toServer' = <<x>> => x = m
  BY <1>1, <1>2
<1>4. req' = req /\ toClient' = <<>> /\ view' = view /\ link' = link
  BY <1>1 DEF serverVars
<1>5. ~Running(c)'
  BY <1>3, <1>4 DEF ClientInv, ReadingInv, NetworkInv, Running
<1>6. CarriersInv'
  <2>1. \A x : toClient' # <<x>>
    BY <1>4
  <2> QED BY <1>2, <1>3, <1>5, <2>1 DEF CarriersInv
<1>7. ShownInv'
  BY <1>4 DEF ShownInv, NoData
<1> QED BY <1>6, <1>7, SendsInv DEF ModalInv

LEMMA AsksInv == ASSUME ClientInv, Quiet, Asks PROVE ClientInv'
<1>1. /\ UNCHANGED <<serverVars, toClient, link>> /\ modal \in Modals /\ view \in Views
      /\ issued \in Nat /\ toServer = <<>> /\ toClient = <<>> /\ link' = link /\ req' = req
  BY DEF Asks, ClientInv, ReadingInv, ReadingTypeOK, Quiet, serverVars
<1>2. ASSUME NEW c \in Commands, Discover(c) PROVE ClientInv'
  <2>1. /\ view' = view /\ Sends(c, "discover", NoCommand)
        /\ \E m \in {modal, NoModal} : modal' = Synced(m, view, disc')
    BY <1>2, WithoutReferenceShape DEF Discover
  <2>2. NoCommand \in Plans
    BY DEF Plans
  <2>3. CASE modal' = NoModal
    <3>1. ModalInv' /\ modal' \in Modals
      BY <2>3, NoModalTyped DEF ModalInv, NoModal, NoData
    <3> QED BY <1>1, <2>1, <2>2, <3>1, SendsInv
  <2>4. CASE modal' # NoModal
    <3>1. modal # NoModal /\ modal' = Synced(modal, view, disc')
      BY <2>1, <2>4 DEF Synced
    <3>2. CarriersInv /\ ShownInv
      BY <3>1 DEF ClientInv, ModalInv
    <3>3. modal' = modal
      BY <2>4, <3>1, <3>2 DEF Synced, ShownInv
    <3>4. c = issued + 1 /\ issued' = issued + 1 /\ toClient' = <<>> /\ \A x : toServer' = <<x>> => x.of = c
      BY <1>1, <2>1 DEF Sends
    <3>5. CarriersInv'
      <4>1. modal.awaits # NoCommand => modal.awaits \in 1 .. issued /\ modal.awaits \in 1 .. issued'
                                        /\ modal.awaits # c
        BY <1>1, <3>2, <3>4 DEF CarriersInv
      <4>2. NoCommand \notin Commands /\ \A x : toClient' # <<x>>
        BY <3>4, NoModalTyped
      <4> QED BY <1>1, <3>2, <3>3, <3>4, <4>1, <4>2 DEF CarriersInv, Running
    <3>6. ShownInv'
      BY <1>1, <2>1, <3>2, <3>3 DEF ShownInv, serverVars
    <3> QED BY <1>1, <2>1, <2>2, <3>3, <3>5, <3>6, SendsInv DEF ModalInv
  <2> QED BY <2>3, <2>4
<1>3. ASSUME NEW c \in Commands, NEW plan \in {Card} \cup Commands, OpenPlan(c, plan) PROVE ClientInv'
  <2>1. /\ view' = view /\ link /\ Sends(c, "read", plan) /\ plan \in Plans
        /\ modal' = [NoModal EXCEPT !.plan = plan, !.session = view.session, !.summary = view.summary,
                                    !.awaits = c]
    BY <1>3 DEF OpenPlan, Plans
  <2>2. /\ modal' \in Modals /\ modal'.awaits = c /\ modal'.plan = plan /\ modal'.session = view.session
        /\ modal'.data = NoData /\ modal'.summary = view.summary
    BY <1>1, <2>1, NoModalTyped DEF Modals, Views, NoModal
  <2> QED BY <1>1, <2>1, <2>2, FreshRequest
<1>4. ASSUME NEW c \in Commands, ReadAgain(c) PROVE ClientInv'
  <2>1. CarriersInv /\ ShownInv /\ view' = view
    BY <1>4 DEF ReadAgain, ClientInv, ModalInv
  <2>2. CASE modal' = NoModal /\ UNCHANGED <<issued, waiting, toServer>>
    <3>1. Alone
      BY <1>1, <2>2 DEF Alone, serverVars
    <3>2. ModalInv' /\ modal' \in Modals
      BY <2>2, NoModalTyped DEF ModalInv, NoModal, NoData
    <3>3. view.summary <= relay.summary /\ (link => sent.summary <= view.summary)
      BY <1>1 DEF ClientInv, SummaryInv
    <3> QED BY <1>1, <2>1, <3>1, <3>2, <3>3, AloneInv
  <2>3. CASE modal' = [modal EXCEPT !.awaits = c, !.data = NoData] /\ Sends(c, "read", modal.plan)
    <3>1. /\ modal' \in Modals /\ modal'.awaits = c /\ modal'.plan = modal.plan /\ modal.plan \in Plans
          /\ modal'.session = modal.session /\ modal'.data = NoData /\ modal'.summary = modal.summary
      BY <1>1, <2>3 DEF Modals
    <3> QED BY <1>1, <2>1, <2>3, <3>1, FreshRequest DEF ShownInv
  <2> QED BY <1>4, <2>2, <2>3 DEF ReadAgain
<1> QED BY <1>2, <1>3, <1>4 DEF Asks

--------------------------------------------------------------------------------
(* The client, in every step of the whole.                                 *)

LEMMA ClientStarts == Init => ClientInv
<1> SUFFICES ASSUME Init PROVE ClientInv
  OBVIOUS
<1>1. PICK s \in Sessions : relay = [session |-> s, gen |-> 0, health |-> "live", summary |-> 0]
  BY ReadingAssumption DEF Init, ReadingInit
<1>2. /\ sent = Public /\ scope = [id |-> <<s, TRUE, 0>>, epoch |-> 0, refs |-> NoCommand, busy |-> NoCommand]
      /\ req = [c \in Commands |-> NoRequest] /\ toServer = <<>> /\ toClient = <<>> /\ link = TRUE
      /\ view = [session |-> s, health |-> "live", summary |-> 0, fresh |-> TRUE]
      /\ modal = NoModal /\ issued = 0
  <2>1. relay.session = s
    BY <1>1
  <2> QED BY <2>1, Zenon DEF Init, ReadingInit
<1>3. /\ relay \in Relays /\ sent \in States /\ sent.summary = 0 /\ relay.summary = 0 /\ view.summary = 0
      /\ view \in Views /\ scope \in Scopes
  <2>1. <<s, TRUE, 0>> \in Sessions \X BOOLEAN \X Int /\ "live" \in Healths
    <3>1. TRUE \in BOOLEAN /\ 0 \in Int
      OBVIOUS
    <3>2. \A t \in BOOLEAN : <<s, t, 0>> \in Sessions \X BOOLEAN \X Int
      OBVIOUS
    <3> QED BY <3>1, <3>2 DEF Healths
  <2>2. relay \in Relays /\ relay.summary = 0
    BY <1>1, <2>1 DEF Relays
  <2>3. sent \in States /\ sent.summary = 0
    BY <1>1, <1>2, <2>1 DEF Public, States
  <2>4. view \in Views /\ view.summary = 0
    BY <1>2, <2>1 DEF Views
  <2>5. scope \in Scopes
    BY <1>2, <2>1 DEF Scopes, Plans
  <2> QED BY <2>2, <2>3, <2>4, <2>5
<1>4. ReadingTypeOK
  <2>1. req \in [Commands -> Requests \cup {NoRequest}]
    BY <1>2
  <2>2. link \in BOOLEAN /\ issued \in Nat
    BY <1>2
  <2> QED BY <1>2, <1>3, <2>1, <2>2, NoModalTyped DEF ReadingTypeOK
<1>5. NetworkInv
  BY <1>2 DEF NetworkInv, Running, NoRequest
<1>6. SummaryInv
  BY <1>2, <1>3 DEF SummaryInv
<1> QED BY <1>2, <1>4, <1>5, <1>6 DEF ClientInv, ReadingInv, ModalInv

LEMMA ClientStands == Spec => []ClientInv
<1>1. ASSUME ClientInv, [Next]_vars PROVE ClientInv'
  <2>1. CASE Gets
    <3>1. toClient' = Tail(toClient) /\ UNCHANGED <<serverVars, toServer, link>>
      BY <2>1 DEF Gets
    <3> QED BY <1>1, <2>1, <3>1, GetStateInv, GetAnswerInv DEF Gets
  <2>2. CASE ReceiveCommand /\ UNCHANGED clientVars
    BY <1>1, <2>2, ReceiveInv
  <2>3. CASE Quiet /\ (Asks \/ Fails)
    BY <1>1, <2>3, AsksInv, FailsInv
  <2>4. CASE Quiet /\ (RelayActs \/ OthersAct) /\ UNCHANGED clientVars
    <3>1. \/ PageStep \/ ReferencesExpire \/ StateMoves \/ PageActs \/ CursorActs \/ PatchSent
          \/ \E c \in Commands : Begin(c) \/ Dropped(c) \/ FileNamed(c) \/ PlansFound(c) \/ ReadFile(c)
                                 \/ LaneTimeout(c) \/ Emit(c)
      BY <2>4 DEF RelayActs, OthersAct
    <3> QED BY <1>1, <2>4, <3>1, RelayKeeps, AsBeforeInv, PatchSentInv, EmitInv
  <2>5. CASE Quiet /\ ((Drop /\ LosesSocket) \/ (Reconnect /\ UNCHANGED clientVars))
    BY <1>1, <2>5, DropInv, ReconnectInv
  <2>6. CASE UNCHANGED vars
    <3>1. /\ relay' = relay /\ sent' = sent /\ scope' = scope /\ req' = req /\ link' = link
          /\ toServer' = toServer /\ toClient' = toClient
          /\ view' = view /\ modal' = modal /\ issued' = issued
      BY <2>6 DEF vars, readingVars, serverVars, networkVars, clientVars
    <3>2. ReadingTypeOK' /\ NetworkInv'
      BY <1>1, <3>1 DEF ClientInv, ReadingInv, ReadingTypeOK, NetworkInv, Running
    <3>3. SummaryInv'
      BY <1>1, <3>1 DEF ClientInv, SummaryInv
    <3>4. CarriersInv => CarriersInv'
      BY <3>1 DEF CarriersInv, Running
    <3>5. ShownInv => ShownInv'
      BY <3>1 DEF ShownInv
    <3>6. modal = NoModal => modal' = NoModal'
      BY <3>1 DEF NoModal, NoData
    <3> QED BY <1>1, <3>2, <3>3, <3>4, <3>5, <3>6 DEF ClientInv, ReadingInv, ModalInv
  <2> QED BY <1>1, <2>1, <2>2, <2>3, <2>4, <2>5, <2>6 DEF Next
<1> QED BY <1>1, ClientStarts, PTL DEF Spec

\* The plan a window shows is that of the session beside it, and its text is not older
\* than the summary there; once every patch has arrived they agree.
THEOREM ShownPlanStaysCurrent == Spec => []ShownPlanIsCurrent
<1>1. ASSUME ClientInv, modal.data # NoData
      PROVE  /\ modal.data.session = view.session /\ modal.data.plan = modal.plan
             /\ modal.plan = Card =>
                   /\ modal.data.summary >= view.summary
                   /\ toClient = <<>> /\ sent = Public => modal.data.summary = view.summary
  <2>1. ShownInv
    BY <1>1 DEF ClientInv, ModalInv, NoModal
  <2>2. /\ modal.data.summary \in Int /\ view.summary \in Int /\ relay.summary \in Int
        /\ relay \in Relays
    BY <1>1 DEF ClientInv, ReadingInv, ReadingTypeOK, Modals, Data, Views, Relays
  <2>3. Public.summary = relay.summary
    BY DEF Public
  <2>4. toClient = <<>> => sent.summary <= view.summary
    <3>1. toClient = <<>> => \A m \in Patches : toClient # <<m>>
      OBVIOUS
    <3> QED BY <1>1, <2>1, <3>1 DEF ClientInv, SummaryInv, ShownInv
  <2> QED BY <1>1, <2>1, <2>2, <2>3, <2>4 DEF ShownInv
<1>2. ClientInv => ShownPlanIsCurrent
  BY <1>1 DEF ShownPlanIsCurrent
<1> QED BY <1>2, ClientStands, PTL

--------------------------------------------------------------------------------
(* The document, in every step of the whole.                               *)

LEMMA DocumentStarts == Init => DocumentInv
<1> SUFFICES ASSUME Init PROVE DocumentInv
  OBVIOUS
<1>1. /\ page = NewPage /\ watch = [a \in Attempts |-> NoWatch] /\ reply = NoReply
      /\ flow = NoFlow /\ trace = NoTrace
  BY DEF Init, ReadingInit, DocumentInit, PageInit
<1>2. /\ NewPage \in PageRecords /\ NoWatch \in WatchRecords /\ NoReply \in [status : Statuses, top : Int]
      /\ NoFlow \in Flows /\ NoTrace \in Traces
  BY NoWatchTyped DEF NewPage, PageRecords, Tabs, NoReply, Statuses, NoFlow, Flows, NoTrace, Traces, AnyTab
<1>3. DocumentTypeOK
  BY <1>1, <1>2 DEF DocumentTypeOK, Active, NoFlow
<1>4. InputIsSeen /\ LastInv
  BY <1>1 DEF InputIsSeen, LastInv, NoTrace, NoFlow, Walking, Scrolled
<1>5. WalkInv
  BY <1>1 DEF WalkInv, NoFlow, Walking, Scrolled, Openings, Walks, NoReply
<1> QED BY <1>3, <1>4, <1>5 DEF DocumentInv

\* What the others leave alone.
LEMMA Outside ==
  ASSUME Gets \/ ReceiveCommand \/ Asks \/ Fails \/ Drop \/ Reconnect \/ PatchSent
         \/ ReferencesExpire \/ StateMoves
         \/ \E c \in Commands : Dropped(c) \/ ReadFile(c) \/ Emit(c) \/ LaneTimeout(c)
  PROVE  UNCHANGED documentVars
<1>1. CASE ReceiveCommand
  BY <1>1 DEF ReceiveCommand, ReceiveDiscover, ReceiveRead, Received
<1>2. CASE Gets \/ Asks \/ Fails \/ Drop \/ Reconnect \/ PatchSent \/ ReferencesExpire \/ StateMoves
  BY <1>2 DEF Gets, Asks, Fails, Drop, Reconnect, PatchSent, ReferencesExpire, StateMoves
<1>3. CASE \E c \in Commands : Dropped(c) \/ ReadFile(c) \/ Emit(c) \/ LaneTimeout(c)
  BY <1>3 DEF Dropped, ReadFile, Emit, LaneTimeout
<1> QED BY <1>1, <1>2, <1>3

\* The page and the walk are in order in every state.
LEMMA DocumentStands == Spec => []DocumentInv
<1>1. ASSUME DocumentInv, ReadingTypeOK, [Next]_vars PROVE DocumentInv'
  <2>1. ASSUME NEW c \in Commands, Begin(c) PROVE DocumentInv'
    <3>1. StartFlow(c, req[c].kind, IsCurrent(req[c], relay)) /\ c \in Attempts
      BY <2>1 DEF Begin, Commands
    <3>2. Running(c)
      BY <2>1 DEF Begin, Running
    <3>3. req[c].kind \in {"read", "discover"}
      BY <1>1, <3>2, RequestTyped DEF Requests
    <3> QED BY <1>1, <3>1, <3>3, StartInv
  <2>2. CASE PageStep
    <3>1. FlowStep(Live) /\ Live \in BOOLEAN
      BY <2>2 DEF PageStep, Live, IsCurrent, ScopeCurrent
    <3> QED BY <1>1, <3>1, InPageInv, ReturnsInv, DoneInv DEF FlowStep
  <2>3. ASSUME NEW c \in Commands, FileNamed(c) \/ PlansFound(c) PROVE DocumentInv'
    <3>1. PageOver(c, "read") \/ PageOver(c, "discover")
      BY <2>3 DEF FileNamed, PlansFound
    <3> QED BY <3>1, OverInv DEF PageOver, Commands
  <2>4. CASE PageActs
    BY <1>1, <2>4, UserActsInv, PageMovesInv, ThrowsInv, DoneInv DEF PageActs
  <2>5. CASE CursorActs
    BY <1>1, <2>5, CursorFollowsInv DEF CursorActs
  <2>6. CASE UNCHANGED documentVars
    BY <1>1, <2>6, StandsInv
  <2>7. CASE UNCHANGED vars
    BY <2>6, <2>7 DEF vars, readingVars
  <2>8. CASE Next
    BY <2>1, <2>2, <2>3, <2>4, <2>5, <2>6, <2>8, Outside DEF Next, RelayActs, OthersAct
  <2> QED BY <1>1, <2>7, <2>8
<1>2. ClientInv => ReadingTypeOK
  BY DEF ClientInv, ReadingInv
<1> QED BY <1>1, <1>2, ClientStands, DocumentStarts, PTL DEF Spec

\* A read or a discovery that says it succeeded found the tab and the row as it had left
\* them when it last looked, and no hand in between.
THEOREM FoundAsLeftHolds == Spec => []FoundAsLeft
<1>1. DocumentInv => FoundAsLeft
  BY DEF DocumentInv, LastInv, FoundAsLeft, TabBack, RowBack
<1> QED BY <1>1, DocumentStands, PTL

\* After the user has come in, no step of the walk moves the page.
THEOREM HandsStayOff == Spec => HandsOffAfterInput
<1>1. ASSUME DocumentInv, InPage, trace.input PROVE page' = page
  <2>1. Active /\ ~Undisturbed(flow.attempt)
    BY <1>1 DEF InPage, DocumentInv, InputIsSeen
  <2>2. \A tab, top : ~FlowState(flow.attempt, tab, top)
    BY <2>1 DEF FlowState
  <2>3. Evaluate(flow.attempt, flow.step)
    BY <1>1 DEF InPage
  <2> QED BY <2>2, <2>3 DEF Evaluate, Install, Remove, LookAtWatch, Look, ScrollUp, ClickViewPlan,
                            RestoreTab, RestoreScroll, Refuse, Answer
<1>2. DocumentInv => [InPage /\ trace.input => page' = page]_vars
  BY <1>1
<1> QED BY <1>2, DocumentStands, PTL DEF HandsOffAfterInput
================================================================================
