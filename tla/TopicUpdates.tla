------------------------------ MODULE TopicUpdates ------------------------------
(***************************************************************************)
(* src/server/transports/telegram/commands.ts: what a text, a command or a *)
(* button of a forum topic does to the IDE.  A topic stands for one tab of *)
(* one window, so the handler first drives that window, then chooses the   *)
(* tab, and then acts on whatever is in front of it.                       *)
(*                                                                         *)
(* Updates are handled one after the other (telegram-raw/index.ts 106), so *)
(* one is enough.  Nobody else touches the windows: what goes wrong here   *)
(* is the handler's own doing.                                             *)
(***************************************************************************)

CONSTANTS Windows, Tabs,
          NoUpdate, NoPlace   \* model values: no update yet, nothing done yet

VARIABLES
    open,      \* the windows refreshWindows finds
    home,      \* the driven one
    front,     \* the active tab of each window
    seen,      \* StateManager: the active window and the active tab it knows of
    update,    \* the update being handled: its kind, and the window and tab of its topic
    step,      \* where its handler is
    read,      \* handleTextMessage's `state`, read before it waits
    results,   \* commandResultCache: the ids of this update's commands, and what they came to
    place,     \* where the handler acted: a window and a tab
    replied    \* the user was told that the update failed

vars == <<open, home, front, seen, update, step, read, results, place, replied>>

ideVars     == <<open, home, front>>
handlerVars == <<update, read, results, place, replied>>

Kinds == {"text", "prompt", "menu", "button"}

\* genId: a text has one id for all it does; the others take one for each command.
CommandId(call) == IF update.kind = "text" THEN "message" ELSE call

Init ==
    /\ open = Windows
    /\ home \in Windows
    /\ front \in [Windows -> Tabs]
    /\ seen = [window |-> home, tab |-> front[home]]
    /\ update = NoUpdate /\ step = "idle" /\ read = seen
    /\ results = << >> /\ place = NoPlace /\ replied = FALSE

\* The extractor reads the driven page and stores what it read.
Extract ==
    /\ seen' = [seen EXCEPT !.tab = front[home]]
    /\ UNCHANGED <<ideVars, step, handlerVars>>

\* A registered user's update of a mapped topic; the others end where they begin.
Dispatch(k, w, t) ==
    /\ step = "idle"
    /\ update' = [kind |-> k, window |-> w, tab |-> t]
    /\ step' = "route"
    /\ read' = seen
    /\ results' = << >> /\ place' = NoPlace /\ replied' = FALSE
    /\ UNCHANGED <<ideVars, seen>>

Reply ==
    /\ step' = "idle" /\ replied' = TRUE

AlreadyOnWindow ==
    /\ step = "route" /\ seen.window = update.window
    /\ step' = "tab"
    /\ UNCHANGED <<ideVars, seen, handlerVars>>

\* refreshWindows, updateWindows and the search for the window of the topic.
FindWindow ==
    /\ step = "route" /\ seen.window # update.window
    /\ read' = seen
    /\ IF update.window \in open THEN step' = "move" /\ UNCHANGED replied ELSE Reply
    /\ UNCHANGED <<ideVars, seen, update, results, place>>

\* moveHomeWindow; the listener of `connected` has told the StateManager by then.
MoveHomeWindow(ok) ==
    /\ step = "move"
    /\ IF ok THEN /\ home' = update.window
                  /\ seen' = [seen EXCEPT !.window = update.window]
                  /\ step' = "settle" /\ UNCHANGED replied
             ELSE Reply /\ UNCHANGED <<home, seen>>
    /\ UNCHANGED <<open, front, update, read, results, place>>

\* A text sleeps; the others wait for an extraction, but for four seconds at most: with
\* or without one in between.
Settle ==
    /\ step = "settle"
    /\ step' = "tab"
    /\ UNCHANGED <<ideVars, seen, handlerVars>>

\* A text looks at the state it read before the wait (and takes a window in which no
\* tab is active for the right one).
TextIsThere ==
    /\ step = "tab" /\ update.kind = "text" /\ read.tab = update.tab
    /\ step' = "act"
    /\ UNCHANGED <<ideVars, seen, handlerVars>>

\* ensureTopicWindow looks at what is known by now.
CommandIsThere ==
    /\ step = "tab" /\ update.kind # "text" /\ seen.tab = update.tab
    /\ step' = "act"
    /\ UNCHANGED <<ideVars, seen, handlerVars>>

\* getOrRunCommand: an id that has been used is answered with its result, and its
\* command is not run.
Answers(call, ok) ==
    IF CommandId(call) \in DOMAIN results
    THEN ok = results[CommandId(call)] /\ UNCHANGED results
    ELSE results' = [i \in DOMAIN results \cup {CommandId(call)} |->
                        IF i = CommandId(call) THEN ok ELSE results[i]]

Runs(call) == CommandId(call) \notin DOMAIN results

SwitchTab(ok) ==
    /\ step = "tab"
    /\ IF update.kind = "text" THEN read.tab # update.tab ELSE seen.tab # update.tab
    /\ Answers("switchTab", ok)
    /\ front' = IF ok /\ Runs("switchTab") THEN [front EXCEPT ![home] = update.tab] ELSE front
    /\ IF ok THEN step' = "tabbed" /\ UNCHANGED replied ELSE Reply
    /\ UNCHANGED <<open, home, seen, update, read, place>>

\* 500 ms for a text, an extraction or three seconds for the others.
TabSettles ==
    /\ step = "tabbed"
    /\ step' = "act"
    /\ UNCHANGED <<ideVars, seen, handlerVars>>

\* The command that ends the handler, and the reply if it failed.
Finishes(call, ok) ==
    /\ Answers(call, ok)
    /\ place' = IF ok /\ Runs(call) THEN <<home, front[home]>> ELSE place
    /\ IF ok THEN step' = "idle" /\ UNCHANGED replied ELSE Reply
    /\ UNCHANGED <<ideVars, seen, update, read>>

SendText(ok) ==
    /\ step = "act" /\ update.kind = "text"
    /\ Finishes("sendMessage", ok)

\* /plan and /agent: the mode first, if it is another one.
SwitchMode(ok) ==
    /\ step = "act" /\ update.kind = "prompt"
    /\ Answers("setMode", ok) /\ Runs("setMode")
    /\ IF ok THEN UNCHANGED <<step, replied>> ELSE Reply
    /\ UNCHANGED <<ideVars, seen, update, read, place>>

SendPrompt(ok) ==
    /\ step = "act" /\ update.kind = "prompt"
    /\ Finishes("sendMessage", ok)

\* /mode and /model: what the driven page offers becomes the buttons of the reply.
ShowMenu(ok) ==
    /\ step = "act" /\ update.kind = "menu"
    /\ Finishes("getModelOptions", ok)

\* handleCallbackQuery: a button of a menu, of an approval or of a questionnaire.
PressButton(ok) ==
    /\ step = "act" /\ update.kind = "button"
    /\ Finishes("press", ok)

CloseWindow(w) ==
    /\ w # home /\ w \in open
    /\ open' = open \ {w}
    /\ UNCHANGED <<home, front, seen, step, handlerVars>>

Next ==
    \/ Extract
    \/ \E k \in Kinds, w \in Windows, t \in Tabs : Dispatch(k, w, t)
    \/ AlreadyOnWindow \/ FindWindow \/ Settle
    \/ TextIsThere \/ CommandIsThere \/ TabSettles
    \/ \E ok \in BOOLEAN :
          \/ MoveHomeWindow(ok) \/ SwitchTab(ok)
          \/ SendText(ok) \/ SwitchMode(ok) \/ SendPrompt(ok) \/ ShowMenu(ok) \/ PressButton(ok)
    \/ \E w \in Windows : CloseWindow(w)

Spec == Init /\ [][Next]_vars

--------------------------------------------------------------------------------
(* Properties.                                                             *)

\* telegram_prd.md:443 promises that a text of a topic is forwarded to the agent it is
\* mapped to, with the window and the tab switched: when handleTextMessage has returned
\* and nothing was said of a failure, the text was typed, and in that tab.
ForwardedToItsAgent ==
    step = "idle" /\ update # NoUpdate /\ ~replied /\ update.kind = "text"
        => place = <<update.window, update.tab>>

================================================================================
