--------------------------------- MODULE UiLane --------------------------------
(***************************************************************************)
(* What the coordinator promises those who put work into the lane of a     *)
(* target, without gates, microtasks, generations and cancelled tickets.   *)
(* A call waits in line, has its turn, and is told one answer.  Turns come *)
(* one at a time and in the order of the calls.  The line may be cleared,  *)
(* and whoever has the turn may be told that it took too long: then he     *)
(* keeps the turn until his work has ended, and only what was told to      *)
(* nobody is begun.                                                        *)
(***************************************************************************)
EXTENDS Naturals, Sequences

CONSTANT Tickets

VARIABLES
    line,   \* who waits, in the order of the calls
    turn,   \* who has the turn: one or nobody
    told    \* the answer of each

lane == <<line, turn, told>>

LaneInit ==
    /\ line = << >>
    /\ turn = {}
    /\ told = [t \in Tickets |-> "none"]

InLine == {line[i] : i \in DOMAIN line}
Unknown(t) == t \notin turn \cup InLine /\ told[t] = "none"

\* Only the first answer counts.
Tell(those, answer) ==
    told' = [t \in Tickets |-> IF t \in those /\ told[t] = "none" THEN answer ELSE told[t]]

Call(t) ==
    /\ Unknown(t)
    /\ \/ line' = Append(line, t) /\ UNCHANGED told
       \/ Tell({t}, "generation_changed") /\ UNCHANGED line
    /\ UNCHANGED turn

TakeTurn ==
    /\ turn = {} /\ line # << >>
    /\ turn' = {Head(line)}
    /\ line' = Tail(line)
    /\ UNCHANGED told

EndTurn ==
    /\ turn # {}
    /\ turn' = {}
    /\ \E answer \in {"resolved", "failed"} : Tell(turn, answer)
    /\ UNCHANGED line

Overrun ==
    /\ Tell(turn, "timeout")
    /\ UNCHANGED <<line, turn>>

ClearLine ==
    /\ line' = << >>
    /\ \E reason \in {"generation_changed", "cancelled"} : Tell(turn \cup InLine, reason)
    /\ UNCHANGED turn

LaneNext ==
    \/ \E t \in Tickets : Call(t)
    \/ TakeTurn \/ EndTurn \/ Overrun \/ ClearLine

LaneSpec == LaneInit /\ [][LaneNext]_lane

================================================================================
