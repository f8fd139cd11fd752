----------------------------- MODULE ActionRegistry ----------------------------
(***************************************************************************)
(* src/server/action-registry.ts: the opaque ids under which clients may   *)
(* click a button that the server saw, each at most once and only in the   *)
(* generation of the target it was seen in.  One button is enough: buttons *)
(* do not share entries.                                                   *)
(***************************************************************************)
EXTENDS Naturals

CONSTANT MaxActions    \* bound: ids ever handed out

ASSUME RegistryAssumption == MaxActions \in Nat \ {0}

VARIABLE registry

ActionIds == 1 .. MaxActions
NoAction  == 0

Unminted == [state |-> "unminted", generation |-> 0]

RegistryInit == registry = [a \in ActionIds |-> Unminted]

With(a, state) == [registry EXCEPT ![a].state = state]

Unsettled(g) ==
    {a \in ActionIds : registry[a].state \in {"live", "reserved"} /\ registry[a].generation = g}

\* registerObserved keeps the id of a button it knows, reserved or not, and register
\* gives it another once that id was used.  (What is left when the ids of the model are
\* used up stays without one.)
Observed(g) ==
    IF Unsettled(g) # {} THEN CHOOSE a \in Unsettled(g) : TRUE
    ELSE IF \E a \in ActionIds : registry[a].state = "unminted"
    THEN CHOOSE a \in ActionIds : registry[a].state = "unminted"
    ELSE NoAction

RegisterObserved(g) ==
    registry' = IF Observed(g) \in {NoAction} \cup Unsettled(g) THEN registry
                ELSE [registry EXCEPT ![Observed(g)] = [state |-> "live", generation |-> g]]

Reservable(a, g) == registry[a].state = "live" /\ registry[a].generation = g

\* consume: also of an id that was released meanwhile
Consumable(a) == registry[a].state \in {"live", "reserved"}

Released(a) == IF registry[a].state = "reserved" THEN With(a, "live") ELSE registry

\* prune: too old, or one too many; not while it is reserved
Forget(a) ==
    /\ registry[a].state \in {"live", "consumed"}
    /\ registry' = With(a, "removed")

\* invalidateTarget, invalidateGeneration and invalidateAdapter reach reserved ids too.
Remaining(g) ==
    [a \in ActionIds |-> IF registry[a].state # "unminted" /\ registry[a].generation # g
                         THEN [registry[a] EXCEPT !.state = "removed"] ELSE registry[a]]

================================================================================
