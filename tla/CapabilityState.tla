--------------------------- MODULE CapabilityState ---------------------------
(***************************************************************************)
(* What the server knows of a target's modes and models: the record of     *)
(* capability-state-manager.ts, the merging of model catalogues of         *)
(* capability-diff.ts and the guard of capability-guard.ts, as operators   *)
(* on records.  A catalogue is abstracted to whether it has items and how  *)
(* complete it is, as a filtered menu is never complete.                   *)
(***************************************************************************)
EXTENDS Naturals

States == {"unknown", "ok", "stale", "unavailable", "degraded"}
Completeness == {"unknown", "partial", "complete"}
Models == [items: BOOLEAN, completeness: Completeness]
NoModels == [items |-> FALSE, completeness |-> "unknown"]

(***************************************************************************)
(* gen 0 is a target without a record.  Two fields are history, read by no *)
(* operation: since, the generation the record was made in, and whole, the *)
(* last generation a complete menu was read in.                            *)
(***************************************************************************)
Records == [gen: Nat, state: States, models: Models, since: Nat, whole: Nat]
NoRecord == [gen |-> 0, state |-> "unknown", models |-> NoModels, since |-> 0, whole |-> 0]
NewRecord(g) == [NoRecord EXCEPT !.gen = g, !.since = g]

Weaker(a, b) == <<a, b>> \in {<<"unknown", "partial">>, <<"unknown", "complete">>,
                              <<"partial", "complete">>}

(* An incomplete menu adds rows and downgrades nothing. *)
MergeModels(old, seen) ==
    IF ~old.items \/ seen.completeness = "complete" THEN seen
    ELSE [items |-> TRUE,
          completeness |-> IF Weaker(seen.completeness, old.completeness)
                           THEN old.completeness ELSE seen.completeness]

TransitionKeeping(r, g) == [r EXCEPT !.gen = g, !.state = "stale"]

(* A new generation keeps the catalogue and forgets that it was complete. *)
TransitionGeneration(r, g) ==
    [r EXCEPT !.gen = g, !.state = "stale", !.models.completeness = "unknown"]

SetActiveTarget(r, g) ==
    CASE r.gen = 0 -> NewRecord(g)
      [] r.gen # 0 /\ r.gen # g -> TransitionGeneration(r, g)
      [] OTHER -> r

(* applyObserved with models: the merged catalogue, and stale until it is whole. *)
Observe(r, g, state, models) ==
    LET now == IF r.gen = 0 THEN NewRecord(g)
               ELSE IF g > r.gen THEN TransitionGeneration(r, g) ELSE r
        merged == MergeModels(now.models, models)
    IN  IF g < r.gen THEN r
        ELSE [now EXCEPT
                !.state = IF @ = "stale" /\ merged.completeness # "complete"
                          THEN "stale" ELSE state,
                !.models = merged,
                !.whole = IF models.completeness = "complete" THEN g ELSE @]

(* applyObserved without models: a failure, or the tools of an extraction. *)
ObserveState(r, g, state) == Observe(r, g, state, r.models)

MarkStale(r) == IF r.gen = 0 THEN r ELSE [r EXCEPT !.state = "stale"]

(* capabilityAllows: modes need a live record, models a complete catalogue too. *)
Writable(r, kind, g) ==
    /\ r.gen = g
    /\ g > 0
    /\ r.state = "ok"
    /\ kind = "model" => r.models.completeness = "complete"
=============================================================================
