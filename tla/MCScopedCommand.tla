--------------------------- MODULE MCScopedCommand -----------------------------
(***************************************************************************)
(* Model checking of ScopedCommand: the slots of executions and the        *)
(* operation ids are interchangeable.                                      *)
(***************************************************************************)
EXTENDS ScopedCommand, TLC

MCSymmetry == Permutations(Calls) \cup Permutations(Ops)

================================================================================
