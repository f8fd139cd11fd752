------------------------------ MODULE MCSupervision ----------------------------
(***************************************************************************)
(* Model checking of SupervisionHistory: issues and their subjects are     *)
(* interchangeable.                                                        *)
(***************************************************************************)
EXTENDS SupervisionHistory, TLC

MCSymmetry == Permutations(Issues) \cup Permutations(Subjects)

================================================================================
