----------------------------- MODULE MCStateSync -----------------------------
(* Two windows, one browser; a label that changes, then disappears. *)
EXTENDS StateSync

CONSTANTS thinking, running

MCLabelAt == [n \in 0..MaxEdits |-> CASE n = 0 -> thinking
                                      [] n = 1 -> NoLabel
                                      [] OTHER -> NoLabel]
=============================================================================
