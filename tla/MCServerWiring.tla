--------------------------- MODULE MCServerWiring ---------------------------
(* Three pages, two of them of one workspace. *)
EXTENDS ServerWiring, TLC
CONSTANTS A, A2, B, WA, WB
Workspaces == (A :> WA) @@ (A2 :> WA) @@ (B :> WB)
=============================================================================
