----------------------------- MODULE MCGovernor -----------------------------
(* Two tasks: one that thinks (identity, quota) before one that does not. *)
EXTENDS Governor

MCQueue == <<"consolidation", "index">>
=============================================================================
