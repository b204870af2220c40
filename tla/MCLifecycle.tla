---------------------------- MODULE MCLifecycle ----------------------------
(* Lifecycle checked on small bounds; see the .cfg files for their values. *)
EXTENDS Lifecycle
=============================================================================
