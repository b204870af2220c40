------------------------------ MODULE HomeLock ------------------------------
(* What the single instance promises: the home is one Sophia's at a time.  *)
(* "Deux instances ne doivent JAMAIS coexister sur une même maison"        *)
(* (boot/single-instance.ts:4-5).                                          *)
CONSTANT Procs

VARIABLE owner    \* the processes that act as the Sophia of this home

Init == owner = {}

Take(p) == owner = {} /\ owner' = {p}
Leave   == owner # {} /\ owner' = {}

Next == Leave \/ \E p \in Procs : Take(p)

Spec == Init /\ [][Next]_owner
=============================================================================
