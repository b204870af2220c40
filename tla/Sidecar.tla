------------------------------- MODULE Sidecar -------------------------------
(***************************************************************************)
(* What a supervisor shows of its sidecar ("Le sidecar ne meurt jamais     *)
(* pour de bon", supervisor/index.ts:3): state, pid and onReady are all    *)
(* the runtime knows of it.  RESTARTING covers a whole respawn.            *)
(*                                                                         *)
(* A sidecar comes into service from a spawn only, never once a stop       *)
(* began; it leaves it by a failure that is counted or by the stop; the    *)
(* breaker opens at the K-th failure that no stable window forgave, and    *)
(* nothing but the end of the process closes it again.                     *)
(***************************************************************************)
EXTENDS Naturals

CONSTANTS Pids, None,
          K              \* circuitBreakerK

VARIABLES
  state,      \* currentState
  pid,        \* the generation in service
  serving,    \* is that process alive; the supervisor may not know yet
  failures,   \* in a row
  closing     \* a stop began

vars == <<state, pid, serving, failures, closing>>

Out == pid' = None /\ serving' = FALSE

Init ==
  /\ state \in {"STOPPED", "SPAWNING"}
  /\ pid = None /\ serving = FALSE /\ failures = 0 /\ closing = FALSE

Start ==
  /\ state = "STOPPED" /\ ~closing
  /\ state' = "SPAWNING"
  /\ UNCHANGED <<pid, serving, failures, closing>>

\* A sidecar may have died between its last answer and its adoption.
Adopt ==
  /\ state \in {"SPAWNING", "RESTARTING"} /\ ~closing
  /\ state' = "READY"
  /\ pid' \in Pids
  /\ serving' \in BOOLEAN
  /\ UNCHANGED <<failures, closing>>

Die ==
  /\ serving
  /\ serving' = FALSE
  /\ UNCHANGED <<state, pid, failures, closing>>

Fail ==
  /\ state \in {"SPAWNING", "RESTARTING", "READY"} /\ ~closing
  /\ failures' = failures + 1
  /\ state' = IF failures' = K THEN "DEGRADED_SANS_VOIX" ELSE "RESTARTING"
  /\ Out
  /\ UNCHANGED closing

Forgive ==
  /\ state = "READY" /\ ~closing
  /\ failures' = 0
  /\ UNCHANGED <<state, pid, serving, closing>>

Close ==
  /\ closing' = TRUE
  /\ UNCHANGED <<state, pid, serving, failures>>

Stop ==
  /\ closing' = TRUE
  /\ state' = "STOPPED" /\ failures' = 0 /\ Out

\* The process that supervises ends.
End == state' = "STOPPED" /\ failures' = 0 /\ Out /\ closing' = FALSE

Next == Start \/ Adopt \/ Die \/ Fail \/ Forgive \/ Close \/ Stop \/ End

Spec == Init /\ [][Next]_vars
=============================================================================
