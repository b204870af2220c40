-------------------------- MODULE Supervisor_proofs --------------------------
(***************************************************************************)
(* The safety properties of the supervisor, for every number of pids, of   *)
(* requests in flight, of tolerated failures, missed beats and retries,    *)
(* and whatever subset of the faults the environment may choose.           *)
(***************************************************************************)
EXTENDS Supervisor, TLAPS

\* TypeOK by kind of data, each kind with the prover that suits it.
TypeSets ==
  /\ proc \in [Pids -> Alive \cup Dead \cup {"free", "foreign"}]
  /\ killed \in SUBSET Pids
  /\ mine \in SUBSET Pids
  /\ pidfile \in Pids \cup {None}
  /\ state \in {"STOPPED", "SPAWNING", "READY", "RESTARTING", "DEGRADED_SANS_VOIX"}
  /\ child \in Pids \cup {None}
  /\ failures \in 0..K
  /\ missCount \in Nat
  /\ timers \in SUBSET {"heartbeat", "restart", "stable"}

TypeFlags ==
  /\ orch \in BOOLEAN
  /\ stopping \in BOOLEAN
  /\ handlingFailure \in BOOLEAN
  /\ heartbeatBusy \in BOOLEAN

TypeRecords ==
  /\ beat \in [Beats -> Beat]
  /\ cycle \in Cycle
  /\ term \in Term

\* A process that has not booted the orchestrator has no memory of one.
DownIsBlank ==
  ~orch => /\ mine = {}
           /\ child = None
           /\ failures = 0
           /\ ~stopping
           /\ ~handlingFailure
           /\ timers = {}
           /\ cycle = IdleCycle
           /\ term = IdleTerm

\* A stop has disarmed every timer, and terminate is a stop.
StopIsQuiet ==
  /\ stopping => timers = {}
  /\ term.pc # "none" => stopping

\* A sidecar in hand is the child or the one spawnCycle polls, never both.
InHand ==
  /\ child # None => cycle.pc = "idle"
  /\ cycle.pc # "wait" => cycle.pid = None
  /\ \A p \in mine : Unkilled(p) => p = child \/ p = cycle.pid
  /\ cycle.pc = "wait" /\ cycle.ready => cycle.pid # None
  /\ cycle.pc = "sleep" => cycle.attempt < Retries
  /\ cycle.exited /\ cycle.pid # None => proc[cycle.pid] = "free"

\* A kill is pending only on a sidecar that runs.
KilledRuns == \A p \in killed : Live(p)

\* What is in hand and runs is on record.
OnRecord ==
  /\ child # None => (Live(child) => pidfile = child)
  /\ cycle.pid # None /\ ~stopping => (Live(cycle.pid) => pidfile = cycle.pid)

\* What terminate works on: the child it found, shot and still on record.
TermInHand ==
  term.pc \in {"sigterm", "sigkill"} \/ (term.pc = "done" /\ ~term.died) =>
    /\ term.pid # None
    /\ cycle.pc = "idle"
    /\ child \in {None, term.pid}
    /\ Live(term.pid) => pidfile = term.pid /\ term.pid \in killed

\* The inductive invariant.
IInv ==
  /\ TypeOK
  /\ DownIsBlank
  /\ Supervised
  /\ StopIsQuiet
  /\ InHand
  /\ KilledRuns
  /\ OnRecord
  /\ TermInHand

\* The inductive invariant without the types.
Bookkeeping ==
  /\ DownIsBlank
  /\ Supervised
  /\ StopIsQuiet
  /\ InHand
  /\ KilledRuns
  /\ OnRecord
  /\ TermInHand

-----------------------------------------------------------------------------
(* Helpers.                                                                *)

\* Shooting concerns pids only.
LEMMA ShotPids ==
  ASSUME NEW p \in Pids \cup {None}
  PROVE  Shot(p) \in SUBSET Pids
  BY DEF Shot

\* The records of the idle coroutines are of their types.
LEMMA IdleTypes ==
  /\ 0 \in 0..Retries /\ 0 \in 0..K
  /\ IdleCycle \in Cycle
  /\ [IdleCycle EXCEPT !.pc = "port"] \in Cycle
  /\ IdleTerm \in Term
  /\ IdleBeat \in Beat
  <1>1. 0 \in 0..Retries /\ 0 \in 0..K
    BY ConstantsAssumption
  <1> QED BY <1>1, Zenon DEF IdleCycle, IdleTerm, IdleBeat, Cycle, Term, Beat

\* A failure that is counted ends in an open breaker or in one armed restart
\* (handleFailure past its guards).
LEMMA FailEffect ==
  ASSUME TypeOK, failures < K, "restart" \notin timers,
         NEW shot \in SUBSET Pids, Fail(shot)
  PROVE  /\ killed' = killed \cup shot \cup Shot(child)
         /\ killed' \in SUBSET Pids
         /\ child' = None
         /\ failures' \in 0..K
         /\ heartbeatBusy' = FALSE
         /\ \/ /\ state' = "DEGRADED_SANS_VOIX"
               /\ handlingFailure' = FALSE
               /\ timers' = {}
               /\ failures' = K
            \/ /\ state' = "RESTARTING"
               /\ handlingFailure' = TRUE
               /\ timers' = {"restart"}
               /\ failures' < K
  <1>1. killed' = killed \cup shot \cup Shot(child) /\ killed' \in SUBSET Pids
    BY DEF TypeOK, Shot, Fail
  <1>2. timers \ {"heartbeat", "stable"} = {}
    BY DEF TypeOK
  <1>3. failures' = failures + 1 /\ failures' \in 0..K
    BY ConstantsAssumption DEF TypeOK, Fail
  <1>4. CASE failures + 1 >= K
    <2>1. failures' = K
      BY <1>3, <1>4, ConstantsAssumption DEF TypeOK
    <2> QED BY <1>1, <1>2, <1>3, <1>4, <2>1, Zenon DEF Fail
  <1>5. CASE ~(failures + 1 >= K)
    <2>1. failures' < K
      BY <1>3, <1>5, ConstantsAssumption DEF TypeOK
    <2>2. timers' = {"restart"}
      BY <1>2, <1>5 DEF Fail
    <2> QED BY <1>1, <1>3, <1>5, <2>1, <2>2, Zenon DEF Fail
  <1> QED BY <1>4, <1>5

-----------------------------------------------------------------------------
(* The two callers of handleFailure that need a case analysis.             *)

\* The readiness failed: a retry in a while, or a counted failure that leaves
\* no sidecar unshot.
LEMMA WaitFailedStep ==
  ASSUME IInv, WaitFailed
  PROVE IInv'
  <1>1. /\ TypeOK /\ orch /\ ~stopping /\ cycle.pc = "wait" /\ state = "SPAWNING" /\ child = None /\ ~handlingFailure
        /\ timers = {} /\ failures < K /\ term.pc = "none" /\ cycle.pid \in Pids \cup {None}
        /\ UNCHANGED <<orch, proc, mine, pidfile, beat, term, missCount, stopping>>
    BY DEF WaitFailed, IInv, Supervised, StopIsQuiet, sup, TypeOK, Cycle, Term
  <1>2. CASE cycle.exited /\ cycle.code3 /\ cycle.attempt < Retries
    <2>1. /\ cycle' = [cycle EXCEPT !.pc = "sleep", !.pid = None]
          /\ UNCHANGED <<killed, sup>>
      BY <1>2 DEF WaitFailed
    <2>2. TypeOK'
      <3>1. cycle' \in Cycle
        BY <1>1, <2>1, Zenon DEF TypeOK, Cycle
      <3> QED BY <1>1, <2>1, <3>1, Zenon DEF TypeOK, sup
    <2>3. InHand'
      BY <1>1, <1>2, <2>1, ConstantsAssumption DEF IInv, InHand, TypeOK, Cycle, Unkilled, Live, Alive, sup
    <2> QED BY <1>1, <1>2, <2>1, <2>2, <2>3 DEF IInv, DownIsBlank, Supervised, StopIsQuiet, KilledRuns, OnRecord, TermInHand, TypeOK, Cycle, Live, sup
  <1>3. CASE ~(cycle.exited /\ cycle.code3 /\ cycle.attempt < Retries)
    <2> DEFINE shot == IF cycle.exited THEN {} ELSE Shot(cycle.pid)
    <2>1. cycle' = IdleCycle /\ Fail(shot) /\ shot \in SUBSET Pids
      BY <1>1, <1>3, ShotPids DEF WaitFailed, HandleFailure
    <2> HIDE DEF shot
    <2>2. /\ killed' = killed \cup shot \cup Shot(child)
         /\ killed' \in SUBSET Pids
         /\ child' = None
         /\ failures' \in 0..K
         /\ heartbeatBusy' = FALSE
         /\ \/ /\ state' = "DEGRADED_SANS_VOIX"
               /\ handlingFailure' = FALSE
               /\ timers' = {}
               /\ failures' = K
            \/ /\ state' = "RESTARTING"
               /\ handlingFailure' = TRUE
               /\ timers' = {"restart"}
               /\ failures' < K
      BY <1>1, <2>1, FailEffect
    <2>3. cycle'.pc = "idle" /\ cycle'.pid = None /\ cycle'.exited = FALSE /\ cycle' \in Cycle
      <3>1. 0 \in 0..Retries BY ConstantsAssumption
      <3> QED BY <2>1, <3>1, Zenon DEF IdleCycle, Cycle
    <2>4. TypeOK'
      <3>1. timers' \in SUBSET {"heartbeat", "restart", "stable"}
        BY <2>2
      <3>2. state' \in {"STOPPED", "SPAWNING", "READY", "RESTARTING", "DEGRADED_SANS_VOIX"}
        BY <2>2
      <3>3. handlingFailure' \in BOOLEAN /\ heartbeatBusy' \in BOOLEAN
        BY <2>2, Zenon
      <3> QED BY <1>1, <2>2, <2>3, <3>1, <3>2, <3>3, Zenon DEF TypeOK
    <2>5. Supervised'
      BY <1>1, <2>2, <2>3, Zenon DEF Supervised
    <2>6. \A p \in mine : ~Unkilled(p)'
      <3>1. CASE cycle.exited
        BY <1>1, <2>2, <3>1, ConstantsAssumption DEF IInv, InHand, TypeOK, Unkilled, Live, Alive
      <3>2. CASE ~cycle.exited
        BY <1>1, <2>2, <3>2, ConstantsAssumption DEF IInv, InHand, TypeOK, Unkilled, Live, Shot, shot
      <3> QED BY <3>1, <3>2
    <2>7. KilledRuns'
      BY <1>1, <2>2 DEF IInv, KilledRuns, Live, Shot, shot
    <2>8. InHand'
      BY <1>1, <2>2, <2>3, <2>6 DEF InHand
    <2> QED BY <1>1, <2>2, <2>3, <2>4, <2>5, <2>7, <2>8 DEF IInv, DownIsBlank, StopIsQuiet, OnRecord, TermInHand
  <1> QED BY <1>2, <1>3

\* A beat is missed: only one that meets a READY supervisor may count a failure.
LEMMA BeatMissStep ==
  ASSUME IInv, NEW b \in Beats, BeatMiss(b)
  PROVE IInv'
  <1>1. /\ TypeOK /\ orch /\ UNCHANGED <<orch, proc, mine, pidfile, stopping, cycle, term>>
        /\ missCount' = missCount + 1 /\ missCount' \in Nat
        /\ beat' = [beat EXCEPT ![b] = IdleBeat]
    BY DEF BeatMiss, IInv, TypeOK
  <1>2. beat' \in [Beats -> Beat]
    BY <1>1, Zenon DEF TypeOK, IdleBeat, Beat
  <1>3. CASE state = "READY" /\ missCount + 1 >= Missed /\ ~stopping
    <2>1. /\ child # None /\ cycle.pc = "idle" /\ failures < K /\ "restart" \notin timers
          /\ ~handlingFailure /\ term.pc = "none" /\ Fail({})
      BY <1>1, <1>3 DEF IInv, Supervised, StopIsQuiet, BeatMiss, HandleFailure, TypeOK, Term
    <2>2. /\ killed' = killed \cup {} \cup Shot(child)
         /\ killed' \in SUBSET Pids
         /\ child' = None
         /\ failures' \in 0..K
         /\ heartbeatBusy' = FALSE
         /\ \/ /\ state' = "DEGRADED_SANS_VOIX"
               /\ handlingFailure' = FALSE
               /\ timers' = {}
               /\ failures' = K
            \/ /\ state' = "RESTARTING"
               /\ handlingFailure' = TRUE
               /\ timers' = {"restart"}
               /\ failures' < K
      BY <1>1, <2>1, FailEffect
    <2>4. TypeOK'
      <3>1. timers' \in SUBSET {"heartbeat", "restart", "stable"}
        BY <2>2
      <3>2. state' \in {"STOPPED", "SPAWNING", "READY", "RESTARTING", "DEGRADED_SANS_VOIX"}
        BY <2>2
      <3>3. handlingFailure' \in BOOLEAN /\ heartbeatBusy' \in BOOLEAN
        BY <2>2, Zenon
      <3> QED BY <1>1, <1>2, <2>2, <3>1, <3>2, <3>3, Zenon DEF TypeOK
    <2>5. Supervised'
      BY <1>1, <2>1, <2>2, Zenon DEF Supervised
    <2>7. KilledRuns'
      BY <1>1, <2>2 DEF IInv, KilledRuns, Live, Shot
    <2>8. InHand'
      BY <1>1, <2>1, <2>2, ConstantsAssumption DEF IInv, InHand, TypeOK, Cycle, Unkilled, Live, Shot
    <2> QED BY <1>1, <1>3, <2>1, <2>2, <2>4, <2>5, <2>7, <2>8 DEF IInv, DownIsBlank, StopIsQuiet, OnRecord, TermInHand, Live
  <1>4. CASE ~(state = "READY" /\ missCount + 1 >= Missed /\ ~stopping)
    <2>1. heartbeatBusy' = FALSE /\ UNCHANGED <<killed, child, failures, handlingFailure, state, timers>>
      <3>1. CASE state = "READY" /\ missCount + 1 >= Missed
        <4>1. HandleFailure({}, FALSE) /\ stopping
          BY <1>4, <3>1 DEF BeatMiss
        <4> QED BY <4>1 DEF HandleFailure
      <3>2. CASE ~(state = "READY" /\ missCount + 1 >= Missed)
        BY <3>2, Zenon DEF BeatMiss
      <3> QED BY <3>1, <3>2
    <2>2. TypeOK'
      BY <1>1, <1>2, <2>1, Zenon DEF TypeOK
    <2>3. Supervised'
      BY <1>1, <1>4, <2>1, ConstantsAssumption DEF IInv, Supervised, TypeOK
    <2> QED BY <1>1, <2>1, <2>2, <2>3 DEF IInv, DownIsBlank, StopIsQuiet, InHand, KilledRuns, OnRecord, TermInHand, Unkilled, Live
  <1> QED BY <1>3, <1>4

\* terminate takes the child in hand, or finds none and is done.
LEMMA TerminateHand ==
  ASSUME IInv, Terminate
  PROVE TermInHand'
  <1>1. CASE child # None /\ proc[child] # "free"
    <2>1. /\ killed' = killed \cup Shot(child) /\ UNCHANGED <<proc, child, pidfile, cycle>>
          /\ term' = [term EXCEPT !.pc = "sigterm", !.pid = child]
          /\ TypeOK /\ OnRecord /\ cycle.pc = "idle"
      BY <1>1 DEF Terminate, IInv, InHand
    <2>2. term'.pid = child /\ term'.pc = "sigterm"
      BY <2>1 DEF TypeOK, Term
    <2> QED BY <1>1, <2>1, <2>2 DEF TermInHand, OnRecord, Live, Shot
  <1>2. CASE ~(child # None /\ proc[child] # "free")
    <2>1. term' = [term EXCEPT !.pc = "done", !.died = TRUE] /\ TypeOK
      BY <1>2 DEF Terminate, TermFinish, IInv
    <2>2. term'.pc = "done" /\ term'.died
      BY <2>1, Zenon DEF TypeOK, Term
    <2> QED BY <2>2, Zenon DEF TermInHand
  <1> QED BY <1>1, <1>2

-----------------------------------------------------------------------------
(* Every step preserves the types.                                         *)

\* One step of any actor keeps every variable in its type.
LEMMA TypeStep ==
  ASSUME IInv, Next
  PROVE  TypeOK'
  <1>1. CASE Boot
    <2>1. TypeSets'
      BY <1>1, ConstantsAssumption, SMTT(20) DEF IInv, TypeOK, TypeSets, Supervised,
           Boot, ShouldBeKilled, Live, Alive, IdleCycle, Dead, vars, os, sup, async
    <2>2. TypeFlags'
      BY <1>1, ZenonT(20) DEF IInv, TypeOK, TypeFlags, Boot, ShouldBeKilled, Live,
           Alive, IdleCycle, vars, os, sup, async
    <2>3. TypeRecords'
      BY <1>1, IdleTypes, ZenonT(20) DEF IInv, TypeOK, TypeRecords, Cycle, Term, Beat,
           Boot, ShouldBeKilled, Live, Alive, vars, os, sup, async
    <2> QED BY <2>1, <2>2, <2>3 DEF TypeOK, TypeSets, TypeFlags, TypeRecords
  <1>2. CASE RestartFires
    <2>1. TypeSets'
      BY <1>2, ConstantsAssumption, SMTT(20) DEF IInv, TypeOK, TypeSets, Supervised,
           RestartFires, IdleCycle, os, Alive, Dead, vars, sup, async
    <2>2. TypeFlags'
      BY <1>2, ZenonT(20) DEF IInv, TypeOK, TypeFlags, RestartFires, IdleCycle, os,
           vars, sup, async
    <2>3. TypeRecords'
      BY <1>2, IdleTypes, ZenonT(20) DEF IInv, TypeOK, TypeRecords, Cycle, Term, Beat,
           RestartFires, os, vars, sup, async
    <2> QED BY <2>1, <2>2, <2>3 DEF TypeOK, TypeSets, TypeFlags, TypeRecords
  <1>3. CASE StableFires
    BY <1>3, ConstantsAssumption, SMTT(20) DEF IInv, TypeOK, StableFires, os, async,
         Alive, Dead, vars, sup
  <1>4. CASE Spawn
    <2>1. TypeSets'
      BY <1>4, ConstantsAssumption, SMTT(20) DEF IInv, TypeOK, TypeSets, Supervised,
           Spawn, Free, sup, Alive, Dead, vars, os, async
    <2>2. TypeFlags'
      BY <1>4, ZenonT(20) DEF IInv, TypeOK, TypeFlags, Spawn, Free, sup, vars, os,
           async
    <2>3. TypeRecords'
      BY <1>4, IdleTypes, ZenonT(20) DEF IInv, TypeOK, TypeRecords, Cycle, Term, Beat,
           Spawn, Free, sup, vars, os, async
    <2> QED BY <2>1, <2>2, <2>3 DEF TypeOK, TypeSets, TypeFlags, TypeRecords
  <1>5. CASE SpawnError
    <2>1. TypeSets'
      BY <1>5, ConstantsAssumption, SMTT(20) DEF IInv, TypeOK, TypeSets, Supervised,
           SpawnError, os, sup, Alive, Dead, vars, async
    <2>2. TypeFlags'
      BY <1>5, ZenonT(20) DEF IInv, TypeOK, TypeFlags, SpawnError, os, sup, vars,
           async
    <2>3. TypeRecords'
      BY <1>5, IdleTypes, ZenonT(20) DEF IInv, TypeOK, TypeRecords, Cycle, Term, Beat,
           SpawnError, os, sup, vars, async
    <2> QED BY <2>1, <2>2, <2>3 DEF TypeOK, TypeSets, TypeFlags, TypeRecords
  <1>6. CASE HealthAnswer
    <2>1. TypeSets'
      BY <1>6, ConstantsAssumption, SMTT(20) DEF IInv, TypeOK, TypeSets, Supervised,
           HealthAnswer, os, sup, Alive, Dead, vars, async
    <2>2. TypeFlags'
      BY <1>6, ZenonT(20) DEF IInv, TypeOK, TypeFlags, HealthAnswer, os, sup, vars,
           async
    <2>3. TypeRecords'
      BY <1>6, IdleTypes, ZenonT(20) DEF IInv, TypeOK, TypeRecords, Cycle, Term, Beat,
           HealthAnswer, os, sup, vars, async
    <2> QED BY <2>1, <2>2, <2>3 DEF TypeOK, TypeSets, TypeFlags, TypeRecords
  <1>7. CASE WaitStopped
    <2>1. TypeSets'
      BY <1>7, ConstantsAssumption, SMTT(20) DEF IInv, TypeOK, TypeSets, Supervised,
           WaitStopped, Live, Alive, IdleCycle, sup, Cycle, Dead, vars, os, async
    <2>2. TypeFlags'
      BY <1>7, ZenonT(20) DEF IInv, TypeOK, TypeFlags, WaitStopped, Live, Alive,
           IdleCycle, sup, vars, os, async
    <2>3. TypeRecords'
      BY <1>7, IdleTypes, ZenonT(20) DEF IInv, TypeOK, TypeRecords, Cycle, Term, Beat,
           WaitStopped, Live, Alive, sup, vars, os, async
    <2> QED BY <2>1, <2>2, <2>3 DEF TypeOK, TypeSets, TypeFlags, TypeRecords
  <1>8. CASE WaitReady
    <2>1. TypeSets'
      BY <1>8, ConstantsAssumption, SMTT(20) DEF IInv, TypeOK, TypeSets, Supervised,
           WaitReady, IdleCycle, os, Cycle, Alive, Dead, vars, sup, async
    <2>2. TypeFlags'
      BY <1>8, ZenonT(20) DEF IInv, TypeOK, TypeFlags, WaitReady, IdleCycle, os, vars,
           sup, async
    <2>3. TypeRecords'
      BY <1>8, IdleTypes, ZenonT(20) DEF IInv, TypeOK, TypeRecords, Cycle, Term, Beat,
           WaitReady, os, vars, sup, async
    <2> QED BY <2>1, <2>2, <2>3 DEF TypeOK, TypeSets, TypeFlags, TypeRecords
  <1>9. CASE WaitFailed
    BY <1>9, WaitFailedStep DEF IInv
  <1>10. CASE RetrySpawn
    <2>1. TypeSets'
      BY <1>10, ConstantsAssumption, SMTT(20) DEF IInv, TypeOK, TypeSets, Supervised,
           RetrySpawn, IdleCycle, os, sup, Alive, Dead, vars, async
    <2>2. TypeFlags'
      BY <1>10, ZenonT(20) DEF IInv, TypeOK, TypeFlags, RetrySpawn, IdleCycle, os,
           sup, vars, async
    <2>3. TypeRecords'
      <3>1. TypeOK /\ cycle \in Cycle /\ cycle.attempt < Retries
        BY <1>10 DEF RetrySpawn, IInv, TypeOK, InHand
      <3>2. cycle.attempt + 1 \in 0..Retries
        BY <3>1, ConstantsAssumption DEF Cycle
      <3>3. [cycle EXCEPT !.pc = "port", !.attempt = @ + 1] \in Cycle
        BY <3>1, <3>2, Zenon DEF Cycle
      <3> QED BY <1>10, <3>1, <3>3, IdleTypes, Zenon DEF RetrySpawn, TypeRecords, TypeOK
    <2> QED BY <2>1, <2>2, <2>3 DEF TypeOK, TypeSets, TypeFlags, TypeRecords
  <1>11. ASSUME NEW b \in Beats, BeatSend(b)
         PROVE  TypeOK'
    <2>1. TypeSets'
      BY <1>11, ConstantsAssumption, SMTT(20) DEF IInv, TypeOK, TypeSets, Supervised,
           BeatSend, IdleBeat, os, Alive, Dead, vars, sup, async
    <2>2. TypeFlags'
      BY <1>11, ZenonT(20) DEF IInv, TypeOK, TypeFlags, BeatSend, IdleBeat, os, vars,
           sup, async
    <2>3. TypeRecords'
      BY <1>11, IdleTypes, ZenonT(20) DEF IInv, TypeOK, TypeRecords, Cycle, Term,
           Beat, BeatSend, os, vars, sup, async
    <2> QED BY <2>1, <2>2, <2>3 DEF TypeOK, TypeSets, TypeFlags, TypeRecords
  <1>12. ASSUME NEW b \in Beats, BeatAnswer(b)
         PROVE  TypeOK'
    <2>1. TypeSets'
      BY <1>12, ConstantsAssumption, SMTT(20) DEF IInv, TypeOK, TypeSets, Supervised,
           BeatAnswer, os, sup, Alive, Dead, vars, async
    <2>2. TypeFlags'
      BY <1>12, ZenonT(20) DEF IInv, TypeOK, TypeFlags, BeatAnswer, os, sup, vars,
           async
    <2>3. TypeRecords'
      BY <1>12, IdleTypes, ZenonT(20) DEF IInv, TypeOK, TypeRecords, Cycle, Term,
           Beat, BeatAnswer, os, sup, vars, async
    <2> QED BY <2>1, <2>2, <2>3 DEF TypeOK, TypeSets, TypeFlags, TypeRecords
  <1>13. ASSUME NEW b \in Beats, BeatOk(b)
         PROVE  TypeOK'
    <2>1. TypeSets'
      BY <1>13, ConstantsAssumption, SMTT(20) DEF IInv, TypeOK, TypeSets, Supervised,
           BeatOk, IdleBeat, os, Alive, Dead, vars, sup, async
    <2>2. TypeFlags'
      BY <1>13, ZenonT(20) DEF IInv, TypeOK, TypeFlags, BeatOk, IdleBeat, os, vars,
           sup, async
    <2>3. TypeRecords'
      BY <1>13, IdleTypes, ZenonT(20) DEF IInv, TypeOK, TypeRecords, Cycle, Term,
           Beat, BeatOk, os, vars, sup, async
    <2> QED BY <2>1, <2>2, <2>3 DEF TypeOK, TypeSets, TypeFlags, TypeRecords
  <1>14. ASSUME NEW b \in Beats, BeatMiss(b)
         PROVE  TypeOK'
    BY <1>14, BeatMissStep DEF IInv
  <1>15. CASE BeginShutdown
    BY <1>15, ConstantsAssumption, SMTT(20) DEF IInv, TypeOK, BeginShutdown, os,
         async, Alive, Dead, vars, sup
  <1>16. CASE Terminate
    <2>1. TypeSets'
      BY <1>16, ConstantsAssumption, SMTT(20) DEF IInv, TypeOK, TypeSets, Supervised,
           Terminate, Shot, Live, Alive, TermFinish, Rest, Dead, vars, os, sup, async
    <2>2. TypeFlags'
      BY <1>16, ZenonT(20) DEF IInv, TypeOK, TypeFlags, Terminate, Shot, Live, Alive,
           TermFinish, Rest, vars, os, sup, async
    <2>3. TypeRecords'
      BY <1>16, IdleTypes, ZenonT(20) DEF IInv, TypeOK, TypeRecords, Cycle, Term,
           Beat, Terminate, Shot, Live, Alive, TermFinish, Rest, vars, os, sup, async
    <2> QED BY <2>1, <2>2, <2>3 DEF TypeOK, TypeSets, TypeFlags, TypeRecords
  <1>17. CASE TermDied
    <2>1. TypeSets'
      BY <1>17, ConstantsAssumption, SMTT(20) DEF IInv, TypeOK, TypeSets, Supervised,
           TermDied, TermFinish, Rest, os, Alive, Dead, vars, sup, async
    <2>2. TypeFlags'
      BY <1>17, ZenonT(20) DEF IInv, TypeOK, TypeFlags, TermDied, TermFinish, Rest,
           os, vars, sup, async
    <2>3. TypeRecords'
      BY <1>17, IdleTypes, ZenonT(20) DEF IInv, TypeOK, TypeRecords, Cycle, Term,
           Beat, TermDied, TermFinish, Rest, os, vars, sup, async
    <2> QED BY <2>1, <2>2, <2>3 DEF TypeOK, TypeSets, TypeFlags, TypeRecords
  <1>18. CASE TermEscalate
    <2>1. TypeSets'
      BY <1>18, ConstantsAssumption, SMTT(20) DEF IInv, TypeOK, TypeSets, Supervised,
           TermEscalate, Shot, Live, Alive, sup, Term, Dead, vars, os, async
    <2>2. TypeFlags'
      BY <1>18, ZenonT(20) DEF IInv, TypeOK, TypeFlags, TermEscalate, Shot, Live,
           Alive, sup, vars, os, async
    <2>3. TypeRecords'
      BY <1>18, IdleTypes, ZenonT(20) DEF IInv, TypeOK, TypeRecords, Cycle, Term,
           Beat, TermEscalate, Shot, Live, Alive, sup, vars, os, async
    <2> QED BY <2>1, <2>2, <2>3 DEF TypeOK, TypeSets, TypeFlags, TypeRecords
  <1>19. CASE TermGiveUp
    <2>1. TypeSets'
      BY <1>19, ConstantsAssumption, SMTT(20) DEF IInv, TypeOK, TypeSets, Supervised,
           TermGiveUp, TermFinish, Rest, os, Alive, Dead, vars, sup, async
    <2>2. TypeFlags'
      BY <1>19, ZenonT(20) DEF IInv, TypeOK, TypeFlags, TermGiveUp, TermFinish, Rest,
           os, vars, sup, async
    <2>3. TypeRecords'
      BY <1>19, IdleTypes, ZenonT(20) DEF IInv, TypeOK, TypeRecords, Cycle, Term,
           Beat, TermGiveUp, TermFinish, Rest, os, vars, sup, async
    <2> QED BY <2>1, <2>2, <2>3 DEF TypeOK, TypeSets, TypeFlags, TypeRecords
  <1>20. CASE Stop
    <2>1. TypeSets'
      BY <1>20, ConstantsAssumption, SMTT(20) DEF IInv, TypeOK, TypeSets, Supervised,
           Stop, Shot, Live, Alive, Rest, async, Dead, vars, os, sup
    <2>2. TypeFlags'
      BY <1>20, ZenonT(20) DEF IInv, TypeOK, TypeFlags, Stop, Shot, Live, Alive, Rest,
           async, vars, os, sup
    <2>3. TypeRecords'
      BY <1>20, IdleTypes, ZenonT(20) DEF IInv, TypeOK, TypeRecords, Cycle, Term,
           Beat, Stop, Shot, Live, Alive, Rest, async, vars, os, sup
    <2> QED BY <2>1, <2>2, <2>3 DEF TypeOK, TypeSets, TypeFlags, TypeRecords
  <1>21. ASSUME NEW p \in Pids, ExitEvent(p)
         PROVE  TypeOK'
    <2>1. TypeSets'
      BY <1>21, ConstantsAssumption, SMTT(20) DEF IInv, TypeOK, TypeSets, Supervised,
           ExitEvent, Dead, HandleFailure, Fail, Shot, Live, Alive, vars, os, sup,
           async
    <2>2. TypeFlags'
      BY <1>21, ZenonT(20) DEF IInv, TypeOK, TypeFlags, ExitEvent, Dead,
           HandleFailure, Fail, Shot, Live, Alive, vars, os, sup, async
    <2>3. TypeRecords'
      BY <1>21, IdleTypes, ZenonT(20) DEF IInv, TypeOK, TypeRecords, Cycle, Term,
           Beat, ExitEvent, Dead, HandleFailure, Fail, Shot, Live, Alive, vars, os,
           sup, async
    <2> QED BY <2>1, <2>2, <2>3 DEF TypeOK, TypeSets, TypeFlags, TypeRecords
  <1>22. ASSUME NEW p \in Pids, Warm(p)
         PROVE  TypeOK'
    BY <1>22, ConstantsAssumption, SMTT(20) DEF IInv, TypeOK, Warm, sup, async, Alive,
         Dead, vars, os
  <1>23. ASSUME NEW p \in Pids, Freeze(p)
         PROVE  TypeOK'
    BY <1>23, ConstantsAssumption, SMTT(20) DEF IInv, TypeOK, Freeze, sup, async,
         Alive, Dead, vars, os
  <1>24. ASSUME NEW p \in Pids, Crash(p)
         PROVE  TypeOK'
    BY <1>24, ConstantsAssumption, SMTT(20) DEF IInv, TypeOK, Crash, Live, Alive,
         Dead, Corpse, sup, async, vars, os
  <1>25. ASSUME NEW p \in Pids, Dies(p)
         PROVE  TypeOK'
    BY <1>25, ConstantsAssumption, SMTT(20) DEF IInv, TypeOK, Dies, Live, Alive,
         Corpse, sup, async, Dead, vars, os
  <1>26. ASSUME NEW p \in Pids, Recycle(p)
         PROVE  TypeOK'
    BY <1>26, ConstantsAssumption, SMTT(20) DEF IInv, TypeOK, Recycle, Free, sup,
         async, Alive, Dead, vars, os
  <1>27. ASSUME NEW p \in Pids, ForeignExits(p)
         PROVE  TypeOK'
    BY <1>27, ConstantsAssumption, SMTT(20) DEF IInv, TypeOK, ForeignExits, sup,
         async, Alive, Dead, vars, os
  <1>28. CASE OrchEnds
    <2>1. TypeSets'
      BY <1>28, ConstantsAssumption, SMTT(20) DEF IInv, TypeOK, TypeSets, Supervised,
           OrchEnds, Live, Alive, IdleBeat, IdleCycle, IdleTerm, Dead, vars, os, sup,
           async
    <2>2. TypeFlags'
      BY <1>28, ZenonT(20) DEF IInv, TypeOK, TypeFlags, OrchEnds, Live, Alive,
           IdleBeat, IdleCycle, IdleTerm, vars, os, sup, async
    <2>3. TypeRecords'
      BY <1>28, IdleTypes, Zenon DEF OrchEnds, TypeRecords
    <2> QED BY <2>1, <2>2, <2>3 DEF TypeOK, TypeSets, TypeFlags, TypeRecords
  <1> QED BY <1>1, <1>2, <1>3, <1>4, <1>5, <1>6, <1>7, <1>8, <1>9, <1>10, <1>11,
       <1>12, <1>13, <1>14, <1>15, <1>16, <1>17, <1>18, <1>19, <1>20, <1>21, <1>22,
       <1>23, <1>24, <1>25, <1>26, <1>27, <1>28
          DEF Next, WaitEnds, Beating, Terminating

-----------------------------------------------------------------------------
(* Every step preserves the relations between the parts of the state.      *)

\* One step of any actor keeps what the parts of the state say of each other.
LEMMA BookkeepingStep ==
  ASSUME IInv, Next
  PROVE  Bookkeeping'
  <1>1. CASE Boot
    BY <1>1, ConstantsAssumption, SMTT(30) DEF Bookkeeping, IInv, TypeOK, DownIsBlank,
         Supervised, StopIsQuiet, InHand, KilledRuns, OnRecord, TermInHand, Boot,
         ShouldBeKilled, Live, Alive, IdleCycle, IdleTerm, Beat, Cycle, Term, Dead,
         Unkilled, vars, os, sup, async
  <1>2. CASE RestartFires
    BY <1>2, ConstantsAssumption, SMTT(30) DEF Bookkeeping, IInv, TypeOK, DownIsBlank,
         Supervised, StopIsQuiet, InHand, KilledRuns, OnRecord, TermInHand,
         RestartFires, IdleCycle, os, IdleTerm, Beat, Cycle, Term, Alive, Dead, Live,
         Unkilled, vars, sup, async
  <1>3. CASE StableFires
    BY <1>3, ConstantsAssumption, SMTT(30) DEF Bookkeeping, IInv, TypeOK, DownIsBlank,
         Supervised, StopIsQuiet, InHand, KilledRuns, OnRecord, TermInHand,
         StableFires, os, async, IdleCycle, IdleTerm, Beat, Cycle, Term, Alive, Dead,
         Live, Unkilled, vars, sup
  <1>4. CASE Spawn
    BY <1>4, ConstantsAssumption, SMTT(30) DEF Bookkeeping, IInv, TypeOK, DownIsBlank,
         Supervised, StopIsQuiet, InHand, KilledRuns, OnRecord, TermInHand, Spawn,
         Free, sup, IdleCycle, IdleTerm, Beat, Cycle, Term, Alive, Dead, Live,
         Unkilled, vars, os, async
  <1>5. CASE SpawnError
    BY <1>5, ConstantsAssumption, SMTT(30) DEF Bookkeeping, IInv, TypeOK, DownIsBlank,
         Supervised, StopIsQuiet, InHand, KilledRuns, OnRecord, TermInHand,
         SpawnError, os, sup, IdleCycle, IdleTerm, Beat, Cycle, Term, Alive, Dead,
         Live, Unkilled, vars, async
  <1>6. CASE HealthAnswer
    BY <1>6, ConstantsAssumption, SMTT(30) DEF Bookkeeping, IInv, TypeOK, DownIsBlank,
         Supervised, StopIsQuiet, InHand, KilledRuns, OnRecord, TermInHand,
         HealthAnswer, os, sup, IdleCycle, IdleTerm, Beat, Cycle, Term, Alive, Dead,
         Live, Unkilled, vars, async
  <1>7. CASE WaitStopped
    BY <1>7, ConstantsAssumption, SMTT(30) DEF Bookkeeping, IInv, TypeOK, DownIsBlank,
         Supervised, StopIsQuiet, InHand, KilledRuns, OnRecord, TermInHand,
         WaitStopped, Live, Alive, IdleCycle, sup, IdleTerm, Beat, Cycle, Term, Dead,
         Unkilled, vars, os, async
  <1>8. CASE WaitReady
    <2>1. DownIsBlank'
      BY <1>8, ConstantsAssumption, SMTT(30) DEF IInv, TypeOK, DownIsBlank,
           Supervised, StopIsQuiet, InHand, KilledRuns, OnRecord, TermInHand,
           WaitReady, IdleCycle, os, IdleTerm, Beat, Cycle, Term, Alive, Dead, Live,
           Unkilled, vars, sup, async
    <2>2. Supervised'
      BY <1>8, ConstantsAssumption, SMTT(30) DEF IInv, TypeOK, DownIsBlank,
           Supervised, StopIsQuiet, InHand, KilledRuns, OnRecord, TermInHand,
           WaitReady, IdleCycle, os, IdleTerm, Beat, Cycle, Term, Alive, Dead, Live,
           Unkilled, vars, sup, async
    <2>3. StopIsQuiet'
      BY <1>8, ConstantsAssumption, SMTT(30) DEF IInv, TypeOK, DownIsBlank,
           Supervised, StopIsQuiet, InHand, KilledRuns, OnRecord, TermInHand,
           WaitReady, IdleCycle, os, IdleTerm, Beat, Cycle, Term, Alive, Dead, Live,
           Unkilled, vars, sup, async
    <2>4. InHand'
      BY <1>8, ConstantsAssumption, SMTT(30) DEF IInv, TypeOK, DownIsBlank,
           Supervised, StopIsQuiet, InHand, KilledRuns, OnRecord, TermInHand,
           WaitReady, IdleCycle, os, IdleTerm, Beat, Cycle, Term, Alive, Dead, Live,
           Unkilled, vars, sup, async
    <2>5. KilledRuns'
      BY <1>8, ConstantsAssumption, SMTT(30) DEF IInv, TypeOK, DownIsBlank,
           Supervised, StopIsQuiet, InHand, KilledRuns, OnRecord, TermInHand,
           WaitReady, IdleCycle, os, IdleTerm, Beat, Cycle, Term, Alive, Dead, Live,
           Unkilled, vars, sup, async
    <2>6. OnRecord'
      BY <1>8, ConstantsAssumption, SMTT(30) DEF IInv, TypeOK, DownIsBlank,
           Supervised, StopIsQuiet, InHand, KilledRuns, OnRecord, TermInHand,
           WaitReady, IdleCycle, os, IdleTerm, Beat, Cycle, Term, Alive, Dead, Live,
           Unkilled, vars, sup, async
    <2>7. TermInHand'
      BY <1>8, ConstantsAssumption, SMTT(30) DEF IInv, TypeOK, DownIsBlank,
           Supervised, StopIsQuiet, InHand, KilledRuns, OnRecord, TermInHand,
           WaitReady, IdleCycle, os, IdleTerm, Beat, Cycle, Term, Alive, Dead, Live,
           Unkilled, vars, sup, async
    <2> QED BY <2>1, <2>2, <2>3, <2>4, <2>5, <2>6, <2>7 DEF Bookkeeping
  <1>9. CASE WaitFailed
    BY <1>9, WaitFailedStep DEF IInv, Bookkeeping
  <1>10. CASE RetrySpawn
    BY <1>10, ConstantsAssumption, SMTT(30) DEF Bookkeeping, IInv, TypeOK,
         DownIsBlank, Supervised, StopIsQuiet, InHand, KilledRuns, OnRecord,
         TermInHand, RetrySpawn, IdleCycle, os, sup, IdleTerm, Beat, Cycle, Term,
         Alive, Dead, Live, Unkilled, vars, async
  <1>11. ASSUME NEW b \in Beats, BeatSend(b)
         PROVE  Bookkeeping'
    BY <1>11, ConstantsAssumption, SMTT(30) DEF Bookkeeping, IInv, TypeOK,
         DownIsBlank, Supervised, StopIsQuiet, InHand, KilledRuns, OnRecord,
         TermInHand, BeatSend, IdleBeat, os, IdleCycle, IdleTerm, Beat, Cycle, Term,
         Alive, Dead, Live, Unkilled, vars, sup, async
  <1>12. ASSUME NEW b \in Beats, BeatAnswer(b)
         PROVE  Bookkeeping'
    BY <1>12, ConstantsAssumption, SMTT(30) DEF Bookkeeping, IInv, TypeOK,
         DownIsBlank, Supervised, StopIsQuiet, InHand, KilledRuns, OnRecord,
         TermInHand, BeatAnswer, os, sup, IdleCycle, IdleTerm, Beat, Cycle, Term,
         Alive, Dead, Live, Unkilled, vars, async
  <1>13. ASSUME NEW b \in Beats, BeatOk(b)
         PROVE  Bookkeeping'
    BY <1>13, ConstantsAssumption, SMTT(30) DEF Bookkeeping, IInv, TypeOK,
         DownIsBlank, Supervised, StopIsQuiet, InHand, KilledRuns, OnRecord,
         TermInHand, BeatOk, IdleBeat, os, IdleCycle, IdleTerm, Beat, Cycle, Term,
         Alive, Dead, Live, Unkilled, vars, sup, async
  <1>14. ASSUME NEW b \in Beats, BeatMiss(b)
         PROVE  Bookkeeping'
    BY <1>14, BeatMissStep DEF IInv, Bookkeeping
  <1>15. CASE BeginShutdown
    BY <1>15, ConstantsAssumption, SMTT(30) DEF Bookkeeping, IInv, TypeOK,
         DownIsBlank, Supervised, StopIsQuiet, InHand, KilledRuns, OnRecord,
         TermInHand, BeginShutdown, os, async, IdleCycle, IdleTerm, Beat, Cycle, Term,
         Alive, Dead, Live, Unkilled, vars, sup
  <1>16. CASE Terminate
    <2>1. DownIsBlank'
      BY <1>16, ConstantsAssumption, SMTT(30) DEF IInv, TypeOK, DownIsBlank,
           Supervised, StopIsQuiet, InHand, KilledRuns, OnRecord, TermInHand,
           Terminate, Shot, Live, Alive, TermFinish, Rest, IdleCycle, IdleTerm, Beat,
           Cycle, Term, Dead, Unkilled, vars, os, sup, async
    <2>2. Supervised'
      BY <1>16, ConstantsAssumption, SMTT(30) DEF IInv, TypeOK, DownIsBlank,
           Supervised, StopIsQuiet, InHand, KilledRuns, OnRecord, TermInHand,
           Terminate, Shot, Live, Alive, TermFinish, Rest, IdleCycle, IdleTerm, Beat,
           Cycle, Term, Dead, Unkilled, vars, os, sup, async
    <2>3. StopIsQuiet'
      BY <1>16, ConstantsAssumption, SMTT(30) DEF IInv, TypeOK, DownIsBlank,
           Supervised, StopIsQuiet, InHand, KilledRuns, OnRecord, TermInHand,
           Terminate, Shot, Live, Alive, TermFinish, Rest, IdleCycle, IdleTerm, Beat,
           Cycle, Term, Dead, Unkilled, vars, os, sup, async
    <2>4. InHand'
      BY <1>16, ConstantsAssumption, SMTT(30) DEF IInv, TypeOK, DownIsBlank,
           Supervised, StopIsQuiet, InHand, KilledRuns, OnRecord, TermInHand,
           Terminate, Shot, Live, Alive, TermFinish, Rest, IdleCycle, IdleTerm, Beat,
           Cycle, Term, Dead, Unkilled, vars, os, sup, async
    <2>5. KilledRuns'
      BY <1>16, ConstantsAssumption, SMTT(30) DEF IInv, TypeOK, DownIsBlank,
           Supervised, StopIsQuiet, InHand, KilledRuns, OnRecord, TermInHand,
           Terminate, Shot, Live, Alive, TermFinish, Rest, IdleCycle, IdleTerm, Beat,
           Cycle, Term, Dead, Unkilled, vars, os, sup, async
    <2>6. OnRecord'
      BY <1>16, ConstantsAssumption, SMTT(30) DEF IInv, TypeOK, DownIsBlank,
           Supervised, StopIsQuiet, InHand, KilledRuns, OnRecord, TermInHand,
           Terminate, Shot, Live, Alive, TermFinish, Rest, IdleCycle, IdleTerm, Beat,
           Cycle, Term, Dead, Unkilled, vars, os, sup, async
    <2>7. TermInHand'
      BY <1>16, TerminateHand
    <2> QED BY <2>1, <2>2, <2>3, <2>4, <2>5, <2>6, <2>7 DEF Bookkeeping
  <1>17. CASE TermDied
    BY <1>17, ConstantsAssumption, SMTT(30) DEF Bookkeeping, IInv, TypeOK,
         DownIsBlank, Supervised, StopIsQuiet, InHand, KilledRuns, OnRecord,
         TermInHand, TermDied, TermFinish, Rest, os, IdleCycle, IdleTerm, Beat, Cycle,
         Term, Alive, Dead, Live, Unkilled, vars, sup, async
  <1>18. CASE TermEscalate
    BY <1>18, ConstantsAssumption, SMTT(30) DEF Bookkeeping, IInv, TypeOK,
         DownIsBlank, Supervised, StopIsQuiet, InHand, KilledRuns, OnRecord,
         TermInHand, TermEscalate, Shot, Live, Alive, sup, IdleCycle, IdleTerm, Beat,
         Cycle, Term, Dead, Unkilled, vars, os, async
  <1>19. CASE TermGiveUp
    BY <1>19, ConstantsAssumption, SMTT(30) DEF Bookkeeping, IInv, TypeOK,
         DownIsBlank, Supervised, StopIsQuiet, InHand, KilledRuns, OnRecord,
         TermInHand, TermGiveUp, TermFinish, Rest, os, IdleCycle, IdleTerm, Beat,
         Cycle, Term, Alive, Dead, Live, Unkilled, vars, sup, async
  <1>20. CASE Stop
    BY <1>20, ConstantsAssumption, SMTT(30) DEF Bookkeeping, IInv, TypeOK,
         DownIsBlank, Supervised, StopIsQuiet, InHand, KilledRuns, OnRecord,
         TermInHand, Stop, Shot, Live, Alive, Rest, async, IdleCycle, IdleTerm, Beat,
         Cycle, Term, Dead, Unkilled, vars, os, sup
  <1>21. ASSUME NEW p \in Pids, ExitEvent(p)
         PROVE  Bookkeeping'
    BY <1>21, ConstantsAssumption, SMTT(30) DEF Bookkeeping, IInv, TypeOK,
         DownIsBlank, Supervised, StopIsQuiet, InHand, KilledRuns, OnRecord,
         TermInHand, ExitEvent, Dead, HandleFailure, Fail, Shot, Live, Alive,
         IdleCycle, IdleTerm, Beat, Cycle, Term, Unkilled, vars, os, sup, async
  <1>22. ASSUME NEW p \in Pids, Warm(p)
         PROVE  Bookkeeping'
    BY <1>22, ConstantsAssumption, SMTT(30) DEF Bookkeeping, IInv, TypeOK,
         DownIsBlank, Supervised, StopIsQuiet, InHand, KilledRuns, OnRecord,
         TermInHand, Warm, sup, async, IdleCycle, IdleTerm, Beat, Cycle, Term, Alive,
         Dead, Live, Unkilled, vars, os
  <1>23. ASSUME NEW p \in Pids, Freeze(p)
         PROVE  Bookkeeping'
    BY <1>23, ConstantsAssumption, SMTT(30) DEF Bookkeeping, IInv, TypeOK,
         DownIsBlank, Supervised, StopIsQuiet, InHand, KilledRuns, OnRecord,
         TermInHand, Freeze, sup, async, IdleCycle, IdleTerm, Beat, Cycle, Term,
         Alive, Dead, Live, Unkilled, vars, os
  <1>24. ASSUME NEW p \in Pids, Crash(p)
         PROVE  Bookkeeping'
    BY <1>24, ConstantsAssumption, SMTT(30) DEF Bookkeeping, IInv, TypeOK,
         DownIsBlank, Supervised, StopIsQuiet, InHand, KilledRuns, OnRecord,
         TermInHand, Crash, Live, Alive, Dead, Corpse, sup, async, IdleCycle,
         IdleTerm, Beat, Cycle, Term, Unkilled, vars, os
  <1>25. ASSUME NEW p \in Pids, Dies(p)
         PROVE  Bookkeeping'
    BY <1>25, ConstantsAssumption, SMTT(30) DEF Bookkeeping, IInv, TypeOK,
         DownIsBlank, Supervised, StopIsQuiet, InHand, KilledRuns, OnRecord,
         TermInHand, Dies, Live, Alive, Corpse, sup, async, IdleCycle, IdleTerm, Beat,
         Cycle, Term, Dead, Unkilled, vars, os
  <1>26. ASSUME NEW p \in Pids, Recycle(p)
         PROVE  Bookkeeping'
    BY <1>26, ConstantsAssumption, SMTT(30) DEF Bookkeeping, IInv, TypeOK,
         DownIsBlank, Supervised, StopIsQuiet, InHand, KilledRuns, OnRecord,
         TermInHand, Recycle, Free, sup, async, IdleCycle, IdleTerm, Beat, Cycle,
         Term, Alive, Dead, Live, Unkilled, vars, os
  <1>27. ASSUME NEW p \in Pids, ForeignExits(p)
         PROVE  Bookkeeping'
    BY <1>27, ConstantsAssumption, SMTT(30) DEF Bookkeeping, IInv, TypeOK,
         DownIsBlank, Supervised, StopIsQuiet, InHand, KilledRuns, OnRecord,
         TermInHand, ForeignExits, sup, async, IdleCycle, IdleTerm, Beat, Cycle, Term,
         Alive, Dead, Live, Unkilled, vars, os
  <1>28. CASE OrchEnds
    BY <1>28, ConstantsAssumption, SMTT(30) DEF Bookkeeping, IInv, TypeOK,
         DownIsBlank, Supervised, StopIsQuiet, InHand, KilledRuns, OnRecord,
         TermInHand, OrchEnds, Live, Alive, IdleBeat, IdleCycle, IdleTerm, Beat,
         Cycle, Term, Dead, Unkilled, vars, os, sup, async
  <1> QED BY <1>1, <1>2, <1>3, <1>4, <1>5, <1>6, <1>7, <1>8, <1>9, <1>10, <1>11,
       <1>12, <1>13, <1>14, <1>15, <1>16, <1>17, <1>18, <1>19, <1>20, <1>21, <1>22,
       <1>23, <1>24, <1>25, <1>26, <1>27, <1>28
          DEF Next, WaitEnds, Beating, Terminating

-----------------------------------------------------------------------------
(* The invariant and what follows from it.                                 *)

\* The invariant holds before the first boot.
THEOREM InitInv == Init => IInv
  <1> SUFFICES ASSUME Init PROVE IInv
    OBVIOUS
  <1>1. TypeOK
    <2>1. TypeSets
      BY ConstantsAssumption DEF Init, TypeSets, Alive, Dead
    <2>2. TypeFlags /\ TypeRecords
      BY IdleTypes, Zenon DEF Init, TypeFlags, TypeRecords
    <2> QED BY <2>1, <2>2 DEF TypeOK, TypeSets, TypeFlags, TypeRecords
  <1>2. Bookkeeping
    BY ConstantsAssumption DEF Init, Bookkeeping, DownIsBlank, Supervised, StopIsQuiet, InHand,
       KilledRuns, OnRecord, TermInHand, IdleCycle, IdleTerm
  <1> QED BY <1>1, <1>2 DEF IInv, Bookkeeping

\* No action of the supervisor, of its coroutines or of the system breaks it.
THEOREM NextInv == IInv /\ [Next]_vars => IInv'
  <1>1. CASE Next
    BY <1>1, TypeStep, BookkeepingStep DEF IInv, Bookkeeping
  <1>2. CASE UNCHANGED vars
    <2>1. IInv => TypeOK'
      BY <1>2, Zenon DEF IInv, TypeOK, vars, os, sup, async
    <2>2. IInv => Bookkeeping'
      BY <1>2 DEF IInv, Bookkeeping, DownIsBlank, Supervised, StopIsQuiet, InHand, KilledRuns,
         OnRecord, TermInHand, Unkilled, Live, vars, os, sup, async
    <2> QED BY <2>1, <2>2 DEF IInv, Bookkeeping
  <1> QED BY <1>1, <1>2

\* So it holds throughout, across crashes and boots of the orchestrator.
THEOREM Invariance == Spec => []IInv
  BY InitInv, NextInv, PTL DEF Spec

\* The state of the supervisor keeps its types: the failures never pass the
\* breaker's limit, nor the attempts of a spawn their bound.
THEOREM TypeCorrect == Spec => []TypeOK
  BY Invariance, PTL DEF IInv

\* The supervisor is never silently idle (handleFailure, index.ts:379-402).
THEOREM NeverSilent == Spec => []Supervised
  BY Invariance, PTL DEF IInv

\* No interleaving of crashes, freezes, timeouts, retries and stops leaves two
\* sidecars running unshot (spawnCycle, handleFailure).
THEOREM NeverTwo == Spec => []OneSidecar
  <1>1. IInv => OneSidecar
    BY ConstantsAssumption DEF IInv, InHand, OneSidecar, Unkilled, Live, TypeOK, Cycle
  <1> QED BY <1>1, Invariance, PTL

\* The sidecar that runs is on record, whatever interrupts the boot (m12).
THEOREM AlwaysOnRecord == Spec => []PidfileNamesSidecar
  <1>1. IInv => PidfileNamesSidecar
    BY ConstantsAssumption DEF IInv, InHand, OnRecord, PidfileNamesSidecar, Unkilled, TypeOK
  <1> QED BY <1>1, Invariance, PTL

\* A recycled pid is never killed (the identity token, M2).
THEOREM InnocentsLive == Spec => []NoInnocentKilled
  <1>1. IInv => NoInnocentKilled
    BY DEF IInv, KilledRuns, NoInnocentKilled, Live, Alive
  <1> QED BY <1>1, Invariance, PTL

\* terminate leaves the trace of a sidecar it could not kill (index.ts:485-492).
THEOREM SurvivorKept == Spec => []SurvivorOnRecord
  <1>1. IInv => SurvivorOnRecord
    BY DEF IInv, TermInHand, SurvivorOnRecord
  <1> QED BY <1>1, Invariance, PTL

\* No sidecar that may outlive its orchestrator is without a trace for the next
\* boot: the one in service (m12) and the survivor of a shutdown (:485-492).
THEOREM TraceHolds == Spec => []TraceKept
  BY AlwaysOnRecord, SurvivorKept, PTL DEF TraceKept

\* After a stop nothing is adopted, armed or restarted (m5, F1).
THEOREM StopHolds == Spec => StopIsFinal
  <1> DEFINE Final == stopping /\ orch' =>
       /\ stopping'
       /\ timers' = {}
       /\ child' \in {child, None}
       /\ state' \in {state, "STOPPED"}
  <1>1. IInv /\ Next => Final
    <2> SUFFICES ASSUME IInv, Next, stopping, orch'
                 PROVE  stopping' /\ timers' = {} /\ child' \in {child, None}
                        /\ state' \in {state, "STOPPED"}
      BY DEF Final
    <2>1. timers = {}
      BY DEF IInv, StopIsQuiet
    <2>2. orch
      BY DEF IInv, DownIsBlank
    <2>3. CASE Boot
      BY <2>3, <2>1, <2>2 DEF Boot, ShouldBeKilled, Live, Alive, IdleCycle, vars, os,
           sup, async
    <2>4. CASE RestartFires
      BY <2>4, <2>1, <2>2 DEF RestartFires, IdleCycle, os, vars, sup, async
    <2>5. CASE StableFires
      BY <2>5, <2>1, <2>2 DEF StableFires, os, async, vars, sup
    <2>6. CASE Spawn
      BY <2>6, <2>1, <2>2 DEF Spawn, Free, sup, vars, os, async
    <2>7. CASE SpawnError
      BY <2>7, <2>1, <2>2 DEF SpawnError, os, sup, vars, async
    <2>8. CASE HealthAnswer
      BY <2>8, <2>1, <2>2 DEF HealthAnswer, os, sup, vars, async
    <2>9. CASE WaitStopped
      BY <2>9, <2>1, <2>2 DEF WaitStopped, Live, Alive, IdleCycle, sup, vars, os,
           async
    <2>10. CASE WaitReady
      BY <2>10, <2>1, <2>2 DEF WaitReady, IdleCycle, os, vars, sup, async
    <2>11. CASE WaitFailed
      BY <2>11, <2>1, <2>2 DEF WaitFailed, sup, IdleCycle, HandleFailure, Fail, Shot,
           Live, Alive, vars, os, async
    <2>12. CASE RetrySpawn
      BY <2>12, <2>1, <2>2 DEF RetrySpawn, IdleCycle, os, sup, vars, async
    <2>13. ASSUME NEW b \in Beats, BeatSend(b)
           PROVE  Final
      BY <2>13, <2>1, <2>2 DEF BeatSend, IdleBeat, os, vars, sup, async
    <2>14. ASSUME NEW b \in Beats, BeatAnswer(b)
           PROVE  Final
      BY <2>14, <2>1, <2>2 DEF BeatAnswer, os, sup, vars, async
    <2>15. ASSUME NEW b \in Beats, BeatOk(b)
           PROVE  Final
      BY <2>15, <2>1, <2>2 DEF BeatOk, IdleBeat, os, vars, sup, async
    <2>16. ASSUME NEW b \in Beats, BeatMiss(b)
           PROVE  Final
      BY <2>16, <2>1, <2>2 DEF BeatMiss, IdleBeat, HandleFailure, Fail, Shot, Live,
           Alive, vars, os, sup, async
    <2>17. CASE BeginShutdown
      BY <2>17, <2>1, <2>2 DEF BeginShutdown, os, async, vars, sup
    <2>18. CASE Terminate
      BY <2>18, <2>1, <2>2 DEF Terminate, Shot, Live, Alive, TermFinish, Rest, vars,
           os, sup, async
    <2>19. CASE TermDied
      BY <2>19, <2>1, <2>2 DEF TermDied, TermFinish, Rest, os, vars, sup, async
    <2>20. CASE TermEscalate
      BY <2>20, <2>1, <2>2 DEF TermEscalate, Shot, Live, Alive, sup, vars, os, async
    <2>21. CASE TermGiveUp
      BY <2>21, <2>1, <2>2 DEF TermGiveUp, TermFinish, Rest, os, vars, sup, async
    <2>22. CASE Stop
      BY <2>22, <2>1, <2>2 DEF Stop, Shot, Live, Alive, Rest, async, vars, os, sup
    <2>23. ASSUME NEW p \in Pids, ExitEvent(p)
           PROVE  Final
      BY <2>23, <2>1, <2>2 DEF ExitEvent, Dead, HandleFailure, Fail, Shot, Live,
           Alive, vars, os, sup, async
    <2>24. ASSUME NEW p \in Pids, Warm(p)
           PROVE  Final
      BY <2>24, <2>1, <2>2 DEF Warm, sup, async, vars, os
    <2>25. ASSUME NEW p \in Pids, Freeze(p)
           PROVE  Final
      BY <2>25, <2>1, <2>2 DEF Freeze, sup, async, vars, os
    <2>26. ASSUME NEW p \in Pids, Crash(p)
           PROVE  Final
      BY <2>26, <2>1, <2>2 DEF Crash, Live, Alive, Dead, Corpse, sup, async, vars, os
    <2>27. ASSUME NEW p \in Pids, Dies(p)
           PROVE  Final
      BY <2>27, <2>1, <2>2 DEF Dies, Live, Alive, Corpse, sup, async, vars, os
    <2>28. ASSUME NEW p \in Pids, Recycle(p)
           PROVE  Final
      BY <2>28, <2>1, <2>2 DEF Recycle, Free, sup, async, vars, os
    <2>29. ASSUME NEW p \in Pids, ForeignExits(p)
           PROVE  Final
      BY <2>29, <2>1, <2>2 DEF ForeignExits, sup, async, vars, os
    <2>30. CASE OrchEnds
      BY <2>30, <2>1, <2>2 DEF OrchEnds, Live, Alive, IdleBeat, IdleCycle, IdleTerm,
           vars, os, sup, async
    <2> QED BY <2>3, <2>4, <2>5, <2>6, <2>7, <2>8, <2>9, <2>10, <2>11, <2>12, <2>13,
         <2>14, <2>15, <2>16, <2>17, <2>18, <2>19, <2>20, <2>21, <2>22, <2>23, <2>24,
         <2>25, <2>26, <2>27, <2>28, <2>29, <2>30
            DEF Next, WaitEnds, Beating, Terminating
  <1>2. IInv /\ UNCHANGED vars => Final
    BY DEF IInv, StopIsQuiet, Final, vars, os, sup, async
  <1>3. IInv /\ [Next]_vars => [Final]_vars
    BY <1>1, <1>2
  <1> QED BY <1>3, Invariance, PTL DEF Spec, StopIsFinal

-----------------------------------------------------------------------------
(* The refinement: what the embedder is shown is a Sidecar.                *)

\* Nothing is shown of a process that does not run, and a restart is armed by
\* a failure.
ShownRight ==
  /\ ~orch => state = "STOPPED"
  /\ state = "RESTARTING" => failures > 0

\* A step that leaves the visible state and the life of the child alone shows
\* nothing.
LEMMA QuietStep ==
  ASSUME UNCHANGED <<state, child, failures, stopping>>,
         state = "READY" /\ child # None => (proc'[child] \in Alive <=> proc[child] \in Alive)
  PROVE  UNCHANGED Promise!vars
  BY DEF Promise!vars, ShownState, InService, Serving, Live

\* A failure that is counted, while a sidecar spawns or serves, is the
\* abstract failure: the breaker opens at K exactly.
LEMMA FailStep ==
  ASSUME TypeOK, failures < K, ~stopping, UNCHANGED stopping,
         state \in {"SPAWNING", "READY"},
         NEW shot, Fail(shot)
  PROVE  Promise!Fail
  <1>1. failures' = failures + 1 /\ failures \in Nat /\ K \in Nat
    BY ConstantsAssumption DEF TypeOK, Fail
  <1>2. state' = IF failures' = K THEN "DEGRADED_SANS_VOIX" ELSE "RESTARTING"
    BY <1>1 DEF Fail
  <1>3. ShownState' = state' /\ InService' = None /\ Serving' = FALSE
    BY <1>2 DEF ShownState, InService, Serving
  <1>4. ShownState \in {"SPAWNING", "RESTARTING", "READY"}
    BY DEF ShownState
  <1> QED BY <1>1, <1>2, <1>3, <1>4 DEF Promise!Fail, Promise!Out

\* A call of handleFailure fails the sidecar or, past its guards, shows nothing.
LEMMA HandleStep ==
  ASSUME TypeOK, failures < K, ~stopping, UNCHANGED <<stopping, proc>>,
         state \in {"SPAWNING", "READY"},
         NEW shot, NEW busy, HandleFailure(shot, busy)
  PROVE  Promise!Fail \/ UNCHANGED Promise!vars
  <1>1. CASE handlingFailure
    BY <1>1, QuietStep DEF HandleFailure
  <1>2. CASE ~handlingFailure
    BY <1>2, FailStep DEF HandleFailure
  <1> QED BY <1>1, <1>2

\* A death shows when the child in service dies, and then as a death.
LEMMA DeathStep ==
  ASSUME IInv, NEW p \in Pids, Live(p),
         NEW corpse \in {"dead", "dead3", "free"},
         proc' = [proc EXCEPT ![p] = corpse],
         UNCHANGED <<state, child, failures, stopping>>
  PROVE  Promise!Die \/ UNCHANGED Promise!vars
  <1>1. proc'[p] \notin Alive /\ \A q \in Pids : q # p => proc'[q] = proc[q]
    BY DEF IInv, TypeOK, Alive
  <1>2. child \in Pids \cup {None}
    BY DEF IInv, TypeOK
  <1>3. CASE state = "READY" /\ child = p
    <2>1. Serving /\ Serving' = FALSE
      BY <1>1, <1>3, ConstantsAssumption DEF Serving, Live
    <2>2. UNCHANGED <<ShownState, InService, failures, stopping>>
      BY DEF ShownState, InService
    <2> QED BY <2>1, <2>2 DEF Promise!Die
  <1>4. CASE ~(state = "READY" /\ child = p)
    BY <1>1, <1>2, <1>4, QuietStep
  <1> QED BY <1>3, <1>4

\* What is shown stays right.
LEMMA ShownInv ==
  ASSUME IInv, ShownRight, Next
  PROVE  ShownRight'
  <1> USE DEF ShownRight
  <1>1. TypeOK /\ failures \in Nat /\ K \in Nat /\ ~(0 > 0) /\ failures + 1 > 0
    BY ConstantsAssumption DEF IInv, TypeOK
  <1>2. ASSUME NEW shot, Fail(shot)
        PROVE  state' = "RESTARTING" => failures' > 0
    BY <1>1, <1>2 DEF Fail
  <1>3. ASSUME NEW shot, NEW busy, HandleFailure(shot, busy)
        PROVE  state' = "RESTARTING" => failures' > 0
    BY <1>2, <1>3 DEF HandleFailure
  <1>4. CASE Boot
    BY <1>4 DEF Boot
  <1>5. CASE RestartFires
    BY <1>5 DEF RestartFires, os
  <1>6. CASE StableFires
    <2>1. state # "RESTARTING"
      BY <1>6 DEF IInv, Supervised, StopIsQuiet, StableFires
    <2> QED BY <1>6, <2>1 DEF StableFires, os
  <1>7. CASE Spawn \/ SpawnError \/ HealthAnswer \/ WaitStopped \/ RetrySpawn
    BY <1>7 DEF Spawn, SpawnError, HealthAnswer, WaitStopped, RetrySpawn, os, sup
  <1>8. CASE WaitReady
    BY <1>8 DEF WaitReady, os
  <1>9. CASE WaitFailed
    BY <1>9, <1>3 DEF WaitFailed, sup
  <1>10. ASSUME NEW b \in Beats, BeatSend(b) \/ BeatAnswer(b) \/ BeatOk(b)
         PROVE  ShownRight'
    BY <1>10 DEF BeatSend, BeatAnswer, BeatOk, os, sup
  <1>11. ASSUME NEW b \in Beats, BeatMiss(b)
         PROVE  ShownRight'
    BY <1>11, <1>3 DEF BeatMiss
  <1>12. CASE BeginShutdown
    BY <1>12 DEF BeginShutdown, os
  <1>13. CASE Terminate
    BY <1>13 DEF Terminate, TermFinish, Rest
  <1>14. CASE TermDied \/ TermEscalate \/ TermGiveUp
    BY <1>14 DEF TermDied, TermEscalate, TermGiveUp, TermFinish, Rest, os, sup
  <1>15. CASE Stop
    BY <1>15 DEF Stop, Rest
  <1>16. ASSUME NEW p \in Pids, ExitEvent(p)
         PROVE  ShownRight'
    BY <1>16, <1>3 DEF ExitEvent
  <1>17. ASSUME NEW p \in Pids, Warm(p) \/ Freeze(p) \/ Crash(p) \/ Dies(p)
                                \/ Recycle(p) \/ ForeignExits(p)
         PROVE  ShownRight'
    BY <1>17 DEF Warm, Freeze, Crash, Dies, Recycle, ForeignExits, sup
  <1>18. CASE OrchEnds
    BY <1>18 DEF OrchEnds
  <1> QED BY <1>4, <1>5, <1>6, <1>7, <1>8, <1>9, <1>10, <1>11, <1>12, <1>13, <1>14,
       <1>15, <1>16, <1>17, <1>18
          DEF Next, WaitEnds, Beating, Terminating

\* Every step of the code is a step of the Sidecar, or shows nothing.
LEMMA PromiseStep ==
  ASSUME IInv, ShownRight, Next
  PROVE  Promise!Next \/ UNCHANGED Promise!vars
  <1> DEFINE Kept == Promise!Next \/ UNCHANGED Promise!vars
  <1> SUFFICES Kept
    OBVIOUS
  <1>1. TypeOK /\ failures \in Nat /\ K \in Nat
    BY ConstantsAssumption DEF IInv, TypeOK
  <1>2. CASE Boot
    <2>1. state = "STOPPED" /\ failures = 0 /\ ~stopping
      BY <1>2 DEF Boot, ShownRight, IInv, DownIsBlank
    <2>2. ShownState = "STOPPED" /\ ShownState' = "SPAWNING"
      BY <1>2, <2>1 DEF Boot, ShownState
    <2>3. UNCHANGED <<InService, Serving, failures, stopping>>
      BY <1>2, <2>1 DEF Boot, InService, Serving
    <2> QED BY <2>1, <2>2, <2>3 DEF Promise!Start, Promise!Next
  <1>3. CASE RestartFires
    <2>1. state = "RESTARTING"
      BY <1>3 DEF RestartFires, IInv, Supervised, StopIsQuiet
    <2>2. UNCHANGED <<ShownState, InService, Serving, failures, stopping>>
      BY <1>3, <2>1 DEF RestartFires, ShownRight, ShownState, InService, Serving, os
    <2> QED BY <2>2 DEF Promise!vars
  <1>4. CASE StableFires
    <2>1. state = "READY" /\ ~stopping
      BY <1>4 DEF StableFires, IInv, Supervised, StopIsQuiet
    <2>2. ShownState = "READY" /\ UNCHANGED <<ShownState, InService, Serving>>
      BY <1>4, <2>1 DEF StableFires, ShownState, InService, Serving, Live, os
    <2> QED BY <1>4, <2>1, <2>2 DEF StableFires, Promise!Forgive, Promise!Next
  <1>5. CASE Spawn
    <2>1. PICK p \in Pids : Free(p) /\ proc' = [proc EXCEPT ![p] = "booting"]
      BY <1>5 DEF Spawn
    <2>2. child # None => proc'[child] = proc[child]
      BY <1>1, <2>1 DEF Free, TypeOK
    <2> QED BY <1>5, <2>2, QuietStep DEF Spawn, sup
  <1>6. CASE SpawnError \/ HealthAnswer \/ WaitStopped \/ RetrySpawn
    BY <1>6, QuietStep DEF SpawnError, HealthAnswer, WaitStopped, RetrySpawn, os, sup
  <1>7. CASE WaitReady
    <2>1. cycle.pid \in Pids
      BY <1>7 DEF WaitReady, IInv, InHand, TypeOK, Cycle
    <2>2. state = "SPAWNING"
      BY <1>7 DEF WaitReady, IInv, Supervised
    <2>3. ShownState \in {"SPAWNING", "RESTARTING"}
      BY <2>2 DEF ShownState
    <2>4. ShownState' = "READY" /\ InService' \in Pids /\ Serving' \in BOOLEAN
      BY <1>7, <2>1 DEF WaitReady, ShownState, InService, Serving
    <2> QED BY <1>7, <2>3, <2>4 DEF WaitReady, Promise!Adopt, Promise!Next
  <1>8. CASE WaitFailed
    <2>1. state = "SPAWNING" /\ failures < K /\ ~stopping
      BY <1>8 DEF WaitFailed, IInv, Supervised
    <2>2. UNCHANGED <<stopping, proc>>
      BY <1>8 DEF WaitFailed, sup
    <2>3. CASE UNCHANGED sup
      BY <2>2, <2>3, QuietStep DEF sup
    <2>4. CASE \E shot : HandleFailure(shot, heartbeatBusy)
      BY <1>1, <2>1, <2>2, <2>4, HandleStep DEF Promise!Next
    <2> QED BY <1>8, <2>3, <2>4 DEF WaitFailed
  <1>9. ASSUME NEW b \in Beats, BeatSend(b) \/ BeatAnswer(b) \/ BeatOk(b)
        PROVE  Kept
    BY <1>9, QuietStep DEF BeatSend, BeatAnswer, BeatOk, os, sup
  <1>10. ASSUME NEW b \in Beats, BeatMiss(b)
         PROVE  Kept
    <2>1. UNCHANGED <<stopping, proc>>
      BY <1>10 DEF BeatMiss
    <2>2. CASE ~stopping /\ HandleFailure({}, FALSE) /\ state = "READY"
      <3>1. failures < K
        BY <1>10, <2>2 DEF BeatMiss, IInv, Supervised
      <3> QED BY <1>1, <2>1, <2>2, <3>1, HandleStep DEF Promise!Next
    <2>3. CASE stopping /\ HandleFailure({}, FALSE)
      BY <2>1, <2>3, QuietStep DEF HandleFailure
    <2>4. CASE UNCHANGED <<child, failures, state>>
      BY <2>1, <2>4, QuietStep
    <2> QED BY <1>10, <2>2, <2>3, <2>4 DEF BeatMiss
  <1>11. CASE BeginShutdown
    BY <1>11 DEF BeginShutdown, os, ShownState, InService, Serving, Live,
         Promise!Close, Promise!Next
  <1>12. ASSUME Rest, stopping'
         PROVE  Promise!Stop
    BY <1>1, <1>12 DEF Rest, ShownState, InService, Serving, Promise!Stop, Promise!Out
  <1>13. CASE Terminate
    <2>1. CASE UNCHANGED <<state, child, failures>>
      BY <1>13, <2>1 DEF Terminate, ShownState, InService, Serving, Live,
           Promise!Close, Promise!Next
    <2>2. CASE Rest
      BY <1>12, <1>13, <2>2 DEF Terminate, Promise!Next
    <2> QED BY <1>13, <2>1, <2>2 DEF Terminate, TermFinish
  <1>14. CASE TermDied \/ TermGiveUp
    <2>1. stopping /\ stopping'
      BY <1>14 DEF TermDied, TermGiveUp, IInv, StopIsQuiet
    <2> QED BY <1>12, <1>14, <2>1 DEF TermDied, TermGiveUp, TermFinish, Promise!Next
  <1>15. CASE TermEscalate
    BY <1>15, QuietStep DEF TermEscalate, sup
  <1>16. CASE Stop
    BY <1>12, <1>16 DEF Stop, Promise!Next
  <1>17. ASSUME NEW p \in Pids, ExitEvent(p)
         PROVE  Kept
    <2>1. proc' = [proc EXCEPT ![p] = "free"] /\ proc[p] \notin Alive
      BY <1>17 DEF ExitEvent, Dead, Alive
    <2>2. child # None => (proc'[child] \in Alive <=> proc[child] \in Alive)
      BY <1>1, <2>1 DEF TypeOK, Alive
    <2>3. CASE UNCHANGED <<state, child, failures>>
      BY <1>17, <2>2, <2>3, QuietStep DEF ExitEvent
    <2>4. CASE ~stopping /\ state = "READY" /\ HandleFailure({}, heartbeatBusy)
      <3>1. orch /\ failures < K
        BY <1>17, <2>4 DEF ExitEvent, IInv, Supervised
      <3>2. UNCHANGED stopping
        BY <1>17 DEF ExitEvent
      <3>3. CASE Fail({})
        BY <1>1, <2>4, <3>1, <3>2, <3>3, FailStep DEF Promise!Next
      <3> QED BY <2>3, <2>4, <3>3 DEF HandleFailure
    <2> QED BY <1>17, <2>3, <2>4 DEF ExitEvent
  <1>18. ASSUME NEW p \in Pids, Warm(p) \/ Freeze(p) \/ Recycle(p) \/ ForeignExits(p)
         PROVE  Kept
    <2>1. UNCHANGED <<state, child, failures, stopping>>
      BY <1>18 DEF Warm, Freeze, Recycle, ForeignExits, sup
    <2>2. child # None => (proc'[child] \in Alive <=> proc[child] \in Alive)
      BY <1>1, <1>18 DEF Warm, Freeze, Recycle, ForeignExits, Free, TypeOK, Alive
    <2> QED BY <2>1, <2>2, QuietStep
  <1>19. ASSUME NEW p \in Pids, Crash(p) \/ Dies(p)
         PROVE  Kept
    <2>1. UNCHANGED <<state, child, failures, stopping>>
      BY <1>19 DEF Crash, Dies, sup
    <2>2. PICK corpse \in {"dead", "dead3", "free"} : proc' = [proc EXCEPT ![p] = corpse]
      BY <1>19 DEF Crash, Dies, Corpse, Dead
    <2> QED BY <1>19, <2>1, <2>2, DeathStep DEF Crash, Dies, Promise!Next
  <1>20. CASE OrchEnds
    BY <1>1, <1>20 DEF OrchEnds, ShownState, InService, Serving, Promise!End, Promise!Out,
         Promise!Next
  <1> QED BY <1>2, <1>3, <1>4, <1>5, <1>6, <1>7, <1>8, <1>9, <1>10, <1>11, <1>13, <1>14,
       <1>15, <1>16, <1>17, <1>18, <1>19, <1>20
          DEF Next, WaitEnds, Beating, Terminating

\* The supervisor implements the Sidecar: whatever the interleaving of beats,
\* timers, exits and stops, the embedder sees a sidecar that comes into
\* service from a spawn, leaves it by a counted failure or the stop, degrades
\* at the K-th failure and never returns once a stop began (m5, F1).
THEOREM ImplementsSidecar == Spec => SidecarKept
  <1>1. Init => Promise!Init
    BY ConstantsAssumption
       DEF Init, Promise!Init, ShownState, InService, Serving
  <1>2. Init => ShownRight
    BY DEF Init, ShownRight
  <1>3. IInv /\ ShownRight /\ [Next]_vars => ShownRight'
    BY ShownInv DEF ShownRight, vars, os, sup
  <1>4. Spec => []ShownRight
    BY <1>2, <1>3, Invariance, PTL DEF Spec
  <1>5. UNCHANGED vars => UNCHANGED Promise!vars
    BY QuietStep DEF vars, os, sup
  <1>6. IInv /\ ShownRight /\ [Next]_vars => [Promise!Next]_Promise!vars
    BY <1>5, PromiseStep
  <1> QED BY <1>1, <1>4, <1>6, Invariance, PTL DEF Spec, SidecarKept, Promise!Spec
=============================================================================
