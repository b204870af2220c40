----------------------------- MODULE Supervisor -----------------------------
(***************************************************************************)
(* The sidecar supervisor (src/src/orchestrator/supervisor/index.ts).      *)
(*                                                                         *)
(* One orchestrator process owns one sidecar at a time: it spawns it,      *)
(* polls /health until it is ready, beats every heartbeatIntervalMs,       *)
(* restarts it with backoff after a crash or a freeze, opens a circuit     *)
(* breaker after K consecutive failures, and terminates it at shutdown.    *)
(* The code is single-threaded JavaScript: an action below is one run of   *)
(* the event loop, from a callback or the end of an `await` to the next    *)
(* `await`.  What interleaves is the spawnCycle coroutine, the beats in    *)
(* flight, the timers, the 'exit' events, the terminate coroutine and the  *)
(* operating system, which also lets the orchestrator die and boot again.  *)
(*                                                                         *)
(* Abstractions: a generation of the sidecar is named by its pid (the port *)
(* and the identity token go with it); delays are left out, so a timer may *)
(* fire at any time after it is armed; logging and the callbacks of the    *)
(* embedder (onReady, onDegraded) are left out.                            *)
(***************************************************************************)
EXTENDS Naturals, FiniteSets

CONSTANTS
  Pids,       \* process ids the operating system hands out
  Beats,      \* slots for health requests in flight; bounds their number
  None,       \* no process
  K,          \* circuitBreakerK
  Missed,     \* missedHeartbeats
  Retries,    \* toctouRetries
  Faults      \* what the environment may do in this instance, see FaultKinds

FaultKinds ==
  { "quit",      \* the user quits: beginShutdown, then terminate
    "stop",      \* the abrupt stop()
    "crash",     \* the orchestrator process dies, its sidecar may survive it
    "probe" }    \* a probe of orphanCleanup answers wrongly or not at all

ASSUME ConstantsAssumption ==
  /\ None \notin Pids
  /\ K \in Nat \ {0}
  /\ Missed \in Nat \ {0}
  /\ Retries \in Nat
  /\ Faults \subseteq FaultKinds

VARIABLES
  orch,            \* is the orchestrator process alive
  proc,            \* what each pid is running
  killed,          \* pids that were sent SIGKILL and have not died yet
  mine,            \* pids spawned by the current orchestrator process
  pidfile,         \* the pid the pidfile on disk records
  state,           \* SupervisorState
  child,           \* this.child
  failures,        \* this.failures
  missCount,       \* this.missCount
  stopping,        \* this.stopping
  handlingFailure, \* this.handlingFailure
  heartbeatBusy,   \* this.heartbeatBusy
  timers,          \* the timers armed: heartbeat, restart, stable
  beat,            \* the health requests in flight
  cycle,           \* the spawnCycle coroutine
  term             \* the terminate coroutine

os    == <<orch, proc, killed, mine>>
sup   == <<state, child, failures, missCount, stopping, handlingFailure,
           heartbeatBusy, timers>>
async == <<beat, cycle, term>>
vars  == <<os, pidfile, sup, async>>

Alive == {"booting", "healthy", "hung"}
Dead  == {"dead", "dead3"}          \* exited, 'exit' event not delivered yet

Beat  == [pid : Pids \cup {None}, ok : BOOLEAN]
Cycle == [pc : {"idle", "port", "wait", "sleep"}, pid : Pids \cup {None},
          attempt : 0..Retries, exited : BOOLEAN, code3 : BOOLEAN, ready : BOOLEAN]
Term  == [pc : {"none", "sigterm", "sigkill", "done"}, pid : Pids \cup {None},
          exited : BOOLEAN, died : BOOLEAN]

IdleBeat  == [pid |-> None, ok |-> FALSE]
IdleCycle == [pc |-> "idle", pid |-> None, attempt |-> 0, exited |-> FALSE,
              code3 |-> FALSE, ready |-> FALSE]
IdleTerm  == [pc |-> "none", pid |-> None, exited |-> FALSE, died |-> FALSE]

\* What the pids run now, and which of them nobody has asked to die.
Live(p)     == proc[p] \in Alive
Unkilled(p) == Live(p) /\ p \notin killed

\* A pid the operating system may hand out: not running and not one that a
\* handle of the orchestrator still stands for.
Free(p) ==
  /\ proc[p] = "free"
  /\ p # child
  /\ p # cycle.pid
  /\ p # term.pid
  /\ \A b \in Beats : beat[b].pid # p

TypeOK ==
  /\ orch \in BOOLEAN
  /\ proc \in [Pids -> Alive \cup Dead \cup {"free", "foreign"}]
  /\ killed \in SUBSET Pids
  /\ mine \in SUBSET Pids
  /\ pidfile \in Pids \cup {None}
  /\ state \in {"STOPPED", "SPAWNING", "READY", "RESTARTING", "DEGRADED_SANS_VOIX"}
  /\ child \in Pids \cup {None}
  /\ failures \in 0..K
  /\ missCount \in Nat
  /\ stopping \in BOOLEAN
  /\ handlingFailure \in BOOLEAN
  /\ heartbeatBusy \in BOOLEAN
  /\ timers \in SUBSET {"heartbeat", "restart", "stable"}
  /\ beat \in [Beats -> Beat]
  /\ cycle \in Cycle
  /\ term \in Term

Init ==
  /\ orch = FALSE
  /\ proc = [p \in Pids |-> "free"]
  /\ killed = {}
  /\ mine = {}
  /\ pidfile = None
  /\ state = "STOPPED"
  /\ child = None
  /\ failures = 0
  /\ missCount = 0
  /\ stopping = FALSE
  /\ handlingFailure = FALSE
  /\ heartbeatBusy = FALSE
  /\ timers = {}
  /\ beat = [b \in Beats |-> IdleBeat]
  /\ cycle = IdleCycle
  /\ term = IdleTerm

-----------------------------------------------------------------------------
(* Boot: orphanCleanup, then start.                                        *)

\* Bug: the token is not read (before M2).
ShouldBeKilledNoToken(p, probes) == p # None /\ proc[p] # "free" /\ probes

\* orphanShouldBeKilled: the owner is dead, the recorded sidecar lives and
\* its command line carries the token.  A probe that fails, or an owner pid
\* that another process took, makes the answer "no".
ShouldBeKilled(p, probes) == p # None /\ Live(p) /\ probes

\* start(): orphanCleanup, then the first spawnCycle of a fresh instance.
Boot ==
  /\ ~orch
  /\ orch' = TRUE
  /\ \E probes \in IF "probe" \in Faults THEN BOOLEAN ELSE {TRUE} :
       killed' = IF ShouldBeKilled(pidfile, probes)
                 THEN killed \cup {pidfile} ELSE killed
  /\ pidfile' = None
  /\ state' = "SPAWNING"
  /\ cycle' = [IdleCycle EXCEPT !.pc = "port"]
  /\ UNCHANGED <<proc, mine, child, failures, missCount, stopping,
                 handlingFailure, heartbeatBusy, timers, beat, term>>

-----------------------------------------------------------------------------
(* Failure handling, called by the spawn loop, the exit event and a beat.  *)

\* SIGKILL a process if there is one to kill.
Shot(p) == IF p # None /\ Live(p) THEN {p} ELSE {}

\* handleFailure when neither guard returns early: kill the child, count the
\* failure, then open the breaker or arm the restart timer.  The caller has
\* already killed shot.
Fail(shot) ==
  /\ killed' = killed \cup shot \cup Shot(child)
  /\ child' = None
  /\ failures' = failures + 1
  /\ heartbeatBusy' = FALSE
  /\ IF failures + 1 >= K
     THEN /\ state' = "DEGRADED_SANS_VOIX"
          /\ handlingFailure' = FALSE
          /\ timers' = timers \ {"heartbeat", "stable"}
     ELSE /\ state' = "RESTARTING"
          /\ handlingFailure' = TRUE
          /\ timers' = (timers \ {"heartbeat", "stable"}) \cup {"restart"}

\* handleFailure; busy is the value of heartbeatBusy at the call.
HandleFailure(shot, busy) ==
  IF handlingFailure \/ stopping
  THEN /\ killed' = killed \cup shot
       /\ heartbeatBusy' = busy
       /\ UNCHANGED <<child, failures, handlingFailure, state, timers>>
  ELSE Fail(shot)

\* Bug: the guard is not released.
RestartFiresGuarded ==
  /\ orch
  /\ "restart" \in timers
  /\ timers' = timers \ {"restart"}
  /\ state' = "SPAWNING"
  /\ cycle' = [IdleCycle EXCEPT !.pc = "port"]
  /\ UNCHANGED <<os, pidfile, child, failures, missCount, stopping,
                 handlingFailure, heartbeatBusy, beat, term>>

\* The restart timer fires: release the guard, begin a new spawnCycle.
RestartFires ==
  /\ orch
  /\ "restart" \in timers
  /\ timers' = timers \ {"restart"}
  /\ handlingFailure' = FALSE
  /\ state' = "SPAWNING"
  /\ cycle' = [IdleCycle EXCEPT !.pc = "port"]
  /\ UNCHANGED <<os, pidfile, child, failures, missCount, stopping,
                 heartbeatBusy, beat, term>>

\* The stability window elapses: the sidecar held, forget past failures.
StableFires ==
  /\ orch
  /\ "stable" \in timers
  /\ timers' = timers \ {"stable"}
  /\ failures' = 0
  /\ UNCHANGED <<os, pidfile, state, child, missCount, stopping,
                 handlingFailure, heartbeatBusy, async>>

-----------------------------------------------------------------------------
(* spawnCycle.                                                             *)

\* Bug: the pidfile is not written at the spawn (before m12).
SpawnNoPidfile ==
  /\ orch
  /\ cycle.pc = "port"
  /\ \E p \in Pids :
       /\ Free(p)
       /\ proc' = [proc EXCEPT ![p] = "booting"]
       /\ mine' = mine \cup {p}
       /\ cycle' = [cycle EXCEPT !.pc = "wait", !.pid = p, !.exited = FALSE,
                                 !.code3 = FALSE, !.ready = FALSE]
  /\ UNCHANGED <<orch, killed, pidfile, sup, beat, term>>

\* getFreePort resolved: spawn, write the pidfile at once, poll /health.
\* stopping is not read between the top of the loop and here.
Spawn ==
  /\ orch
  /\ cycle.pc = "port"
  /\ \E p \in Pids :
       /\ Free(p)
       /\ proc' = [proc EXCEPT ![p] = "booting"]
       /\ mine' = mine \cup {p}
       /\ pidfile' = p
       /\ cycle' = [cycle EXCEPT !.pc = "wait", !.pid = p, !.exited = FALSE,
                                 !.code3 = FALSE, !.ready = FALSE]
  /\ UNCHANGED <<orch, killed, sup, beat, term>>

\* spawn failed (no interpreter): 'error' instead of a process.
SpawnError ==
  /\ orch
  /\ cycle.pc = "port"
  /\ cycle' = [cycle EXCEPT !.pc = "wait", !.pid = None, !.exited = TRUE,
                            !.code3 = FALSE, !.ready = FALSE]
  /\ UNCHANGED <<os, pidfile, sup, beat, term>>

\* The sidecar answers the poll; the reply is on its way to waitReady.
HealthAnswer ==
  /\ orch
  /\ cycle.pc = "wait"
  /\ cycle.pid # None
  /\ proc[cycle.pid] = "healthy"
  /\ ~cycle.ready
  /\ cycle' = [cycle EXCEPT !.ready = TRUE]
  /\ UNCHANGED <<os, pidfile, sup, beat, term>>

\* Bug: the process in hand is not killed.
WaitStoppedNoKill ==
  /\ orch
  /\ cycle.pc = "wait"
  /\ stopping
  /\ pidfile' = None
  /\ cycle' = IdleCycle
  /\ UNCHANGED <<os, sup, beat, term>>

\* waitReady is over, by a reply or not, and a stop() came meanwhile: kill,
\* forget the pidfile, leave without READY.
WaitStopped ==
  /\ orch
  /\ cycle.pc = "wait"
  /\ stopping
  /\ killed' = IF cycle.pid # None /\ Live(cycle.pid)
               THEN killed \cup {cycle.pid} ELSE killed
  /\ pidfile' = None
  /\ cycle' = IdleCycle
  /\ UNCHANGED <<orch, proc, mine, sup, beat, term>>

\* Bug: stopping is not read after the readiness (before m5).
WaitReadyAnyway ==
  /\ orch
  /\ cycle.pc = "wait"
  /\ cycle.ready
  /\ child' = cycle.pid
  /\ state' = "READY"
  /\ missCount' = 0
  /\ timers' = timers \cup {"heartbeat", "stable"}
  /\ cycle' = IdleCycle
  /\ UNCHANGED <<os, pidfile, failures, stopping, handlingFailure,
                 heartbeatBusy, beat, term>>

\* Bug: the beat is not armed.
WaitReadyNoBeat ==
  /\ orch
  /\ cycle.pc = "wait"
  /\ ~stopping
  /\ cycle.ready
  /\ child' = cycle.pid
  /\ state' = "READY"
  /\ missCount' = 0
  /\ timers' = timers \cup {"stable"}
  /\ cycle' = IdleCycle
  /\ UNCHANGED <<os, pidfile, failures, stopping, handlingFailure,
                 heartbeatBusy, beat, term>>

\* The reply arrives: this generation is the child, whatever 'exit' events
\* were delivered since the sidecar sent it.
WaitReady ==
  /\ orch
  /\ cycle.pc = "wait"
  /\ ~stopping
  /\ cycle.ready
  /\ child' = cycle.pid
  /\ state' = "READY"
  /\ missCount' = 0
  /\ timers' = timers \cup {"heartbeat", "stable"}
  /\ cycle' = IdleCycle
  /\ UNCHANGED <<os, pidfile, failures, stopping, handlingFailure,
                 heartbeatBusy, beat, term>>

\* Bug: a sidecar that missed the readiness deadline is left running.
WaitFailedNoKill ==
  /\ orch
  /\ cycle.pc = "wait"
  /\ ~stopping
  /\ cycle' = IdleCycle
  /\ HandleFailure({}, heartbeatBusy)
  /\ UNCHANGED <<orch, proc, mine, pidfile, missCount, stopping, beat, term>>

\* waitReady returns false: early exit, or the readiness deadline.  A stolen
\* port (exit code 3) is retried after a delay, anything else is a failure.
WaitFailed ==
  /\ orch
  /\ cycle.pc = "wait"
  /\ ~stopping
  /\ IF cycle.exited /\ cycle.code3 /\ cycle.attempt < Retries
     THEN /\ cycle' = [cycle EXCEPT !.pc = "sleep", !.pid = None]
          /\ UNCHANGED <<killed, sup>>
     ELSE /\ cycle' = IdleCycle
          /\ HandleFailure(IF cycle.exited THEN {} ELSE Shot(cycle.pid), heartbeatBusy)
          /\ UNCHANGED <<missCount, stopping>>
  /\ UNCHANGED <<orch, proc, mine, pidfile, beat, term>>

\* The delay before a retry is over; the loop reads stopping again here.
RetrySpawn ==
  /\ orch
  /\ cycle.pc = "sleep"
  /\ cycle' = IF stopping THEN IdleCycle
              ELSE [cycle EXCEPT !.pc = "port", !.attempt = @ + 1]
  /\ UNCHANGED <<os, pidfile, sup, beat, term>>

-----------------------------------------------------------------------------
(* doHeartbeat.                                                            *)

\* The interval ticks: ask the child's port, one request at a time.
BeatSend(b) ==
  /\ orch
  /\ "heartbeat" \in timers
  /\ ~heartbeatBusy
  /\ state = "READY"
  /\ beat[b] = IdleBeat
  /\ heartbeatBusy' = TRUE
  /\ beat' = [beat EXCEPT ![b].pid = child]
  /\ UNCHANGED <<os, pidfile, state, child, failures, missCount, stopping,
                 handlingFailure, timers, cycle, term>>

\* The sidecar answers; the reply is on its way.
BeatAnswer(b) ==
  /\ orch
  /\ beat[b].pid # None
  /\ ~beat[b].ok
  /\ proc[beat[b].pid] = "healthy"
  /\ beat' = [beat EXCEPT ![b].ok = TRUE]
  /\ UNCHANGED <<os, pidfile, sup, cycle, term>>

\* The reply lands.  Nothing compares it with the current generation.
BeatOk(b) ==
  /\ orch
  /\ beat[b].ok
  /\ missCount' = 0
  /\ heartbeatBusy' = FALSE
  /\ beat' = [beat EXCEPT ![b] = IdleBeat]
  /\ UNCHANGED <<os, pidfile, state, child, failures, stopping,
                 handlingFailure, timers, cycle, term>>

\* The request fails or times out: a miss, whichever generation was asked;
\* enough misses while READY mean "frozen but alive".
BeatMiss(b) ==
  /\ orch
  /\ beat[b].pid # None
  /\ missCount' = missCount + 1
  /\ beat' = [beat EXCEPT ![b] = IdleBeat]
  /\ IF state = "READY" /\ missCount + 1 >= Missed
     THEN HandleFailure({}, FALSE)
     ELSE /\ heartbeatBusy' = FALSE
          /\ UNCHANGED <<killed, child, failures, handlingFailure, state, timers>>
  /\ UNCHANGED <<orch, proc, mine, pidfile, stopping, cycle, term>>

-----------------------------------------------------------------------------
(* The 'exit' event, and the ways to stop.                                 *)

\* 'exit' of p: told to the spawn loop, to waitExit, and to onChildExit,
\* which takes the child of a READY supervisor for a crash.
ExitEvent(p) ==
  /\ orch
  /\ proc[p] \in Dead
  /\ proc' = [proc EXCEPT ![p] = "free"]
  /\ cycle' = IF cycle.pid = p
              THEN [cycle EXCEPT !.exited = TRUE, !.code3 = (proc[p] = "dead3")]
              ELSE cycle
  /\ term' = IF term.pid = p THEN [term EXCEPT !.exited = TRUE] ELSE term
  /\ IF ~stopping /\ child = p /\ state = "READY"
     THEN HandleFailure({}, heartbeatBusy)
     ELSE UNCHANGED <<killed, child, failures, handlingFailure, heartbeatBusy,
                      state, timers>>
  /\ UNCHANGED <<orch, mine, pidfile, missCount, stopping, beat>>

\* beginShutdown: no respawn and no beat from here on.
BeginShutdown ==
  /\ "quit" \in Faults
  /\ orch
  /\ ~stopping
  /\ stopping' = TRUE
  /\ timers' = {}
  /\ UNCHANGED <<os, pidfile, state, child, failures, missCount,
                 handlingFailure, heartbeatBusy, async>>

\* The end of terminate and of stop: counters and guards back to zero.
Rest ==
  /\ child' = None
  /\ state' = "STOPPED"
  /\ handlingFailure' = FALSE
  /\ heartbeatBusy' = FALSE
  /\ failures' = 0
  /\ missCount' = 0

\* The last lines of terminate: the pidfile goes only if the child died.
TermFinish(died) ==
  /\ Rest
  /\ pidfile' = IF died THEN None ELSE pidfile
  /\ term' = [term EXCEPT !.pc = "done", !.died = died]

\* terminate up to its first await: SIGTERM, which on Windows kills as
\* SIGKILL does.  With no child, or one whose exit was seen, it runs through.
Terminate ==
  /\ "quit" \in Faults
  /\ orch
  /\ term.pc = "none"
  /\ stopping' = TRUE
  /\ timers' = {}
  /\ IF child # None /\ proc[child] # "free"
     THEN /\ killed' = killed \cup Shot(child)
          /\ term' = [term EXCEPT !.pc = "sigterm", !.pid = child]
          /\ UNCHANGED <<pidfile, state, child, failures, missCount,
                         handlingFailure, heartbeatBusy>>
     ELSE /\ TermFinish(TRUE)
          /\ UNCHANGED killed
  /\ UNCHANGED <<orch, proc, mine, beat, cycle>>

\* waitExit saw the exit.
TermDied ==
  /\ orch
  /\ term.pc \in {"sigterm", "sigkill"}
  /\ term.exited
  /\ TermFinish(TRUE)
  /\ UNCHANGED <<os, stopping, timers, beat, cycle>>

\* The grace elapsed: SIGKILL, then wait once more.
TermEscalate ==
  /\ orch
  /\ term.pc = "sigterm"
  /\ ~term.exited
  /\ term' = [term EXCEPT !.pc = "sigkill"]
  /\ killed' = killed \cup Shot(term.pid)
  /\ UNCHANGED <<orch, proc, mine, pidfile, sup, beat, cycle>>

\* It survived SIGKILL for the second grace too.
TermGiveUp ==
  /\ orch
  /\ term.pc = "sigkill"
  /\ ~term.exited
  /\ TermFinish(FALSE)
  /\ UNCHANGED <<os, stopping, timers, beat, cycle>>

\* stop(): kill the child, drop the pidfile, no waiting.
Stop ==
  /\ "stop" \in Faults
  /\ orch
  /\ state # "STOPPED"
  /\ term.pc = "none"
  /\ stopping' = TRUE
  /\ timers' = {}
  /\ killed' = killed \cup Shot(child)
  /\ pidfile' = None
  /\ Rest
  /\ UNCHANGED <<orch, proc, mine, async>>

-----------------------------------------------------------------------------
(* The operating system.                                                   *)

\* A sidecar finishes booting, freezes, or dies by itself, with exit code 3
\* when it could not bind its port.
Warm(p) ==
  /\ proc[p] = "booting"
  /\ proc' = [proc EXCEPT ![p] = "healthy"]
  /\ UNCHANGED <<orch, killed, mine, pidfile, sup, async>>

Freeze(p) ==
  /\ proc[p] \in {"booting", "healthy"}
  /\ proc' = [proc EXCEPT ![p] = "hung"]
  /\ UNCHANGED <<orch, killed, mine, pidfile, sup, async>>

\* What a death leaves: an 'exit' event for the orchestrator that spawned
\* it, nothing for another one.
Corpse(p, how) == IF p \in mine THEN how ELSE "free"

Crash(p) ==
  /\ Live(p)
  /\ \E how \in IF proc[p] = "booting" THEN Dead ELSE {"dead"} :
       proc' = [proc EXCEPT ![p] = Corpse(p, how)]
  /\ killed' = killed \ {p}
  /\ UNCHANGED <<orch, mine, pidfile, sup, async>>

\* A kill takes effect.
Dies(p) ==
  /\ Live(p)
  /\ p \in killed
  /\ proc' = [proc EXCEPT ![p] = Corpse(p, "dead")]
  /\ killed' = killed \ {p}
  /\ UNCHANGED <<orch, mine, pidfile, sup, async>>

\* The pid on record is recycled: another program runs under it.
Recycle(p) ==
  /\ Free(p)
  /\ p = pidfile
  /\ proc' = [proc EXCEPT ![p] = "foreign"]
  /\ UNCHANGED <<orch, killed, mine, pidfile, sup, async>>

ForeignExits(p) ==
  /\ proc[p] = "foreign"
  /\ proc' = [proc EXCEPT ![p] = "free"]
  /\ UNCHANGED <<orch, killed, mine, pidfile, sup, async>>

\* The orchestrator process ends: at the end of a shutdown, or by a crash.
\* Memory is gone; each sidecar that ran dies with it or survives it.
OrchEnds ==
  /\ orch
  /\ state = "STOPPED" \/ "crash" \in Faults
  /\ \E survivors \in SUBSET {p \in mine : Live(p)} :
       /\ proc' = [p \in Pids |-> IF p \in mine /\ p \notin survivors
                                  THEN "free" ELSE proc[p]]
       /\ killed' = killed \ (mine \ survivors)
  /\ orch' = FALSE
  /\ mine' = {}
  /\ UNCHANGED pidfile
  /\ state' = "STOPPED"
  /\ child' = None
  /\ failures' = 0
  /\ missCount' = 0
  /\ stopping' = FALSE
  /\ handlingFailure' = FALSE
  /\ heartbeatBusy' = FALSE
  /\ timers' = {}
  /\ beat' = [b \in Beats |-> IdleBeat]
  /\ cycle' = IdleCycle
  /\ term' = IdleTerm

-----------------------------------------------------------------------------
Beating(b) == BeatOk(b) \/ BeatMiss(b)
WaitEnds == WaitStopped \/ WaitReady \/ WaitFailed
Terminating == TermDied \/ TermEscalate \/ TermGiveUp

Next ==
  \/ Boot
  \/ RestartFires \/ StableFires
  \/ Spawn \/ SpawnError \/ HealthAnswer \/ WaitEnds \/ RetrySpawn
  \/ \E b \in Beats : BeatSend(b) \/ BeatAnswer(b) \/ Beating(b)
  \/ BeginShutdown \/ Terminate \/ Terminating \/ Stop
  \/ \E p \in Pids : ExitEvent(p) \/ Warm(p) \/ Freeze(p) \/ Crash(p)
                     \/ Dies(p) \/ Recycle(p) \/ ForeignExits(p)
  \/ OrchEnds

Spec == Init /\ [][Next]_vars

\* Timers fire, coroutines resume, events are delivered and kills take
\* effect; the user, the crashes and the freezes are under no obligation.
Fairness ==
  /\ WF_vars(RestartFires)
  /\ WF_vars(Spawn \/ SpawnError)
  /\ WF_vars(WaitEnds)
  /\ WF_vars(RetrySpawn)
  /\ \A b \in Beats : WF_vars(BeatSend(b)) /\ WF_vars(Beating(b))
  /\ WF_vars(stopping /\ Terminate)
  /\ WF_vars(Terminating)
  /\ \A p \in Pids : WF_vars(ExitEvent(p)) /\ WF_vars(Dies(p))

FairSpec == Spec /\ Fairness

-----------------------------------------------------------------------------
(* Safety.                                                                 *)

\* At most one sidecar of this orchestrator runs without having been shot:
\* neither a crash, a freeze, a readiness timeout, a retry nor a stop in the
\* middle of a spawn leaves two of them (index.ts:262-323, 379-402).
OneSidecar ==
  \A p, q \in mine : Unkilled(p) /\ Unkilled(q) => p = q

\* While nobody stops it, the supervisor is always doing something about the
\* sidecar: spawning, watching one with the beat armed, waiting for an armed
\* restart, or openly degraded with the breaker open.  A guard left set or a
\* timer lost would leave it silently dead (index.ts:379-402, F1 at :511).
Supervised ==
  orch /\ ~stopping =>
    \/ /\ state = "SPAWNING"
       /\ cycle.pc # "idle"
       /\ child = None
       /\ ~handlingFailure
       /\ timers = {}
       /\ failures < K
    \/ /\ state = "READY"
       /\ cycle.pc = "idle"
       /\ child # None
       /\ ~handlingFailure
       /\ "heartbeat" \in timers /\ "restart" \notin timers
       /\ missCount < Missed
       /\ failures < K
    \/ /\ state = "RESTARTING"
       /\ cycle.pc = "idle"
       /\ child = None
       /\ handlingFailure
       /\ timers = {"restart"}
       /\ failures < K
    \/ /\ state = "DEGRADED_SANS_VOIX"
       /\ cycle.pc = "idle"
       /\ child = None
       /\ ~handlingFailure
       /\ timers = {}
       /\ failures = K

\* The sidecar that runs unshot is the one the pidfile names, from its spawn
\* on and not only from READY (m12, index.ts:286-291), so that the next boot
\* finds it if the orchestrator dies at any moment.
PidfileNamesSidecar ==
  orch /\ ~stopping => \A p \in mine : Unkilled(p) => pidfile = p

\* Only sidecars are killed: a recycled pid never costs another program its
\* life (M2, the identity token, index.ts:121-142).
NoInnocentKilled ==
  \A p \in killed : proc[p] # "foreign"

\* terminate gave up on a sidecar: the pidfile still names it for the reaper
\* of the next boot (index.ts:485-492).
SurvivorOnRecord ==
  term.pc = "done" /\ ~term.died /\ Live(term.pid) => pidfile = term.pid

\* No sidecar that may outlive its orchestrator is without a trace for the
\* next boot: neither the one in service nor the one terminate gave up on.
TraceKept == PidfileNamesSidecar /\ SurvivorOnRecord

\* After a stop began, this instance never adopts a sidecar, never goes back
\* to READY and arms no timer (m5, index.ts:295-301; F1).
StopIsFinal ==
  [][stopping /\ orch' =>
       /\ stopping'
       /\ timers' = {}
       /\ child' \in {child, None}
       /\ state' \in {state, "STOPPED"}]_vars

\* What the embedder sees: a respawn is a restart until it succeeds, and a
\* generation is in service while READY, alive or not.
ShownState == IF state = "SPAWNING" /\ failures > 0 THEN "RESTARTING" ELSE state
InService  == IF state = "READY" THEN child ELSE None
Serving    == state = "READY" /\ child # None /\ Live(child)

Promise == INSTANCE Sidecar WITH
  state <- ShownState, pid <- InService, serving <- Serving, closing <- stopping

\* The coroutines, the timers, the late events and the crashes show the
\* embedder a sidecar as the module Sidecar promises it: in service from a
\* live spawn only, given up by a counted failure, degraded at the K-th,
\* never back once a stop began (m5, F1).
SidecarKept == Promise!Spec

-----------------------------------------------------------------------------
(* Liveness.                                                               *)

\* A READY sidecar that froze, or that died before it was adopted so that its
\* 'exit' event was dropped, is given up: only the beat can tell.
FreezeIsDetected ==
  state = "READY" /\ child # None /\ proc[child] \in {"hung", "free"}
    ~> state # "READY"

\* Once a stop began every sidecar of this orchestrator dies, the one a
\* spawnCycle still had in hand included.
StopReaps ==
  stopping ~> ~orch \/ \A p \in mine : ~Live(p)
=============================================================================
