---------------------------- MODULE VoicePipeline ----------------------------
(***************************************************************************)
(* The voice pipeline of the runtime (src/electron/runtime.ts).            *)
(*                                                                         *)
(* The runtime wires one conversation router to two sidecars, the ears and *)
(* the mouth, each kept by a supervisor of its own.  The wiring is built   *)
(* by a coroutine that awaits a WebSocket connection per sidecar; it is    *)
(* started by the boot, by a supervisor that reports READY and by a retry  *)
(* timer, it is torn down when a sidecar turns out to have respawned, and  *)
(* the application may quit at any await.  An action is one run of the     *)
(* event loop.                                                             *)
(*                                                                         *)
(* Abstractions: a supervisor is reduced to what the runtime reads of it   *)
(* (module Supervisor has the whole of it): RESTARTING also stands for the *)
(* SPAWNING of a respawn.  The conversation is one of four states of the   *)
(* router.  Residence, ducking and the resync of the ears follow the       *)
(* router and are left out; so are the delays, and the boot before its     *)
(* phase 5.                                                                *)
(***************************************************************************)
EXTENDS Naturals, FiniteSets

CONSTANTS
  Ports,    \* the ephemeral ports a sidecar may be given
  MaxPid,   \* bounds the sidecars that reach READY; pids are never reused
  Socks,    \* identities for the sockets open at one time
  Builds,   \* slots for the runs of ensureVoicePipeline in flight
  K,        \* circuitBreakerK of the supervisors
  None      \* null

Roles == {"ears", "mouth"}
Conv  == {"veille", "ecoute", "coupee", "pause"}   \* coupee: ecoute with a held thought

ASSUME ConstantsAssumption ==
  /\ MaxPid \in Nat
  /\ K \in Nat \ {0}
  /\ None \notin Socks
  /\ None \notin Conv
  /\ None \notin Builds

VARIABLES
  sup,       \* the supervisors: currentState, port and pid, failures, is the process up
  lastPid,   \* the last pid the operating system handed out
  session,   \* this.session: null while booting (phase 5 or its post-ready hook)
  degraded,  \* does the session carry SANS_VOIX
  stopping,  \* this.stopping
  router,    \* this.router, as the state of its conversation, or None
  wired,     \* this.earsPortWired, mouthPortWired, earsPidWired, mouthPidWired
  ipc,       \* this.earsIpc, this.mouthIpc
  pending,   \* this.pendingHandoff
  building,  \* this.buildingPipeline
  handle,    \* is this.pipelineRetryTimer set
  timers,    \* how many retry timers are armed
  builds,    \* the ensureVoicePipeline coroutines
  open,      \* for each open socket, the pid of the sidecar at its other end
  said       \* the conversation as its last exchange left it (history)

pipe == <<router, wired, ipc, pending>>
run  == <<building, handle, timers, builds>>
env  == <<sup, lastPid>>
vars == <<env, session, degraded, stopping, pipe, run, open, said>>

Address  == [port : Ports \cup {None}, pid : 0..MaxPid]
NoAddr   == [port |-> None, pid |-> 0]
Idle     == [pc |-> "idle", addr |-> [r \in Roles |-> NoAddr],
             sock |-> [r \in Roles |-> None]]

TypeOK ==
  /\ sup \in [Roles -> [state : {"SPAWNING", "RESTARTING", "READY", "DEGRADED", "STOPPED"},
                        addr : Address, failures : 0..K, up : BOOLEAN]]
  /\ lastPid \in 0..MaxPid
  /\ session \in {"starting", "postReady", "PRIMARY"}
  /\ degraded \in BOOLEAN
  /\ stopping \in BOOLEAN
  /\ router \in Conv \cup {None}
  /\ wired \in [Roles -> Address]
  /\ ipc \in [Roles -> Socks \cup {None}]
  /\ pending \in Conv \cup {None}
  /\ building \in BOOLEAN
  /\ handle \in BOOLEAN
  /\ timers \in Nat
  /\ builds \in [Builds -> [pc : {"idle"} \cup Roles, addr : [Roles -> Address],
                            sock : [Roles -> Socks \cup {None}]]]
  /\ open \in [Socks -> 0..MaxPid]                \* 0: the socket is closed
  /\ said \in Conv

Init ==
  /\ sup = [r \in Roles |-> [state |-> "SPAWNING", addr |-> NoAddr, failures |-> 0,
                             up |-> FALSE]]
  /\ lastPid = 0
  /\ session = "starting"
  /\ degraded = FALSE
  /\ stopping = FALSE
  /\ router = None
  /\ wired = [r \in Roles |-> NoAddr]
  /\ ipc = [r \in Roles |-> None]
  /\ pending = None
  /\ building = FALSE
  /\ handle = FALSE
  /\ timers = 0
  /\ builds = [b \in Builds |-> Idle]
  /\ open = [s \in Socks |-> 0]
  /\ said = "veille"

BothReady == \A r \in Roles : sup[r].state = "READY"

\* The wired sidecars are not the current ones: their port or their pid changed.
pipelineIsStale(w, s) ==
  \E r \in Roles : w[r].port # s[r].addr.port \/ w[r].pid # s[r].addr.pid

Closed(socks) == [s \in Socks |-> IF s \in socks THEN 0 ELSE open[s]]

\* The synchronous part of ensureVoicePipeline, run when this.router is `now`:
\* a build starts, unless a guard returns, by dialling the ears.
EnsureStarts(now) ==
  /\ session' = "PRIMARY"
  /\ ~stopping
  /\ now = None
  /\ ~building
  /\ BothReady'

Dial(now) ==
  IF EnsureStarts(now)
  THEN /\ building' = TRUE
       /\ \E b \in Builds :
            /\ builds[b].pc = "idle"
            /\ builds' = [builds EXCEPT ![b] =
                 [Idle EXCEPT !.pc = "ears", !.addr["ears"] = sup'["ears"].addr]]
  ELSE UNCHANGED <<building, builds>>

\* clearTimeout(pipelineRetryTimer)
ClearRetry ==
  /\ timers' = IF handle THEN timers - 1 ELSE timers
  /\ handle' = FALSE

ensureVoicePipeline(now) ==
  /\ Dial(now)
  /\ IF EnsureStarts(now) THEN ClearRetry ELSE UNCHANGED <<handle, timers>>

\* Bug: the router is stopped first, which drops the held thought.
exportHandoffLate == IF router = "coupee" THEN "ecoute" ELSE router

\* The conversation that a teardown takes from the router before it stops it.
exportHandoff == router

\* What resumeAfterRespawn makes of a handoff on a fresh router.
resumeAfterRespawn(h) == IF h = None THEN "veille" ELSE h

teardownStalePipeline ==
  /\ pending' = exportHandoff
  /\ open' = Closed({ipc[r] : r \in Roles})
  /\ ipc' = [r \in Roles |-> None]
  /\ UNCHANGED wired

\* Bug: only the indicator is turned off (before conv 55).
refreshVoiceReadyLampOnly ==
  /\ degraded' = IF session = "PRIMARY" /\ BothReady' THEN FALSE ELSE degraded
  /\ UNCHANGED <<pipe, run, open>>

\* A sidecar is READY again: onReady.
refreshVoiceReady ==
  IF session = "PRIMARY" /\ BothReady'
  THEN LET stale == router # None /\ pipelineIsStale(wired, sup') /\ ~stopping
       IN /\ degraded' = FALSE
          /\ router' = IF stale THEN None ELSE router
          /\ IF stale THEN teardownStalePipeline ELSE UNCHANGED <<pending, open, ipc, wired>>
          /\ ensureVoicePipeline(router')
  ELSE UNCHANGED <<degraded, pipe, run, open>>

\* A breaker opened: onDegraded.
markVoiceLost ==
  degraded' = (degraded \/ session = "PRIMARY")

-----------------------------------------------------------------------------
(* The supervisors *)

\* A sidecar passes its readiness probe, on a port no live sidecar holds.
SidecarReady(r) ==
  /\ sup[r].state \in {"SPAWNING", "RESTARTING"}
  /\ ~stopping
  /\ lastPid < MaxPid
  /\ lastPid' = lastPid + 1
  /\ \E p \in Ports :
       /\ \A q \in Roles : sup[q].up => sup[q].addr.port # p
       /\ sup' = [sup EXCEPT ![r] =
            [@ EXCEPT !.state = "READY", !.addr = [port |-> p, pid |-> lastPid'],
                      !.up = TRUE]]
  /\ UNCHANGED session
  /\ refreshVoiceReady
  /\ UNCHANGED <<stopping, said>>

\* The process dies, which closes its sockets; its supervisor does not know yet.
SidecarDies(r) ==
  /\ sup[r].up
  /\ sup' = [sup EXCEPT ![r].up = FALSE]
  /\ open' = Closed({s \in Socks : open[s] = sup[r].addr.pid})
  /\ UNCHANGED <<lastPid, session, degraded, stopping, pipe, run, said>>

\* handleFailure: a crash, a freeze or a failed spawn.  The process is killed,
\* and the K-th failure opens the breaker.
SidecarFails(r) ==
  /\ sup[r].state \in {"SPAWNING", "RESTARTING", "READY"}
  /\ ~stopping
  /\ LET broken == sup[r].failures + 1 >= K
     IN /\ sup' = [sup EXCEPT ![r] =
             [@ EXCEPT !.state = IF broken THEN "DEGRADED" ELSE "RESTARTING",
                       !.failures = sup[r].failures + 1, !.up = FALSE]]
        /\ IF broken THEN markVoiceLost ELSE UNCHANGED degraded
  /\ open' = IF sup[r].up THEN Closed({s \in Socks : open[s] = sup[r].addr.pid}) ELSE open
  /\ UNCHANGED <<lastPid, session, stopping, pipe, run, said>>

\* The stable window of a READY sidecar elapses.
StableWindow(r) ==
  /\ sup[r].state = "READY"
  /\ ~stopping
  /\ sup[r].failures # 0
  /\ sup' = [sup EXCEPT ![r].failures = 0]
  /\ UNCHANGED <<lastPid, session, degraded, stopping, pipe, run, open, said>>

-----------------------------------------------------------------------------
(* Boot and quit *)

\* Both start() have returned: to the post-ready hook, or to PRIMARY voiceless.
SidecarStart ==
  /\ session = "starting"
  /\ \A r \in Roles : sup[r].state # "SPAWNING"
  /\ session' = IF BothReady THEN "postReady" ELSE "PRIMARY"
  /\ degraded' = ~BothReady
  /\ UNCHANGED <<env, stopping, pipe, run, open, said>>

\* The hook is over: the session is set and run() builds the pipeline.
SidecarPostReady ==
  /\ session = "postReady"
  /\ session' = "PRIMARY"
  /\ UNCHANGED env
  /\ ensureVoicePipeline(router)
  /\ UNCHANGED <<degraded, stopping, pipe, open, said>>

\* gracefulShutdown: stopVoice, then beginShutdown of both supervisors.
StopVoice ==
  /\ session = "PRIMARY"
  /\ ~stopping
  /\ stopping' = TRUE
  /\ ClearRetry
  /\ open' = Closed({ipc[r] : r \in Roles})
  /\ UNCHANGED <<env, session, degraded, pipe, building, builds, said>>

\* terminateSidecar.
Terminate(r) ==
  /\ stopping
  /\ sup[r].state # "STOPPED"
  /\ sup' = [sup EXCEPT ![r] =
       [@ EXCEPT !.state = "STOPPED", !.failures = 0, !.up = FALSE]]
  /\ open' = IF sup[r].up THEN Closed({s \in Socks : open[s] = sup[r].addr.pid}) ELSE open
  /\ UNCHANGED <<lastPid, session, degraded, stopping, pipe, run, said>>

-----------------------------------------------------------------------------
(* The builds *)

\* The sidecar that answers at a port, whichever role it has; 0 if none does.
Listener(p) ==
  IF \E r \in Roles : sup[r].up /\ sup[r].addr.port = p
  THEN sup[CHOOSE r \in Roles : sup[r].up /\ sup[r].addr.port = p].addr.pid
  ELSE 0

\* The socket a connection opens: one that is neither open nor referred to.
FreeSock(s) ==
  /\ open[s] = 0
  /\ \A r \in Roles : ipc[r] # s /\ \A b \in Builds : builds[b].sock[r] # s

EndBuild(b) ==
  /\ builds' = [builds EXCEPT ![b] = Idle]
  /\ building' = FALSE

ArmRetry ==
  /\ timers' = timers + 1
  /\ handle' = TRUE

\* `await earsIpc.connect` returns: keep the socket and dial the mouth, or,
\* if the application is stopping, close it and return.
EarsConnected(b) ==
  /\ builds[b].pc = "ears"
  /\ LET peer == Listener(builds[b].addr["ears"].port)
     IN /\ peer # 0
        /\ IF stopping
           THEN EndBuild(b) /\ UNCHANGED <<open, ipc>>
           ELSE \E s \in Socks :
                  /\ FreeSock(s)
                  /\ open' = [open EXCEPT ![s] = peer]
                  /\ ipc' = [ipc EXCEPT !["ears"] = s]
                  /\ builds' = [builds EXCEPT ![b] =
                       [@ EXCEPT !.pc = "mouth", !.addr["mouth"] = sup["mouth"].addr,
                                 !.sock["ears"] = s]]
                  /\ UNCHANGED building
  /\ UNCHANGED <<env, session, degraded, stopping, router, wired, pending,
                 handle, timers, said>>

\* `await mouthIpc.connect` returns and the application is stopping.
MouthConnectedTooLate(b) ==
  /\ builds[b].pc = "mouth"
  /\ Listener(builds[b].addr["mouth"].port) # 0
  /\ stopping
  /\ open' = Closed({builds[b].sock["ears"]})
  /\ ipc' = [ipc EXCEPT !["ears"] = None]
  /\ EndBuild(b)
  /\ UNCHANGED <<env, session, degraded, stopping, router, wired, pending,
                 handle, timers, said>>

\* Bug: the supervisors are read again after the awaits (before ROB-M1).
ComposedReread(b) == [r \in Roles |-> sup[r].addr]

\* The addresses a build memorises as wired: those it dialled.
Composed(b) == builds[b].addr

\* `await mouthIpc.connect` returns: the router is wired and takes up the
\* conversation, unless a sidecar has respawned since it was dialled, in which
\* case the new wiring is torn down at once and retried.
MouthConnected(b) ==
  /\ builds[b].pc = "mouth"
  /\ ~stopping
  /\ wired' = Composed(b)
  /\ LET peer == Listener(builds[b].addr["mouth"].port)
     IN /\ peer # 0
        /\ IF pipelineIsStale(wired', sup)
           THEN /\ router' = None
                /\ pending' = resumeAfterRespawn(pending)
                /\ open' = Closed({ipc["ears"]})
                /\ ipc' = [r \in Roles |-> None]
                /\ ArmRetry
           ELSE /\ router' = resumeAfterRespawn(pending)
                /\ pending' = None
                /\ \E s \in Socks :
                     /\ FreeSock(s)
                     /\ open' = [open EXCEPT ![s] = peer]
                     /\ ipc' = [ipc EXCEPT !["mouth"] = s]
                /\ UNCHANGED <<handle, timers>>
  /\ EndBuild(b)
  /\ UNCHANGED <<env, session, degraded, stopping, said>>

\* Bug: what is open is forgotten instead of closed.
BuildFailsLeaking(b) ==
  /\ builds[b].pc # "idle"
  /\ router' = None
  /\ ipc' = [r \in Roles |-> None]
  /\ IF stopping THEN UNCHANGED <<handle, timers>> ELSE ArmRetry
  /\ EndBuild(b)
  /\ UNCHANGED <<env, session, degraded, stopping, wired, pending, open, said>>

\* A connection is refused or lost: the catch clause.
BuildFails(b) ==
  /\ builds[b].pc # "idle"
  /\ router' = None
  /\ open' = Closed({ipc[r] : r \in Roles})
  /\ ipc' = [r \in Roles |-> None]
  /\ IF stopping THEN UNCHANGED <<handle, timers>> ELSE ArmRetry
  /\ EndBuild(b)
  /\ UNCHANGED <<env, session, degraded, stopping, wired, pending, said>>

\* The retry timer fires.
RetryFires ==
  /\ timers > 0
  /\ UNCHANGED <<env, session>>
  /\ timers' = timers - 1
  /\ handle' = FALSE
  /\ Dial(router)
  /\ UNCHANGED <<degraded, stopping, pipe, open, said>>

-----------------------------------------------------------------------------
(* The conversation *)

\* An exchange over the wired router: wake, close, barge-in, pause, resume.
Exchange ==
  /\ router # None
  /\ ~stopping
  /\ \E c \in Conv :
       /\ <<router, c>> \in
            {<<"veille", "ecoute">>, <<"ecoute", "veille">>, <<"ecoute", "coupee">>,
             <<"coupee", "ecoute">>, <<"coupee", "pause">>, <<"coupee", "veille">>,
             <<"pause", "ecoute">>, <<"pause", "veille">>}
       /\ router' = c
       /\ said' = c
  /\ UNCHANGED <<env, session, degraded, stopping, wired, ipc, pending, run, open>>

-----------------------------------------------------------------------------
Next ==
  \/ \E r \in Roles :
       SidecarReady(r) \/ SidecarDies(r) \/ SidecarFails(r) \/ StableWindow(r) \/ Terminate(r)
  \/ SidecarStart \/ SidecarPostReady \/ StopVoice
  \/ \E b \in Builds :
       EarsConnected(b) \/ MouthConnectedTooLate(b) \/ MouthConnected(b) \/ BuildFails(b)
  \/ RetryFires
  \/ Exchange

Spec == Init /\ [][Next]_vars

\* Awaits and timers end.  A connection that is tried again and again succeeds
\* in the end: both ends are on this machine.  The boot's own steps end too, and
\* a supervisor notices a dead sidecar (FreezeIsDetected of module Supervisor).
Fairness ==
  /\ WF_vars(SidecarStart)
  /\ WF_vars(SidecarPostReady)
  /\ WF_vars(RetryFires)
  /\ \A r \in Roles : WF_vars(sup[r].state = "READY" /\ ~sup[r].up /\ SidecarFails(r))
  /\ \A b \in Builds :
       /\ WF_vars(BuildFails(b))
       /\ SF_vars(EarsConnected(b))
       /\ SF_vars(MouthConnected(b))

FairSpec == Spec /\ Fairness

-----------------------------------------------------------------------------
(* Properties *)

Stale == pipelineIsStale(wired, sup)

\* With both sidecars READY and nothing under way (no build, no retry), the
\* router is wired, and to these very sidecars: no order of respawns, failed
\* connections and retries leaves the indicator green over a deaf session
\* (runtime.ts 171-182, 322-334, 345-352).
NeverGreenAndDeaf ==
  session = "PRIMARY" /\ BothReady /\ ~stopping /\ ~building /\ timers = 0 =>
    router # None /\ ~Stale

\* A wired router that is not stale talks to the right processes: a port that
\* moves from one sidecar to another during a build never crosses the wires.
WiredToTheRightSidecar ==
  router # None /\ ~Stale /\ ~stopping =>
    \A r \in Roles : sup[r].up => ipc[r] # None /\ open[ipc[r]] = sup[r].addr.pid

\* Every open socket is in the hands of the runtime or of the build in flight:
\* no teardown, failure or quit leaks one (runtime.ts 245, 250, 340).
NoStraySocket ==
  \A s \in Socks : open[s] # 0 =>
    \E r \in Roles : ipc[r] = s \/ \E b \in Builds : builds[b].sock[r] = s

\* Nothing restarts after stopVoice: no retry timer is armed, and once the
\* build in flight has seen the stop no socket is open (runtime.ts 141-155).
StopLeavesNothing ==
  stopping => timers = 0 /\ (building \/ \A s \in Socks : open[s] = 0)

\* The light tells the truth: a green voice is wired, and to the processes that
\* run (runtime.ts refreshVoiceReady, pipelineIsStale).
VoiceIsReal == NeverGreenAndDeaf /\ WiredToTheRightSidecar

\* No failure, teardown or quit leaves anything behind (runtime.ts
\* teardownStalePipeline, stopVoice, the catch of ensureVoicePipeline).
NothingLeaks == NoStraySocket /\ StopLeavesNothing

\* The conversation survives the respawns: a rebuilt router resumes it where
\* its last exchange left it, whatever builds failed meanwhile (runtime.ts
\* 203-204, 306-309, 330-334).
ConversationKept ==
  ~stopping =>
    /\ router # None => router = said
    /\ router = None => resumeAfterRespawn(pending) = said

\* If both sidecars stay READY in a session that is not quitting, the router
\* ends wired to them and SANS_VOIX ends cleared.
VoiceComesBack ==
  <>[](session = "PRIMARY" /\ BothReady /\ ~stopping) =>
    <>[](router # None /\ ~Stale /\ ~degraded)
=============================================================================
