------------------------- MODULE VoicePipeline_proofs -------------------------
(***************************************************************************)
(* Proofs about VoicePipeline: its types, every safety invariant its runs  *)
(* check, and what its supervisors promise, for any number of ports,       *)
(* respawns, sockets and builds.                                           *)
(***************************************************************************)
EXTENDS VoicePipeline, TLAPS

(* Pids grow; a supervisor whose breaker is not open has failures to spare. *)
Generations ==
  /\ \A r \in Roles : sup[r].addr.pid <= lastPid /\ wired[r].pid <= lastPid
  /\ \A b \in Builds, r \in Roles : builds[b].addr[r].pid <= lastPid
  /\ \A r \in Roles : sup[r].failures = K => sup[r].state = "DEGRADED"

(* Two live sidecars share neither port nor pid. *)
Apart ==
  sup["ears"].up /\ sup["mouth"].up =>
    /\ sup["ears"].addr.port # sup["mouth"].addr.port
    /\ sup["ears"].addr.pid # sup["mouth"].addr.pid

(* There is one build at most, while there is no router. *)
OneBuild ==
  /\ \A a, b \in Builds : builds[a].pc # "idle" /\ builds[b].pc # "idle" => a = b
  /\ building <=> \E b \in Builds : builds[b].pc # "idle"
  /\ building => router = None

(* One retry timer at most, and only when nothing else is under way. *)
OneTimer ==
  /\ timers = IF handle THEN 1 ELSE 0
  /\ handle => router = None /\ ~building /\ ~stopping
  /\ session # "PRIMARY" => router = None /\ ~building /\ ~handle /\ ~stopping

(* What the runtime holds is what the router or the build in flight needs. *)
Held ==
  /\ router # None =>
       ipc["ears"] # None /\ ipc["mouth"] # None /\ ipc["ears"] # ipc["mouth"]
  /\ router = None /\ ~building => \A r \in Roles : ipc[r] = None
  /\ \A b \in Builds : builds[b].pc = "ears" => \A r \in Roles : ipc[r] = None
  /\ \A b \in Builds : builds[b].pc = "mouth" =>
       /\ ipc["ears"] = builds[b].sock["ears"] /\ ipc["ears"] # None
       /\ ipc["mouth"] = None

(* Every open socket is in the runtime's own hands, and none after a stop. *)
InHand ==
  /\ \A s \in Socks : open[s] # 0 => \E r \in Roles : ipc[r] = s
  /\ stopping => \A s \in Socks : open[s] = 0

(* The ears of a half-built wiring are the sidecar that was dialled. *)
HalfWired ==
  \A b \in Builds :
    builds[b].pc = "mouth" /\ ~stopping /\ sup["ears"].up
      /\ builds[b].addr["ears"] = sup["ears"].addr
        => open[ipc["ears"]] = sup["ears"].addr.pid

IInv ==
  /\ TypeOK /\ Generations /\ Apart /\ OneBuild /\ OneTimer /\ Held /\ InHand /\ HalfWired
  /\ NeverGreenAndDeaf /\ WiredToTheRightSidecar /\ ConversationKept
-----------------------------------------------------------------------------
Sidecars == [state : {"SPAWNING", "RESTARTING", "READY", "DEGRADED", "STOPPED"},
             addr : Address, failures : 0..K, up : BOOLEAN]
Coroutines == [pc : {"idle"} \cup Roles, addr : [Roles -> Address],
               sock : [Roles -> Socks \cup {None}]]

\* The records and functions of the model have their types.
LEMMA TypesOfData ==
  /\ NoAddr \in Address /\ Idle \in Coroutines /\ Idle.pc = "idle"
  /\ \A r \in Roles : Idle.addr[r].pid = 0
  /\ \A p \in Ports, n \in 0..MaxPid :
       /\ [port |-> p, pid |-> n] \in Address
       /\ [port |-> p, pid |-> n].pid = n /\ [port |-> p, pid |-> n].port = p
  BY ConstantsAssumption DEF NoAddr, Idle, Address, Coroutines, Roles

\* A build that dials the ears.
LEMMA DialledFacts ==
  ASSUME NEW a \in Address,
         NEW d, d = [Idle EXCEPT !.pc = "ears", !.addr["ears"] = a]
  PROVE  /\ d \in Coroutines /\ d.pc = "ears"
         /\ d.addr["ears"] = a /\ d.addr["mouth"].pid = 0
<1>1. Idle \in Coroutines /\ Idle.addr["mouth"].pid = 0
  BY TypesOfData DEF Roles
<1> HIDE DEF Idle
<1> QED  BY <1>1 DEF Coroutines, Roles

(* A build whose ears have answered.                                        *)
Half(c, a, s) == [c EXCEPT !.pc = "mouth", !.addr["mouth"] = a, !.sock["ears"] = s]

LEMMA HalfFacts ==
  ASSUME NEW c \in Coroutines, NEW a \in Address, NEW s \in Socks
  PROVE  /\ Half(c, a, s) \in Coroutines /\ Half(c, a, s).pc = "mouth"
         /\ Half(c, a, s).sock["ears"] = s
         /\ Half(c, a, s).addr["ears"] = c.addr["ears"] /\ Half(c, a, s).addr["mouth"] = a
<1> DEFINE d == Half(c, a, s)
<1>1. d = [c EXCEPT !.pc = "mouth", !.addr["mouth"] = a, !.sock["ears"] = s]
  BY DEF Half
<1> HIDE DEF d
<1>2. /\ d \in Coroutines /\ d.pc = "mouth" /\ d.sock["ears"] = s
      /\ d.addr["ears"] = c.addr["ears"] /\ d.addr["mouth"] = a
  BY <1>1 DEF Coroutines, Roles
<1> QED  BY <1>2 DEF d

(* A sidecar ends, is killed or is given up: its sockets may close.         *)
Downed(r) ==
  /\ sup' \in [Roles -> Sidecars]
  /\ \A q \in Roles : q # r => sup'[q] = sup[q]
  /\ sup'[r].addr = sup[r].addr /\ sup'[r].up = FALSE
  /\ sup'[r].state = "READY" => sup[r].state = "READY"
  /\ sup'[r].failures = K => sup'[r].state = "DEGRADED"
  /\ open' \in [Socks -> 0..MaxPid]
  /\ \A s \in Socks : open'[s] # open[s] =>
       open'[s] = 0 /\ open[s] = sup[r].addr.pid /\ sup[r].up
  /\ UNCHANGED <<lastPid, session, stopping, pipe, run, said>>
  /\ degraded' \in BOOLEAN

LEMMA DownedKeeps ==
  ASSUME IInv, NEW r \in Roles, Downed(r)
  PROVE  IInv'
<1> USE DEF IInv
<1>1. UNCHANGED <<lastPid, session, stopping, pipe, run, said>>
  BY DEF Downed
<1>2. \A q \in Roles : sup'[q].addr = sup[q].addr /\ (sup'[q].up => sup[q].up /\ q # r)
                       /\ (sup'[q].state = "READY" => sup[q].state = "READY")
  BY DEF Downed
<1>3. BothReady' => BothReady
  BY <1>2 DEF BothReady
<1>4. Stale' <=> Stale
  BY <1>1, <1>2 DEF Stale, pipelineIsStale, pipe
<1>5. TypeOK'
  BY <1>1 DEF Downed, TypeOK, Sidecars, pipe, run
<1>6. Generations'
  BY <1>1, <1>2 DEF Downed, Generations, pipe, run
<1>7. Apart'
  BY <1>2 DEF Apart, Roles
<1>8. OneBuild' /\ OneTimer' /\ Held'
  BY <1>1 DEF OneBuild, OneTimer, Held, pipe, run
<1>9. InHand'
  BY <1>1 DEF InHand, Downed, pipe
<1>10. \A q \in Roles, s \in Socks : sup'[q].up /\ open[s] = sup[q].addr.pid => open'[s] = open[s]
  BY <1>2 DEF Apart, Downed, Roles
<1>11. HalfWired'
  <2> SUFFICES ASSUME NEW b \in Builds, builds[b].pc = "mouth", ~stopping, sup'["ears"].up,
                      builds[b].addr["ears"] = sup'["ears"].addr
               PROVE  open'[ipc["ears"]] = sup'["ears"].addr.pid
    BY <1>1 DEF HalfWired, pipe, run
  <2>1. open[ipc["ears"]] = sup["ears"].addr.pid /\ ipc["ears"] \in Socks
    BY <1>2 DEF HalfWired, Held, TypeOK, Roles
  <2> QED  BY <2>1, <1>2, <1>10 DEF Roles
<1>12. NeverGreenAndDeaf'
  BY <1>1, <1>3, <1>4 DEF NeverGreenAndDeaf, pipe, run
<1>13. WiredToTheRightSidecar'
  <2> SUFFICES ASSUME router # None, ~Stale, ~stopping, NEW q \in Roles, sup'[q].up
               PROVE  ipc[q] # None /\ open'[ipc[q]] = sup'[q].addr.pid
    BY <1>1, <1>4 DEF WiredToTheRightSidecar, pipe
  <2>1. ipc[q] # None /\ open[ipc[q]] = sup[q].addr.pid /\ ipc[q] \in Socks
    BY <1>2 DEF WiredToTheRightSidecar, TypeOK
  <2> QED  BY <2>1, <1>2, <1>10
<1>14. ConversationKept'
  BY <1>1 DEF ConversationKept, pipe
<1> QED  BY <1>5, <1>6, <1>7, <1>8, <1>9, <1>11, <1>12, <1>13, <1>14

LEMMA SupTypes ==
  ASSUME IInv
  PROVE  sup \in [Roles -> Sidecars] /\ open \in [Socks -> 0..MaxPid] /\ degraded \in BOOLEAN
  BY DEF IInv, TypeOK, Sidecars

LEMMA DiesKeeps ==
  ASSUME IInv, NEW r \in Roles, SidecarDies(r)
  PROVE  IInv'
<1> DEFINE d == [sup[r] EXCEPT !.up = FALSE]
<1>1. sup[r] \in Sidecars /\ open \in [Socks -> 0..MaxPid] /\ degraded \in BOOLEAN
  BY SupTypes
<1>2. /\ d \in Sidecars /\ d.state = sup[r].state /\ d.failures = sup[r].failures
      /\ d.up = FALSE /\ d.addr = sup[r].addr
  BY <1>1 DEF Sidecars
<1>3. sup' = [sup EXCEPT ![r] = d]
  BY DEF SidecarDies
<1> HIDE DEF d
<1>4. /\ sup' \in [Roles -> Sidecars] /\ sup'[r] = d
      /\ \A q \in Roles : q # r => sup'[q] = sup[q]
  BY <1>2, <1>3, SupTypes
<1>5. sup[r].failures = K => sup[r].state = "DEGRADED"
  BY DEF IInv, Generations
<1>6. /\ open' \in [Socks -> 0..MaxPid]
      /\ \A s \in Socks : open'[s] # open[s] =>
           open'[s] = 0 /\ open[s] = sup[r].addr.pid /\ sup[r].up
  BY <1>1, ConstantsAssumption DEF SidecarDies, Closed
<1>7. Downed(r)
  BY <1>1, <1>2, <1>4, <1>5, <1>6 DEF SidecarDies, Downed
<1> QED  BY <1>7, DownedKeeps

LEMMA FailsKeeps ==
  ASSUME IInv, NEW r \in Roles, SidecarFails(r)
  PROVE  IInv'
<1> DEFINE f == sup[r].failures + 1
           s == IF f >= K THEN "DEGRADED" ELSE "RESTARTING"
           d == [sup[r] EXCEPT !.state = s, !.failures = f, !.up = FALSE]
<1>1. sup[r] \in Sidecars /\ open \in [Socks -> 0..MaxPid] /\ degraded \in BOOLEAN
  BY SupTypes
<1>2. sup[r].failures \in 0..K /\ sup[r].failures # K
  BY <1>1 DEF IInv, Generations, SidecarFails, Sidecars
<1>3. f \in 0..K /\ (f = K => s = "DEGRADED") /\ s \in {"RESTARTING", "DEGRADED", "STOPPED"}
  BY <1>2, ConstantsAssumption
<1>4. sup' = [sup EXCEPT ![r] = d]
  BY DEF SidecarFails
<1>5. degraded' \in BOOLEAN /\ UNCHANGED <<lastPid, session, stopping, pipe, run, said>>
  BY <1>1 DEF SidecarFails, markVoiceLost
<1> HIDE DEF f, s
<1>6. d \in Sidecars /\ d.state = s /\ d.failures = f /\ d.up = FALSE /\ d.addr = sup[r].addr
  BY <1>1, <1>3 DEF Sidecars
<1> HIDE DEF d
<1>7. /\ sup' \in [Roles -> Sidecars] /\ sup'[r] = d
      /\ \A q \in Roles : q # r => sup'[q] = sup[q]
  BY <1>4, <1>6, SupTypes
<1>8. /\ open' \in [Socks -> 0..MaxPid]
      /\ \A x \in Socks : open'[x] # open[x] =>
           open'[x] = 0 /\ open[x] = sup[r].addr.pid /\ sup[r].up
  BY <1>1, ConstantsAssumption DEF SidecarFails, Closed
<1>9. Downed(r)
  BY <1>3, <1>5, <1>6, <1>7, <1>8 DEF Downed
<1> QED  BY <1>9, DownedKeeps

LEMMA TerminateKeeps ==
  ASSUME IInv, NEW r \in Roles, Terminate(r)
  PROVE  IInv'
<1> DEFINE d == [sup[r] EXCEPT !.state = "STOPPED", !.failures = 0, !.up = FALSE]
<1>1. sup[r] \in Sidecars /\ open \in [Socks -> 0..MaxPid] /\ degraded \in BOOLEAN
  BY SupTypes
<1>2. sup' = [sup EXCEPT ![r] = d]
  BY DEF Terminate
<1>3. d \in Sidecars /\ d.state = "STOPPED" /\ d.failures = 0 /\ d.up = FALSE
      /\ d.addr = sup[r].addr
  <2>1. 0 \in 0..K
    BY ConstantsAssumption
  <2> QED  BY <1>1, <2>1 DEF Sidecars
<1> HIDE DEF d
<1>4. /\ sup' \in [Roles -> Sidecars] /\ sup'[r] = d
      /\ \A q \in Roles : q # r => sup'[q] = sup[q]
  BY <1>2, <1>3, SupTypes
<1>5. /\ open' \in [Socks -> 0..MaxPid]
      /\ \A s \in Socks : open'[s] # open[s] =>
           open'[s] = 0 /\ open[s] = sup[r].addr.pid /\ sup[r].up
  BY <1>1, ConstantsAssumption DEF Terminate, Closed
<1>6. Downed(r)
  BY <1>1, <1>3, <1>4, <1>5, ConstantsAssumption DEF Terminate, Downed
<1> QED  BY <1>6, DownedKeeps

\* The stable window forgives the failures, and nothing else moves.
LEMMA StableKeeps ==
  ASSUME IInv, NEW r \in Roles, StableWindow(r)
  PROVE  IInv'
<1> USE DEF IInv
<1>1. UNCHANGED <<lastPid, session, degraded, stopping, pipe, run, open, said>>
  BY DEF StableWindow
<1> DEFINE d == [sup[r] EXCEPT !.failures = 0]
<1>a. /\ d \in Sidecars /\ d.state = sup[r].state /\ d.failures = 0 /\ d.up = sup[r].up
      /\ d.addr = sup[r].addr
  <2>1. sup[r] \in Sidecars /\ 0 \in 0..K
    BY SupTypes, ConstantsAssumption
  <2> QED  BY <2>1 DEF Sidecars
<1>b. sup' = [sup EXCEPT ![r] = d]
  BY DEF StableWindow
<1> HIDE DEF d
<1>2. \A q \in Roles : /\ sup'[q].addr = sup[q].addr /\ (sup'[q].up <=> sup[q].up)
                       /\ sup'[q].state = sup[q].state
                       /\ sup'[q].failures \in {0, sup[q].failures}
  BY <1>a, <1>b, SupTypes
<1>3. sup' \in [Roles -> Sidecars]
  BY <1>a, <1>b, SupTypes
<1>4. (BothReady' <=> BothReady) /\ (Stale' <=> Stale)
  BY <1>1, <1>2 DEF BothReady, Stale, pipelineIsStale, pipe
<1>5. TypeOK'
  BY <1>1, <1>3 DEF TypeOK, Sidecars, pipe, run
<1>6. Generations'
  BY <1>1, <1>2, ConstantsAssumption DEF Generations, pipe, run
<1>7. Apart'
  BY <1>2 DEF Apart, Roles
<1>8. OneBuild' /\ OneTimer' /\ Held' /\ InHand'
  BY <1>1 DEF OneBuild, OneTimer, Held, InHand, pipe, run
<1>9. HalfWired'
  BY <1>1, <1>2 DEF HalfWired, Roles, pipe, run
<1>10. NeverGreenAndDeaf' /\ ConversationKept'
  BY <1>1, <1>4 DEF NeverGreenAndDeaf, ConversationKept, pipe, run
<1>11. WiredToTheRightSidecar'
  BY <1>1, <1>2, <1>4 DEF WiredToTheRightSidecar, pipe
<1> QED  BY <1>5, <1>6, <1>7, <1>8, <1>9, <1>10, <1>11
-----------------------------------------------------------------------------
(* A build starts in the slot b.                                            *)
Dialling(b) ==
  /\ builds' \in [Builds -> Coroutines]
  /\ builds[b].pc = "idle" /\ builds'[b].pc = "ears"
  /\ builds'[b].addr["ears"] = sup'["ears"].addr /\ builds'[b].addr["mouth"].pid = 0
  /\ \A a \in Builds : a # b => builds'[a] = builds[a]
  /\ building' = TRUE

LEMMA DialFacts ==
  ASSUME IInv, sup' \in [Roles -> Sidecars], NEW now, Dial(now)
  PROVE  /\ EnsureStarts(now) => \E b \in Builds : Dialling(b)
         /\ ~EnsureStarts(now) => building' = building /\ builds' = builds
<1>1. ASSUME EnsureStarts(now)
      PROVE  \E b \in Builds : Dialling(b)
  <2> DEFINE d == [Idle EXCEPT !.pc = "ears", !.addr["ears"] = sup'["ears"].addr]
  <2>1. sup'["ears"].addr \in Address
    BY DEF Sidecars, Roles
  <2>2. d \in Coroutines /\ d.pc = "ears" /\ d.addr["ears"] = sup'["ears"].addr
        /\ d.addr["mouth"].pid = 0
    BY <2>1, DialledFacts
  <2>3. PICK b \in Builds : builds[b].pc = "idle" /\ builds' = [builds EXCEPT ![b] = d]
    BY <1>1, Zenon DEF Dial
  <2> HIDE DEF d
  <2>4. builds \in [Builds -> Coroutines]
    BY DEF IInv, TypeOK, Coroutines
  <2>5. building' = TRUE
    BY <1>1 DEF Dial
  <2>6. Dialling(b)
    BY <2>2, <2>3, <2>4, <2>5 DEF Dialling
  <2> QED  BY <2>6
<1> QED  BY <1>1 DEF Dial

\* A build in flight has the slot it started in for itself.
LEMMA DiallingFacts ==
  ASSUME IInv, ~building, NEW b \in Builds, Dialling(b)
  PROVE  \A a \in Builds : /\ builds[a].pc = "idle"
                           /\ builds'[a].pc = IF a = b THEN "ears" ELSE "idle"
  BY DEF IInv, OneBuild, Dialling

\* The pipeline is launched once nothing is in its way.
LEMMA LaunchKeeps ==
  ASSUME IInv, router = None, ~building, ~stopping, session' = "PRIMARY",
         UNCHANGED <<env, degraded, stopping, pipe, open, said>>,
         Dial(None), handle' = FALSE, timers' = 0
  PROVE  IInv'
<1> USE DEF IInv
<1>1. sup' = sup /\ lastPid' = lastPid /\ router' = router /\ wired' = wired
      /\ ipc' = ipc /\ pending' = pending
  BY DEF env, pipe
<1>2. sup' \in [Roles -> Sidecars]
  BY <1>1, SupTypes
<1>3. EnsureStarts(None) <=> BothReady'
  BY DEF EnsureStarts
<1>4. CASE ~BothReady'
  <2>1. building' = building /\ builds' = builds
    BY <1>2, <1>3, <1>4, DialFacts
  <2>2. TypeOK'
    BY <1>1, <2>1 DEF TypeOK
  <2>3. Generations' /\ Apart' /\ OneBuild' /\ OneTimer' /\ Held' /\ InHand'
    BY <1>1, <2>1 DEF Generations, Apart, OneBuild, OneTimer, Held, InHand
  <2>4. HalfWired' /\ NeverGreenAndDeaf'
    BY <1>1, <1>4, <2>1 DEF HalfWired, NeverGreenAndDeaf
  <2>5. WiredToTheRightSidecar' /\ ConversationKept'
    BY <1>1 DEF WiredToTheRightSidecar, ConversationKept
  <2> QED  BY <2>2, <2>3, <2>4, <2>5
<1>5. CASE BothReady'
  <2>1. PICK b \in Builds : Dialling(b)
    BY <1>2, <1>3, <1>5, DialFacts
  <2>2. \A a \in Builds : builds'[a].pc = IF a = b THEN "ears" ELSE "idle"
    BY <2>1, DiallingFacts
  <2>3. TypeOK'
    BY <1>1, <2>1 DEF TypeOK, Dialling, Coroutines
  <2>4. \A a \in Builds, r \in Roles : builds'[a].addr[r].pid <= lastPid
    <3>1. lastPid \in Nat
      BY ConstantsAssumption DEF TypeOK
    <3> QED  BY <1>1, <2>1, <3>1 DEF Dialling, Generations, Roles
  <2>5. Generations' /\ Apart'
    BY <1>1, <2>4 DEF Generations, Apart
  <2>6. OneBuild' /\ OneTimer' /\ Held' /\ HalfWired'
    BY <1>1, <2>1, <2>2 DEF Dialling, OneBuild, OneTimer, Held, HalfWired
  <2>7. InHand' /\ NeverGreenAndDeaf'
    BY <1>1, <2>1 DEF InHand, NeverGreenAndDeaf, Dialling
  <2>8. WiredToTheRightSidecar' /\ ConversationKept'
    BY <1>1 DEF WiredToTheRightSidecar, ConversationKept
  <2> QED  BY <2>3, <2>5, <2>6, <2>7, <2>8
<1> QED  BY <1>4, <1>5

LEMMA RetryKeeps ==
  ASSUME IInv, RetryFires
  PROVE  IInv'
<1>1. handle /\ timers = 1 /\ router = None /\ ~building /\ ~stopping /\ session = "PRIMARY"
  BY DEF IInv, OneTimer, RetryFires
<1>2. Dial(None) /\ handle' = FALSE /\ timers' = 0
  BY <1>1 DEF RetryFires
<1>3. session' = "PRIMARY" /\ UNCHANGED <<env, degraded, stopping, pipe, open, said>>
  BY <1>1 DEF RetryFires
<1> QED  BY <1>1, <1>2, <1>3, LaunchKeeps

LEMMA PostReadyKeeps ==
  ASSUME IInv, SidecarPostReady
  PROVE  IInv'
<1>1. ~handle /\ timers = 0 /\ router = None /\ ~building /\ ~stopping
  BY DEF IInv, OneTimer, SidecarPostReady
<1>2. Dial(None) /\ handle' = FALSE /\ timers' = 0
  <2>1. handle = FALSE
    BY <1>1 DEF IInv, TypeOK
  <2> QED  BY <1>1, <2>1 DEF SidecarPostReady, ensureVoicePipeline, ClearRetry
<1>3. session' = "PRIMARY" /\ UNCHANGED <<env, degraded, stopping, pipe, open, said>>
  BY DEF SidecarPostReady
<1> QED  BY <1>1, <1>2, <1>3, LaunchKeeps

\* The boot ends without voice, or goes to its hook.
LEMMA StartKeeps ==
  ASSUME IInv, SidecarStart
  PROVE  IInv'
<1> USE DEF IInv
<1>1. /\ UNCHANGED <<env, stopping, pipe, run, open, said>>
      /\ session' \in {"postReady", "PRIMARY"} /\ degraded' \in BOOLEAN
      /\ session # "PRIMARY" /\ (session' = "PRIMARY" => ~BothReady)
  BY DEF SidecarStart
<1>2. sup' = sup /\ lastPid' = lastPid /\ router' = router /\ wired' = wired
      /\ ipc' = ipc /\ pending' = pending /\ building' = building /\ handle' = handle
      /\ timers' = timers /\ builds' = builds
  BY <1>1 DEF env, pipe, run
<1>3. TypeOK'
  BY <1>1, <1>2 DEF TypeOK
<1>4. Generations' /\ Apart' /\ OneBuild' /\ OneTimer' /\ Held' /\ InHand' /\ HalfWired'
  BY <1>1, <1>2 DEF Generations, Apart, OneBuild, OneTimer, Held, InHand, HalfWired
<1>5. NeverGreenAndDeaf'
  BY <1>1, <1>2 DEF NeverGreenAndDeaf, BothReady
<1>6. WiredToTheRightSidecar' /\ ConversationKept'
  BY <1>1, <1>2 DEF WiredToTheRightSidecar, ConversationKept, Stale, pipelineIsStale
<1> QED  BY <1>3, <1>4, <1>5, <1>6
-----------------------------------------------------------------------------
(* A sidecar has a new pid, so whatever was wired to its role is stale.     *)
Reborn(r) ==
  /\ sup' \in [Roles -> Sidecars]
  /\ lastPid' = lastPid + 1 /\ lastPid' \in 0..MaxPid
  /\ sup'[r].addr.pid = lastPid' /\ sup'[r].state = "READY"
  /\ sup'[r].failures = sup[r].failures /\ sup[r].failures # K
  /\ \A q \in Roles : q # r =>
       sup'[q] = sup[q] /\ (sup[q].up => sup[q].addr.port # sup'[r].addr.port)
  /\ ~stopping /\ UNCHANGED <<session, stopping, said>>

LEMMA RebornFacts ==
  ASSUME IInv, NEW r \in Roles, SidecarReady(r)
  PROVE  Reborn(r)
<1>1. PICK p \in Ports :
        /\ \A q \in Roles : sup[q].up => sup[q].addr.port # p
        /\ sup' = [sup EXCEPT ![r] = [@ EXCEPT !.state = "READY",
                     !.addr = [port |-> p, pid |-> lastPid'], !.up = TRUE]]
  BY DEF SidecarReady
<1>2. lastPid' = lastPid + 1 /\ lastPid' \in 0..MaxPid
  BY ConstantsAssumption DEF IInv, TypeOK, SidecarReady
<1> DEFINE a == [port |-> p, pid |-> lastPid']
           d == [sup[r] EXCEPT !.state = "READY", !.addr = a, !.up = TRUE]
<1>3. a \in Address /\ a.pid = lastPid' /\ a.port = p
  BY <1>2, TypesOfData
<1>4. sup' = [sup EXCEPT ![r] = d]
  BY <1>1
<1> HIDE DEF a
<1>5. sup[r] \in Sidecars
  BY SupTypes
<1>6. d \in Sidecars /\ d.state = "READY" /\ d.addr = a /\ d.failures = sup[r].failures
  BY <1>3, <1>5 DEF Sidecars
<1> HIDE DEF d
<1>7. /\ sup' \in [Roles -> Sidecars] /\ sup'[r] = d
      /\ \A q \in Roles : q # r => sup'[q] = sup[q]
  BY <1>4, <1>6, SupTypes
<1>8. /\ sup[r].state \in {"SPAWNING", "RESTARTING"} /\ ~stopping
      /\ UNCHANGED <<session, stopping, said>>
  BY DEF SidecarReady
<1>9. sup[r].failures # K
  BY <1>8 DEF IInv, Generations
<1> QED  BY <1>1, <1>2, <1>3, <1>6, <1>7, <1>8, <1>9 DEF Reborn

(* What refreshVoiceReady may do of the pipeline.                           *)
Left       == UNCHANGED <<pipe, run, open>>
Relaunched ==
  /\ router = None /\ ~building /\ UNCHANGED <<pipe, open>>
  /\ handle' = FALSE /\ timers' = 0 /\ \E b \in Builds : Dialling(b)
TornDown   ==
  /\ router # None /\ router' = None /\ pending' = router /\ wired' = wired
  /\ ipc' = [r \in Roles |-> None] /\ open' = Closed({ipc[r] : r \in Roles})
  /\ handle' = FALSE /\ timers' = 0 /\ \E b \in Builds : Dialling(b)

LEMMA RefreshFacts ==
  ASSUME IInv, NEW r \in Roles, SidecarReady(r), Reborn(r)
  PROVE  /\ degraded' \in BOOLEAN
         /\ \/ Left /\ (session = "PRIMARY" /\ BothReady' => building)
            \/ session = "PRIMARY" /\ (Relaunched \/ TornDown)
<1>1. refreshVoiceReady /\ session' = session /\ ~stopping /\ stopping' = stopping
  BY DEF SidecarReady, Reborn
<1>2. pipelineIsStale(wired, sup')
  <2>1. lastPid \in Nat /\ wired[r].pid <= lastPid /\ wired[r].pid \in Nat
    BY ConstantsAssumption DEF IInv, TypeOK, Generations, Address
  <2>2. sup'[r].addr.pid = lastPid + 1
    BY DEF Reborn
  <2> QED  BY <2>1, <2>2 DEF pipelineIsStale
<1>3. degraded \in BOOLEAN /\ (handle \in BOOLEAN)
  BY DEF IInv, TypeOK
<1>4. CASE ~(session = "PRIMARY" /\ BothReady')
  <2>1. Left /\ degraded' = degraded
    BY <1>1, <1>4 DEF refreshVoiceReady, Left
  <2> QED  BY <1>3, <1>4, <2>1
<1>5. CASE session = "PRIMARY" /\ BothReady' /\ router # None
  <2>1. ~building /\ handle = FALSE /\ timers = 0
    BY <1>3, <1>5 DEF IInv, OneBuild, OneTimer
  <2>2. degraded' = FALSE /\ router' = None /\ teardownStalePipeline /\ ensureVoicePipeline(None)
    BY <1>1, <1>2, <1>5, Zenon DEF refreshVoiceReady
  <2>3. EnsureStarts(None)
    BY <1>1, <1>5, <2>1 DEF EnsureStarts
  <2>4. Dial(None) /\ handle' = FALSE /\ timers' = 0
    BY <2>1, <2>2, <2>3 DEF ensureVoicePipeline, ClearRetry
  <2>5. \E b \in Builds : Dialling(b)
    BY <2>3, <2>4, DialFacts DEF Reborn
  <2>6. pending' = router /\ wired' = wired
        /\ ipc' = [q \in Roles |-> None] /\ open' = Closed({ipc[q] : q \in Roles})
    BY <2>2 DEF teardownStalePipeline, exportHandoff
  <2>7. TornDown
    BY <1>5, <2>2, <2>4, <2>5, <2>6 DEF TornDown
  <2> QED  BY <1>5, <2>2, <2>7
<1>6. CASE session = "PRIMARY" /\ BothReady' /\ router = None
  <2>1. /\ degraded' = FALSE /\ router' = router /\ ensureVoicePipeline(None)
        /\ UNCHANGED <<pending, open, ipc, wired>>
    BY <1>1, <1>6, Zenon DEF refreshVoiceReady
  <2>2. UNCHANGED <<pipe, open>>
    BY <2>1 DEF pipe
  <2>3. EnsureStarts(None) <=> ~building
    BY <1>1, <1>6 DEF EnsureStarts
  <2>4. CASE building
    <3>1. ~EnsureStarts(None)
      BY <2>3, <2>4
    <3>2. handle' = handle /\ timers' = timers /\ building' = building /\ builds' = builds
      BY <2>1, <3>1 DEF ensureVoicePipeline, Dial
    <3>3. Left
      BY <2>2, <3>2 DEF Left, run
    <3> QED  BY <2>1, <2>4, <3>3
  <2>5. CASE ~building
    <3>1. Dial(None) /\ ClearRetry
      BY <2>1, <2>3, <2>5 DEF ensureVoicePipeline
    <3>2. handle' = FALSE /\ timers' = 0
      BY <1>3, <3>1 DEF ClearRetry, IInv, OneTimer
    <3>3. \E b \in Builds : Dialling(b)
      BY <2>3, <2>5, <3>1, DialFacts DEF Reborn
    <3>4. Relaunched
      BY <1>6, <2>2, <2>5, <3>2, <3>3 DEF Relaunched
    <3> QED  BY <1>6, <2>1, <3>4
  <2> QED  BY <2>4, <2>5
<1> QED  BY <1>4, <1>5, <1>6

\* What the birth alone guarantees.
LEMMA RebornKeeps ==
  ASSUME IInv, NEW r \in Roles, Reborn(r), wired' = wired
  PROVE  Apart' /\ Stale' /\ \A q \in Roles : sup'[q].addr.pid <= lastPid'
<1> USE DEF IInv
<1>1. /\ lastPid \in Nat /\ \A q \in Roles : sup[q].addr.pid \in Nat /\ wired[q].pid \in Nat
      /\ \A q \in Roles : sup[q].addr.pid <= lastPid /\ wired[q].pid <= lastPid
  BY ConstantsAssumption DEF TypeOK, Generations, Address
<1>2. sup'[r].addr.pid = lastPid + 1 /\ lastPid' = lastPid + 1
  BY DEF Reborn
<1>3. \A q \in Roles : sup'[q].addr.pid <= lastPid'
  BY <1>1, <1>2 DEF Reborn
<1>4. Stale'
  BY <1>1, <1>2 DEF Stale, pipelineIsStale
<1>5. Apart'
  BY <1>1, <1>2 DEF Apart, Reborn, Roles
<1> QED  BY <1>3, <1>4, <1>5

LEMMA ReadyKeeps ==
  ASSUME IInv, NEW r \in Roles, SidecarReady(r)
  PROVE  IInv'
<1> USE DEF IInv
<1>1. Reborn(r)
  BY RebornFacts
<1>2. /\ degraded' \in BOOLEAN
      /\ \/ Left /\ (session = "PRIMARY" /\ BothReady' => building)
         \/ session = "PRIMARY" /\ (Relaunched \/ TornDown)
  BY <1>1, RefreshFacts
<1>3. wired' = wired
  BY <1>2 DEF Left, Relaunched, TornDown, pipe
<1>4. Apart' /\ Stale' /\ \A q \in Roles : sup'[q].addr.pid <= lastPid'
  BY <1>1, <1>3, RebornKeeps
<1>5. sup' \in [Roles -> Sidecars] /\ lastPid' \in 0..MaxPid /\ lastPid' = lastPid + 1
      /\ ~stopping /\ session' = session /\ stopping' = stopping /\ said' = said
  BY <1>1 DEF Reborn
<1>6. \A q \in Roles : sup'[q].failures = K => sup'[q].state = "DEGRADED"
  BY <1>1 DEF Reborn, Generations
<1>7. lastPid \in Nat /\ \A q \in Roles : wired[q].pid \in Nat
      /\ \A b \in Builds : builds[b].addr[q].pid \in Nat
  BY ConstantsAssumption DEF TypeOK, Address
<1>8. \A q \in Roles : wired[q].pid <= lastPid'
      /\ \A b \in Builds : builds[b].addr[q].pid <= lastPid'
  BY <1>5, <1>7 DEF Generations
<1>9. WiredToTheRightSidecar'
  BY <1>4 DEF WiredToTheRightSidecar
<1>10. CASE Left /\ (session = "PRIMARY" /\ BothReady' => building)
  <2>1. /\ router' = router /\ ipc' = ipc /\ pending' = pending /\ building' = building
        /\ handle' = handle /\ timers' = timers /\ builds' = builds /\ open' = open
    BY <1>10 DEF Left, pipe, run
  <2>2. TypeOK'
    BY <1>2, <1>3, <1>5, <2>1 DEF TypeOK, Sidecars
  <2>3. Generations'
    BY <1>3, <1>4, <1>6, <1>8, <2>1 DEF Generations
  <2>4. OneBuild' /\ OneTimer' /\ Held' /\ InHand'
    BY <1>5, <2>1 DEF OneBuild, OneTimer, Held, InHand
  <2>5. HalfWired'
    <3> SUFFICES ASSUME NEW b \in Builds, builds[b].pc = "mouth", sup'["ears"].up,
                        builds[b].addr["ears"] = sup'["ears"].addr
                 PROVE  open[ipc["ears"]] = sup'["ears"].addr.pid
      BY <2>1 DEF HalfWired
    <3>1. r # "ears"
      <4>1. builds[b].addr["ears"].pid <= lastPid /\ builds[b].addr["ears"].pid \in Nat
        BY <1>7 DEF Generations, Roles
      <4> QED  BY <1>1, <1>7, <4>1 DEF Reborn
    <3>2. sup'["ears"] = sup["ears"]
      BY <1>1, <3>1 DEF Reborn, Roles
    <3> QED  BY <1>5, <3>2 DEF HalfWired
  <2>6. NeverGreenAndDeaf'
    BY <1>5, <1>10, <2>1 DEF NeverGreenAndDeaf
  <2>7. ConversationKept'
    BY <1>5, <2>1 DEF ConversationKept
  <2> QED  BY <1>4, <1>9, <2>2, <2>3, <2>4, <2>5, <2>6, <2>7
<1>11. ASSUME NEW b \in Builds, Dialling(b), ~building, session = "PRIMARY",
              router' = None, handle' = FALSE, timers' = 0,
              ipc' = [q \in Roles |-> None], \A s \in Socks : open'[s] = 0,
              open' \in [Socks -> 0..MaxPid], pending' \in Conv \cup {None},
              resumeAfterRespawn(pending') = said
       PROVE  IInv'
  <2>1. \A a \in Builds : builds'[a].pc = IF a = b THEN "ears" ELSE "idle"
    BY <1>11, DiallingFacts
  <2>2. TypeOK'
    BY <1>2, <1>3, <1>5, <1>11 DEF TypeOK, Dialling, Sidecars, Coroutines
  <2>3. \A a \in Builds, q \in Roles : builds'[a].addr[q].pid <= lastPid'
    <3>1. builds'[b].addr["ears"].pid <= lastPid'
      BY <1>4, <1>11 DEF Dialling, Roles
    <3>2. builds'[b].addr["mouth"].pid <= lastPid'
      BY <1>5, <1>7, <1>11 DEF Dialling
    <3> QED  BY <1>8, <1>11, <3>1, <3>2 DEF Dialling, Roles
  <2>4. Generations'
    BY <1>3, <1>4, <1>6, <1>8, <2>3 DEF Generations
  <2>5. OneBuild' /\ OneTimer' /\ Held' /\ InHand' /\ HalfWired'
    BY <1>5, <1>11, <2>1 DEF Dialling, OneBuild, OneTimer, Held, InHand, HalfWired
  <2>6. NeverGreenAndDeaf' /\ ConversationKept'
    BY <1>5, <1>11 DEF NeverGreenAndDeaf, ConversationKept, Dialling
  <2> QED  BY <1>4, <1>9, <2>2, <2>4, <2>5, <2>6
<1>12. CASE session = "PRIMARY" /\ Relaunched
  <2>1. PICK b \in Builds : Dialling(b)
    BY <1>12 DEF Relaunched
  <2>2. /\ router' = None /\ handle' = FALSE /\ timers' = 0 /\ ~building
        /\ ipc' = ipc /\ open' = open /\ pending' = pending /\ router = None
    BY <1>12 DEF Relaunched, pipe
  <2>3. ipc = [q \in Roles |-> None]
    BY <2>2 DEF TypeOK, Held
  <2>4. \A s \in Socks : open[s] = 0
    BY <2>3, ConstantsAssumption DEF InHand, Roles
  <2>5. resumeAfterRespawn(pending) = said
    BY <1>5, <2>2 DEF ConversationKept
  <2>6. open \in [Socks -> 0..MaxPid] /\ pending \in Conv \cup {None}
    BY DEF TypeOK
  <2> QED  BY <1>11, <1>12, <2>1, <2>2, <2>3, <2>4, <2>5, <2>6
<1>13. CASE session = "PRIMARY" /\ TornDown
  <2>1. PICK b \in Builds : Dialling(b)
    BY <1>13 DEF TornDown
  <2>2. /\ router' = None /\ handle' = FALSE /\ timers' = 0 /\ router # None
        /\ ipc' = [q \in Roles |-> None] /\ pending' = router
        /\ open' = Closed({ipc[q] : q \in Roles})
    BY <1>13 DEF TornDown
  <2>3. ~building
    BY <2>2 DEF OneBuild
  <2>4. open' \in [Socks -> 0..MaxPid] /\ \A s \in Socks : open'[s] = 0
    BY <2>2, ConstantsAssumption DEF TypeOK, Closed, InHand, Roles
  <2>5. pending' \in Conv \cup {None} /\ resumeAfterRespawn(pending') = said
    BY <1>5, <2>2 DEF TypeOK, ConversationKept, resumeAfterRespawn
  <2> QED  BY <1>11, <1>13, <2>1, <2>2, <2>3, <2>4, <2>5
<1> QED  BY <1>2, <1>10, <1>12, <1>13
-----------------------------------------------------------------------------
\* Stopping the voice closes what is held and disarms the retry.
LEMMA StopKeeps ==
  ASSUME IInv, StopVoice
  PROVE  IInv'
<1> USE DEF IInv
<1>1. /\ stopping' = TRUE /\ ~stopping /\ session = "PRIMARY"
      /\ UNCHANGED <<env, session, degraded, pipe, building, builds, said>>
      /\ open' = Closed({ipc[r] : r \in Roles})
  BY DEF StopVoice
<1>2. /\ sup' = sup /\ lastPid' = lastPid /\ router' = router /\ wired' = wired
      /\ ipc' = ipc /\ pending' = pending /\ building' = building /\ builds' = builds
      /\ session' = session /\ degraded' = degraded /\ said' = said
  BY <1>1 DEF env, pipe
<1>3. handle' = FALSE /\ timers' = 0
  <2>1. handle \in BOOLEAN /\ timers = IF handle THEN 1 ELSE 0
    BY DEF TypeOK, OneTimer
  <2> QED  BY <2>1 DEF StopVoice, ClearRetry
<1>4. open' \in [Socks -> 0..MaxPid] /\ \A s \in Socks : open'[s] = 0
  BY <1>1, ConstantsAssumption DEF TypeOK, Closed, InHand, Roles
<1>5. TypeOK'
  BY <1>1, <1>2, <1>3, <1>4 DEF TypeOK
<1>6. Generations' /\ Apart' /\ OneBuild' /\ OneTimer' /\ Held'
  BY <1>1, <1>2, <1>3 DEF Generations, Apart, OneBuild, OneTimer, Held
<1>7. InHand' /\ HalfWired' /\ NeverGreenAndDeaf' /\ WiredToTheRightSidecar' /\ ConversationKept'
  BY <1>1, <1>4
  DEF InHand, HalfWired, NeverGreenAndDeaf, WiredToTheRightSidecar, ConversationKept
<1> QED  BY <1>5, <1>6, <1>7

\* An exchange moves the router's conversation and what is remembered of it.
LEMMA ExchangeKeeps ==
  ASSUME IInv, Exchange
  PROVE  IInv'
<1> USE DEF IInv
<1>1. PICK c \in Conv : router' = c /\ said' = c
  BY DEF Exchange
<1>2. /\ UNCHANGED <<env, session, degraded, stopping, wired, ipc, pending, run, open>>
      /\ router # None
  BY DEF Exchange
<1>3. /\ sup' = sup /\ lastPid' = lastPid /\ building' = building /\ builds' = builds
      /\ handle' = handle /\ timers' = timers
  BY <1>2 DEF env, run
<1>4. router' # None
  BY <1>1, ConstantsAssumption
<1>5. TypeOK'
  BY <1>1, <1>2, <1>3 DEF TypeOK
<1>6. Generations' /\ Apart' /\ OneBuild' /\ OneTimer' /\ Held' /\ InHand' /\ HalfWired'
  BY <1>2, <1>3, <1>4 DEF Generations, Apart, OneBuild, OneTimer, Held, InHand, HalfWired
<1>7. NeverGreenAndDeaf'
  BY <1>2, <1>3, <1>4 DEF NeverGreenAndDeaf, BothReady, Stale, pipelineIsStale
<1>8. WiredToTheRightSidecar'
  BY <1>2, <1>3 DEF WiredToTheRightSidecar, Stale, pipelineIsStale
<1>9. ConversationKept'
  BY <1>1, <1>2, <1>4 DEF ConversationKept
<1> QED  BY <1>5, <1>6, <1>7, <1>8, <1>9
-----------------------------------------------------------------------------
\* A port is answered by the live sidecar that has it, for no two share it.
LEMMA ListenerFacts ==
  ASSUME IInv
  PROVE  /\ \A p \in Ports \cup {None} : Listener(p) \in 0..MaxPid
         /\ \A r \in Roles : sup[r].up => Listener(sup[r].addr.port) = sup[r].addr.pid
<1>1. \A r \in Roles : sup[r].addr \in Address
  BY SupTypes DEF Sidecars
<1>2. ASSUME NEW p \in Ports \cup {None}
      PROVE  Listener(p) \in 0..MaxPid
  <2>1. CASE \E r \in Roles : sup[r].up /\ sup[r].addr.port = p
    <3> DEFINE r == CHOOSE r \in Roles : sup[r].up /\ sup[r].addr.port = p
    <3>1. r \in Roles
      BY <2>1
    <3> HIDE DEF r
    <3>2. sup[r].addr.pid \in 0..MaxPid
      BY <1>1, <3>1 DEF Address
    <3> QED  BY <2>1, <3>2 DEF Listener, r
  <2>2. CASE ~\E r \in Roles : sup[r].up /\ sup[r].addr.port = p
    BY <2>2, ConstantsAssumption DEF Listener
  <2> QED  BY <2>1, <2>2
<1>3. ASSUME NEW q \in Roles, sup[q].up
      PROVE  Listener(sup[q].addr.port) = sup[q].addr.pid
  <2> DEFINE p == sup[q].addr.port
             r == CHOOSE r \in Roles : sup[r].up /\ sup[r].addr.port = p
  <2>1. r \in Roles /\ sup[r].up /\ sup[r].addr.port = p
    BY <1>3
  <2>2. Listener(p) = sup[r].addr.pid
    BY <1>3 DEF Listener
  <2> HIDE DEF r
  <2>3. r = q
    BY <1>3, <2>1 DEF IInv, Apart, Roles
  <2> QED  BY <2>2, <2>3
<1> QED  BY <1>2, <1>3

\* While a build is in flight nothing else is.
LEMMA BuildingFacts ==
  ASSUME IInv, NEW b \in Builds, builds[b].pc # "idle"
  PROVE  /\ building /\ building = TRUE /\ router = None
         /\ handle = FALSE /\ timers = 0 /\ session = "PRIMARY"
         /\ \A a \in Builds : a # b => builds[a].pc = "idle"
  BY DEF IInv, TypeOK, OneBuild, OneTimer

(* A build ends without a router: everything it held is closed, and a retry *)
(* is armed unless the application stops.                                   *)
GivenUp(b) ==
  /\ EndBuild(b) /\ builds[b].pc # "idle"
  /\ router' = None /\ ipc' = [r \in Roles |-> None]
  /\ open' \in [Socks -> 0..MaxPid] /\ \A s \in Socks : open'[s] = 0
  /\ IF stopping THEN handle' = FALSE /\ timers' = 0 ELSE handle' = TRUE /\ timers' = 1
  /\ wired' \in [Roles -> Address] /\ \A r \in Roles : wired'[r].pid <= lastPid
  /\ pending' \in Conv \cup {None} /\ resumeAfterRespawn(pending') = resumeAfterRespawn(pending)
  /\ UNCHANGED <<env, session, degraded, stopping, said>>

LEMMA GivenUpKeeps ==
  ASSUME IInv, NEW b \in Builds, GivenUp(b)
  PROVE  IInv'
<1> USE DEF IInv
<1>1. /\ sup' = sup /\ lastPid' = lastPid /\ session' = session /\ degraded' = degraded
      /\ stopping' = stopping /\ said' = said /\ router' = None
      /\ builds' = [builds EXCEPT ![b] = Idle] /\ building' = FALSE
  BY DEF GivenUp, EndBuild, env
<1>2. /\ building /\ router = None /\ session = "PRIMARY"
      /\ \A a \in Builds : a # b => builds[a].pc = "idle"
  BY BuildingFacts DEF GivenUp
<1>3. /\ builds' \in [Builds -> Coroutines]
      /\ \A a \in Builds : builds'[a].pc = "idle"
      /\ \A a \in Builds : builds'[a] \in {Idle, builds[a]}
  BY <1>1, <1>2, TypesOfData DEF TypeOK, Coroutines
<1>4. TypeOK'
  <2>1. handle' \in BOOLEAN
    BY Zenon DEF GivenUp
  <2>a. timers' \in Nat
    <3>1. timers' = 0 \/ timers' = 1
      BY Zenon DEF GivenUp
    <3> QED  BY <3>1
  <2>2. ipc' \in [Roles -> Socks \cup {None}]
    BY DEF GivenUp
  <2> QED  BY <1>1, <1>3, <2>1, <2>a, <2>2 DEF TypeOK, GivenUp, Coroutines
<1>5. Generations'
  <2>1. lastPid \in Nat
    BY ConstantsAssumption DEF TypeOK
  <2>2. \A a \in Builds, r \in Roles : builds'[a].addr[r].pid <= lastPid
    BY <1>3, <2>1, TypesOfData DEF Generations
  <2> QED  BY <1>1, <2>2 DEF Generations, GivenUp
<1>6. Apart' /\ OneBuild'
  BY <1>1, <1>3 DEF Apart, OneBuild
<1>7. OneTimer'
  BY <1>1, <1>2 DEF OneTimer, GivenUp
<1>8. Held' /\ InHand' /\ HalfWired'
  BY <1>1, <1>3 DEF Held, InHand, HalfWired, GivenUp
<1>9. NeverGreenAndDeaf' /\ WiredToTheRightSidecar'
  BY <1>1 DEF NeverGreenAndDeaf, WiredToTheRightSidecar, GivenUp
<1>10. ConversationKept'
  BY <1>1, <1>2 DEF ConversationKept, GivenUp
<1> QED  BY <1>4, <1>5, <1>6, <1>7, <1>8, <1>9, <1>10

\* What a build in flight holds is all there is.
LEMMA HeldByBuild ==
  ASSUME IInv, NEW b \in Builds, builds[b].pc # "idle"
  PROVE  /\ \A s \in Socks : open[s] # 0 => ipc["ears"] = s
         /\ ipc["mouth"] = None
         /\ builds[b].pc = "ears" => ipc["ears"] = None /\ \A s \in Socks : open[s] = 0
         /\ builds[b].pc = "mouth" => ipc["ears"] = builds[b].sock["ears"] /\ ipc["ears"] # None
         /\ ipc \in [Roles -> Socks \cup {None}] /\ open \in [Socks -> 0..MaxPid]
<1>1. builds[b].pc \in {"ears", "mouth"}
  BY DEF IInv, TypeOK, Roles
<1> QED  BY <1>1, ConstantsAssumption DEF IInv, TypeOK, Held, InHand, Roles

LEMMA BuildFailsKeeps ==
  ASSUME IInv, NEW b \in Builds, BuildFails(b)
  PROVE  IInv'
<1>1. handle = FALSE /\ timers = 0
  BY BuildingFacts DEF BuildFails
<1>2. stopping \in BOOLEAN /\ wired \in [Roles -> Address] /\ pending \in Conv \cup {None}
      /\ \A r \in Roles : wired[r].pid <= lastPid
  BY DEF IInv, TypeOK, Generations
<1>3. IF stopping THEN handle' = FALSE /\ timers' = 0 ELSE handle' = TRUE /\ timers' = 1
  BY <1>1, <1>2 DEF BuildFails, ArmRetry
<1>4. open' \in [Socks -> 0..MaxPid] /\ \A s \in Socks : open'[s] = 0
  BY HeldByBuild, ConstantsAssumption DEF BuildFails, Closed, Roles
<1>5. GivenUp(b)
  BY <1>2, <1>3, <1>4 DEF BuildFails, GivenUp
<1> QED  BY <1>5, GivenUpKeeps

LEMMA TooLateKeeps ==
  ASSUME IInv, NEW b \in Builds, MouthConnectedTooLate(b)
  PROVE  IInv'
<1>1. handle = FALSE /\ timers = 0 /\ router = None
  BY BuildingFacts DEF MouthConnectedTooLate
<1>2. stopping = TRUE /\ wired \in [Roles -> Address] /\ pending \in Conv \cup {None}
      /\ \A r \in Roles : wired[r].pid <= lastPid
  BY DEF IInv, TypeOK, Generations, MouthConnectedTooLate
<1>3. IF stopping THEN handle' = FALSE /\ timers' = 0 ELSE handle' = TRUE /\ timers' = 1
  BY <1>1, <1>2 DEF MouthConnectedTooLate
<1>4. open' \in [Socks -> 0..MaxPid] /\ \A s \in Socks : open'[s] = 0
  BY HeldByBuild, ConstantsAssumption DEF MouthConnectedTooLate, Closed
<1>5. ipc' = [r \in Roles |-> None]
  <2>1. ipc["mouth"] = None /\ ipc \in [Roles -> Socks \cup {None}]
    BY HeldByBuild DEF MouthConnectedTooLate
  <2> QED  BY <2>1 DEF MouthConnectedTooLate, Roles
<1>6. GivenUp(b)
  BY <1>1, <1>2, <1>3, <1>4, <1>5 DEF MouthConnectedTooLate, GivenUp
<1> QED  BY <1>6, GivenUpKeeps

LEMMA EarsKeeps ==
  ASSUME IInv, NEW b \in Builds, EarsConnected(b)
  PROVE  IInv'
<1> USE DEF IInv
<1>1. /\ builds[b].pc = "ears"
      /\ UNCHANGED <<env, session, degraded, stopping, router, wired, pending, handle, timers, said>>
  BY DEF EarsConnected
<1>2. /\ building /\ building = TRUE /\ router = None /\ handle = FALSE /\ timers = 0
      /\ session = "PRIMARY" /\ \A a \in Builds : a # b => builds[a].pc = "idle"
  BY <1>1, BuildingFacts
<1>3. /\ ipc["ears"] = None /\ ipc["mouth"] = None /\ \A s \in Socks : open[s] = 0
      /\ ipc \in [Roles -> Socks \cup {None}] /\ open \in [Socks -> 0..MaxPid]
  BY <1>1, HeldByBuild
<1>4. stopping \in BOOLEAN /\ wired \in [Roles -> Address] /\ pending \in Conv \cup {None}
      /\ \A r \in Roles : wired[r].pid <= lastPid
  BY DEF TypeOK, Generations
<1>5. CASE stopping
  <2>1. EndBuild(b) /\ open' = open /\ ipc' = ipc
    BY <1>5 DEF EarsConnected
  <2>2. ipc' = [r \in Roles |-> None]
    BY <1>3, <2>1 DEF Roles
  <2>3. GivenUp(b)
    BY <1>1, <1>2, <1>3, <1>4, <1>5, <2>1, <2>2 DEF GivenUp
  <2> QED  BY <2>3, GivenUpKeeps
<1>6. CASE ~stopping
  <2> DEFINE peer == Listener(builds[b].addr["ears"].port)
  <2>1. PICK s \in Socks :
          /\ open' = [open EXCEPT ![s] = peer] /\ ipc' = [ipc EXCEPT !["ears"] = s]
          /\ builds' = [builds EXCEPT ![b] =
               [@ EXCEPT !.pc = "mouth", !.addr["mouth"] = sup["mouth"].addr,
                         !.sock["ears"] = s]]
          /\ building' = building
    BY <1>6, Zenon DEF EarsConnected
  <2>2. builds[b] \in Coroutines /\ builds \in [Builds -> Coroutines]
    BY DEF TypeOK, Coroutines
  <2>3. builds[b].addr["ears"].port \in Ports \cup {None} /\ sup["mouth"].addr \in Address
    BY <2>2, SupTypes DEF Coroutines, Address, Sidecars, Roles
  <2>4. peer \in 0..MaxPid
    BY <2>3, ListenerFacts
  <2> DEFINE d == Half(builds[b], sup["mouth"].addr, s)
  <2>5. d \in Coroutines /\ d.pc = "mouth" /\ d.sock["ears"] = s
        /\ d.addr["ears"] = builds[b].addr["ears"] /\ d.addr["mouth"] = sup["mouth"].addr
    BY <2>2, <2>3, HalfFacts
  <2>6. builds' = [builds EXCEPT ![b] = d]
    BY <2>1 DEF Half
  <2> HIDE DEF d, peer
  <2>7. builds' \in [Builds -> Coroutines] /\ builds'[b] = d
        /\ \A a \in Builds : a # b => builds'[a] = builds[a]
    BY <2>2, <2>5, <2>6
  <2>8. /\ sup' = sup /\ lastPid' = lastPid /\ session' = session /\ degraded' = degraded
        /\ stopping' = stopping /\ router' = router /\ wired' = wired /\ pending' = pending
        /\ handle' = handle /\ timers' = timers /\ said' = said
    BY <1>1 DEF env
  <2>9. /\ open' \in [Socks -> 0..MaxPid] /\ open'[s] = peer
        /\ \A x \in Socks : x # s => open'[x] = 0
        /\ ipc' \in [Roles -> Socks \cup {None}] /\ ipc'["ears"] = s /\ ipc'["mouth"] = None
        /\ s # None
    BY <1>3, <2>1, <2>4, ConstantsAssumption DEF Roles
  <2>10. TypeOK'
    BY <1>2, <2>1, <2>7, <2>8, <2>9 DEF TypeOK, Coroutines
  <2>11. Generations' /\ Apart'
    <3>1. \A r \in Roles : d.addr[r].pid <= lastPid
      BY <2>5 DEF Generations, Roles
    <3> QED  BY <2>7, <2>8, <3>1 DEF Generations, Apart
  <2>12. OneBuild' /\ OneTimer'
    BY <1>2, <2>1, <2>5, <2>7, <2>8 DEF OneBuild, OneTimer
  <2>13. Held' /\ InHand'
    BY <1>2, <1>6, <2>1, <2>5, <2>7, <2>8, <2>9 DEF Held, InHand, Roles
  <2>14. HalfWired'
    <3> SUFFICES ASSUME sup["ears"].up, builds[b].addr["ears"] = sup["ears"].addr
                 PROVE  open'[ipc'["ears"]] = sup["ears"].addr.pid
      BY <1>2, <2>5, <2>7, <2>8 DEF HalfWired
    <3>1. peer = sup["ears"].addr.pid
      BY ListenerFacts DEF peer, Roles
    <3> QED  BY <2>9, <3>1
  <2>15. NeverGreenAndDeaf' /\ WiredToTheRightSidecar' /\ ConversationKept'
    BY <1>2, <2>1, <2>8 DEF NeverGreenAndDeaf, WiredToTheRightSidecar, ConversationKept
  <2> QED  BY <2>10, <2>11, <2>12, <2>13, <2>14, <2>15
<1> QED  BY <1>5, <1>6

LEMMA MouthKeeps ==
  ASSUME IInv, NEW b \in Builds, MouthConnected(b)
  PROVE  IInv'
<1> USE DEF IInv
<1>1. /\ builds[b].pc = "mouth" /\ ~stopping /\ wired' = builds[b].addr /\ EndBuild(b)
      /\ UNCHANGED <<env, session, degraded, stopping, said>>
  BY DEF MouthConnected, Composed
<1>2. /\ building /\ building = TRUE /\ router = None /\ handle = FALSE /\ timers = 0
      /\ session = "PRIMARY" /\ \A a \in Builds : a # b => builds[a].pc = "idle"
  BY <1>1, BuildingFacts
<1>3. /\ ipc["ears"] # None /\ ipc["mouth"] = None /\ ipc["ears"] \in Socks
      /\ \A s \in Socks : open[s] # 0 => ipc["ears"] = s
      /\ ipc \in [Roles -> Socks \cup {None}] /\ open \in [Socks -> 0..MaxPid]
  BY <1>1, HeldByBuild DEF Roles
<1>4. /\ sup' = sup /\ lastPid' = lastPid /\ session' = session /\ degraded' = degraded
      /\ stopping' = stopping /\ said' = said
      /\ builds' = [builds EXCEPT ![b] = Idle] /\ building' = FALSE
  BY <1>1 DEF env, EndBuild
<1>5. builds[b] \in Coroutines /\ pending \in Conv \cup {None}
  BY DEF TypeOK, Coroutines
<1>6. wired' \in [Roles -> Address] /\ \A r \in Roles : wired'[r].pid <= lastPid
  BY <1>1, <1>5 DEF Generations, Coroutines
<1>7. resumeAfterRespawn(pending) \in Conv /\ resumeAfterRespawn(pending) # None
  BY <1>5, ConstantsAssumption DEF resumeAfterRespawn, Conv
<1>8. CASE pipelineIsStale(wired', sup)
  <2>1. /\ router' = None /\ pending' = resumeAfterRespawn(pending)
        /\ open' = Closed({ipc["ears"]}) /\ ipc' = [r \in Roles |-> None] /\ ArmRetry
    BY <1>8 DEF MouthConnected
  <2>2. handle' = TRUE /\ timers' = 1
    BY <1>2, <2>1 DEF ArmRetry
  <2>3. open' \in [Socks -> 0..MaxPid] /\ \A s \in Socks : open'[s] = 0
    BY <1>3, <2>1, ConstantsAssumption DEF Closed
  <2>4. resumeAfterRespawn(pending') = resumeAfterRespawn(pending)
    BY <1>7, <2>1 DEF resumeAfterRespawn
  <2>5. GivenUp(b)
    BY <1>1, <1>6, <1>7, <2>1, <2>2, <2>3, <2>4 DEF GivenUp
  <2> QED  BY <2>5, GivenUpKeeps
<1>9. CASE ~pipelineIsStale(wired', sup)
  <2> DEFINE peer == Listener(builds[b].addr["mouth"].port)
  <2>1. PICK s \in Socks :
          /\ FreeSock(s)
          /\ open' = [open EXCEPT ![s] = peer] /\ ipc' = [ipc EXCEPT !["mouth"] = s]
    BY <1>9 DEF MouthConnected
  <2>2. /\ router' = resumeAfterRespawn(pending) /\ pending' = None
        /\ handle' = handle /\ timers' = timers
    BY <1>9 DEF MouthConnected
  <2>3. router' \in Conv /\ router' # None
    BY <1>7, <2>2
  <2>4. builds[b].addr["mouth"].port \in Ports \cup {None}
    BY <1>5 DEF Coroutines, Address, Roles
  <2>5. peer \in 0..MaxPid
    BY <2>4, ListenerFacts
  <2>6. \A r \in Roles : builds[b].addr[r] = sup[r].addr
    <3>1. \A r \in Roles : /\ builds[b].addr[r] \in Address /\ sup[r].addr \in Address
      BY <1>5, SupTypes DEF Coroutines, Sidecars
    <3>2. \A r \in Roles : /\ builds[b].addr[r].port = sup[r].addr.port
                           /\ builds[b].addr[r].pid = sup[r].addr.pid
      BY <1>1, <1>9 DEF pipelineIsStale
    <3> QED  BY <3>1, <3>2 DEF Address
  <2>7. sup["mouth"].up => peer = sup["mouth"].addr.pid
    BY <2>6, ListenerFacts DEF Roles
  <2> HIDE DEF peer
  <2>8. s # ipc["ears"]
    BY <2>1 DEF FreeSock, Roles
  <2>9. /\ open' \in [Socks -> 0..MaxPid] /\ open'[s] = peer
        /\ \A x \in Socks : x # s => open'[x] = open[x]
        /\ ipc' \in [Roles -> Socks \cup {None}] /\ ipc'["ears"] = ipc["ears"]
        /\ ipc'["mouth"] = s /\ s # None
    BY <1>3, <2>1, <2>5, ConstantsAssumption DEF Roles
  <2>10. /\ builds' \in [Builds -> Coroutines] /\ \A a \in Builds : builds'[a].pc = "idle"
         /\ \A a \in Builds : builds'[a] \in {Idle, builds[a]}
    BY <1>2, <1>4, TypesOfData DEF TypeOK, Coroutines
  <2>11. TypeOK'
    BY <1>4, <1>6, <2>2, <2>3, <2>9, <2>10 DEF TypeOK, Coroutines
  <2>12. Generations' /\ Apart'
    <3>1. lastPid \in Nat
      BY ConstantsAssumption DEF TypeOK
    <3>2. \A a \in Builds, r \in Roles : builds'[a].addr[r].pid <= lastPid
      BY <2>10, <3>1, TypesOfData DEF Generations
    <3> QED  BY <1>4, <1>6, <3>2 DEF Generations, Apart
  <2>13. OneBuild' /\ OneTimer'
    BY <1>2, <1>4, <2>2, <2>10 DEF OneBuild, OneTimer
  <2>14. Held' /\ InHand' /\ HalfWired'
    BY <1>1, <1>3, <1>4, <2>3, <2>8, <2>9, <2>10 DEF Held, InHand, HalfWired, Roles
  <2>15. NeverGreenAndDeaf'
    BY <1>4, <1>9, <2>3 DEF NeverGreenAndDeaf, Stale
  <2>16. WiredToTheRightSidecar'
    <3> SUFFICES ASSUME NEW r \in Roles, sup[r].up
                 PROVE  ipc'[r] # None /\ open'[ipc'[r]] = sup[r].addr.pid
      BY <1>4 DEF WiredToTheRightSidecar
    <3>1. CASE r = "mouth"
      BY <2>7, <2>9, <3>1
    <3>2. CASE r = "ears"
      BY <1>1, <1>3, <2>6, <2>8, <2>9, <3>2 DEF HalfWired
    <3> QED  BY <3>1, <3>2 DEF Roles
  <2>17. ConversationKept'
    BY <1>1, <1>2, <1>4, <2>2, <2>3 DEF ConversationKept
  <2> QED  BY <2>11, <2>12, <2>13, <2>14, <2>15, <2>16, <2>17
<1> QED  BY <1>8, <1>9
-----------------------------------------------------------------------------
LEMMA InitInv == Init => IInv
<1> SUFFICES ASSUME Init PROVE IInv
  OBVIOUS
<1>1. TypeOK
  <2>1. sup \in [Roles -> Sidecars]
    BY TypesOfData, ConstantsAssumption DEF Init, Sidecars
  <2>2. builds \in [Builds -> Coroutines] /\ wired \in [Roles -> Address]
    BY TypesOfData DEF Init
  <2>3. open \in [Socks -> 0..MaxPid] /\ ipc \in [Roles -> Socks \cup {None}] /\ lastPid \in 0..MaxPid
    BY ConstantsAssumption DEF Init
  <2>4. /\ router \in Conv \cup {None} /\ pending \in Conv \cup {None} /\ said \in Conv
        /\ session \in {"starting", "postReady", "PRIMARY"} /\ timers \in Nat
    BY DEF Init, Conv
  <2>5. degraded \in BOOLEAN /\ stopping \in BOOLEAN /\ building \in BOOLEAN /\ handle \in BOOLEAN
    BY DEF Init
  <2> QED  BY <2>1, <2>2, <2>3, <2>4, <2>5 DEF TypeOK, Sidecars, Coroutines
<1>2. Generations
  BY ConstantsAssumption DEF Init, Generations, NoAddr, Idle
<1>3. Apart /\ OneBuild /\ OneTimer /\ Held /\ InHand /\ HalfWired
  BY ConstantsAssumption DEF Init, Apart, OneBuild, OneTimer, Held, InHand, HalfWired, Idle, Roles
<1>4. NeverGreenAndDeaf /\ WiredToTheRightSidecar /\ ConversationKept
  BY DEF Init, NeverGreenAndDeaf, WiredToTheRightSidecar, ConversationKept, resumeAfterRespawn
<1> QED  BY <1>1, <1>2, <1>3, <1>4 DEF IInv

LEMMA NextInv == IInv /\ [Next]_vars => IInv'
<1> SUFFICES ASSUME IInv, [Next]_vars PROVE IInv'
  OBVIOUS
<1>1. ASSUME NEW r \in Roles,
             SidecarReady(r) \/ SidecarDies(r) \/ SidecarFails(r) \/ StableWindow(r) \/ Terminate(r)
      PROVE  IInv'
  BY <1>1, ReadyKeeps, DiesKeeps, FailsKeeps, StableKeeps, TerminateKeeps
<1>2. CASE SidecarStart \/ SidecarPostReady \/ StopVoice
  BY <1>2, StartKeeps, PostReadyKeeps, StopKeeps
<1>3. ASSUME NEW b \in Builds,
             EarsConnected(b) \/ MouthConnectedTooLate(b) \/ MouthConnected(b) \/ BuildFails(b)
      PROVE  IInv'
  BY <1>3, EarsKeeps, TooLateKeeps, MouthKeeps, BuildFailsKeeps
<1>4. CASE RetryFires \/ Exchange
  BY <1>4, RetryKeeps, ExchangeKeeps
<1>5. CASE UNCHANGED vars
  BY <1>5 DEF vars, env, pipe, run, IInv, TypeOK, Generations, Apart, OneBuild, OneTimer, Held,
              InHand, HalfWired, NeverGreenAndDeaf, WiredToTheRightSidecar, ConversationKept,
              BothReady, Stale, pipelineIsStale
<1> QED  BY <1>1, <1>2, <1>3, <1>4, <1>5 DEF Next

LEMMA Invariance == Spec => []IInv
  BY InitInv, NextInv, PTL DEF Spec
-----------------------------------------------------------------------------
(* TypeCorrect: every variable keeps its type.  Pids stay within MaxPid, a  *)
(* failure count never passes K, timers are never negative.                 *)
THEOREM TypeCorrect == Spec => []TypeOK
  BY Invariance, PTL DEF IInv

(* RealVoice: with both sidecars READY and nothing under way the router is  *)
(* wired to these very sidecars, and a router that is not stale talks to    *)
(* the processes that run, however ports are reused.                        *)
THEOREM RealVoice == Spec => []VoiceIsReal
<1>1. IInv => VoiceIsReal
  BY DEF IInv, VoiceIsReal
<1> QED  BY <1>1, Invariance, PTL

(* Sealed: no socket is open that nobody holds, and after stopVoice no      *)
(* timer is armed and nothing is open.                                      *)
THEOREM Sealed == Spec => []NothingLeaks
<1>1. ASSUME IInv PROVE NoStraySocket
  BY <1>1 DEF IInv, InHand, NoStraySocket
<1>2. ASSUME IInv PROVE StopLeavesNothing
  BY <1>2 DEF IInv, InHand, OneTimer, StopLeavesNothing
<1>3. IInv => NothingLeaks
  BY <1>1, <1>2 DEF NothingLeaks
<1> QED  BY <1>3, Invariance, PTL

(* ConversationSurvives: a rebuilt router takes up the conversation as its  *)
(* last exchange left it.                                                   *)
THEOREM ConversationSurvives == Spec => []ConversationKept
  BY Invariance, PTL DEF IInv
-----------------------------------------------------------------------------
(* The supervisors, reduced to what the runtime reads of them, keep the     *)
(* promise that module Supervisor is proved to keep.                        *)
Shown(r) == IF sup[r].state = "DEGRADED" THEN "DEGRADED_SANS_VOIX" ELSE sup[r].state

Voice(r) == INSTANCE Sidecar WITH
  Pids <- 1..MaxPid, None <- 0,
  state <- Shown(r), pid <- IF sup[r].state = "READY" THEN sup[r].addr.pid ELSE 0,
  serving <- sup[r].up, failures <- sup[r].failures, closing <- stopping

(* Only a sidecar in service is known to be up. *)
UpIsReady == \A r \in Roles : sup[r].up => sup[r].state = "READY"

LEMMA UpKeeps ==
  ASSUME IInv, UpIsReady, Next
  PROVE  UpIsReady'
<1> USE DEF UpIsReady
<1>1. sup \in [Roles -> Sidecars]
  BY DEF IInv, TypeOK, Sidecars
<1>2. ASSUME NEW r \in Roles,
             SidecarReady(r) \/ SidecarDies(r) \/ SidecarFails(r) \/ StableWindow(r) \/ Terminate(r)
      PROVE  UpIsReady'
  <2>1. \A q \in Roles : q # r => sup'[q] = sup[q]
    BY <1>1, <1>2 DEF SidecarReady, SidecarDies, SidecarFails, StableWindow, Terminate
  <2>2. sup'[r].up => sup'[r].state = "READY"
    <3>1. sup[r] \in Sidecars
      BY <1>1
    <3>2. CASE SidecarReady(r)
      BY <1>1, <3>1, <3>2 DEF SidecarReady, Sidecars
    <3>3. CASE SidecarDies(r)
      BY <1>1, <3>1, <3>3 DEF SidecarDies, Sidecars
    <3>4. CASE SidecarFails(r)
      BY <1>1, <3>1, <3>4 DEF SidecarFails, Sidecars
    <3>5. CASE Terminate(r)
      BY <1>1, <3>1, <3>5 DEF Terminate, Sidecars
    <3>6. CASE StableWindow(r)
      BY <1>1, <3>1, <3>6 DEF StableWindow, Sidecars
    <3> QED  BY <1>2, <3>2, <3>3, <3>4, <3>5, <3>6
  <2> QED  BY <2>1, <2>2
<1>3. CASE UNCHANGED sup
  BY <1>3
<1> QED  BY <1>2, <1>3 DEF Next, SidecarStart, SidecarPostReady, StopVoice, EarsConnected,
              MouthConnectedTooLate, MouthConnected, BuildFails, RetryFires, Exchange, env

(* A step of its supervisor is a step of the Sidecar. *)
LEMMA VoiceStep ==
  ASSUME IInv, UpIsReady, NEW r \in Roles,
         SidecarReady(r) \/ SidecarDies(r) \/ SidecarFails(r) \/ StableWindow(r) \/ Terminate(r)
  PROVE  Voice(r)!Next
<1>1. sup \in [Roles -> Sidecars] /\ sup[r] \in Sidecars
  BY DEF IInv, TypeOK, Sidecars
<1>2. sup[r].failures \in 0..K /\ K \in Nat
  BY <1>1, ConstantsAssumption DEF Sidecars
<1>3. CASE SidecarReady(r)
  <2>1. PICK p \in Ports :
          sup' = [sup EXCEPT ![r] =
            [@ EXCEPT !.state = "READY", !.addr = [port |-> p, pid |-> lastPid'], !.up = TRUE]]
    BY <1>3 DEF SidecarReady
  <2>2. /\ sup'[r].state = "READY" /\ sup'[r].addr.pid = lastPid' /\ sup'[r].up = TRUE
        /\ sup'[r].failures = sup[r].failures
    BY <1>1, <2>1 DEF Sidecars
  <2>3. lastPid' \in 1..MaxPid
    <3>1. lastPid \in 0..MaxPid
      BY DEF IInv, TypeOK
    <3>2. lastPid < MaxPid /\ lastPid' = lastPid + 1
      BY <1>3 DEF SidecarReady
    <3> QED  BY <3>1, <3>2, ConstantsAssumption
  <2>4. /\ sup[r].state \in {"SPAWNING", "RESTARTING"} /\ ~stopping /\ UNCHANGED stopping
    BY <1>3 DEF SidecarReady
  <2>5. Shown(r) \in {"SPAWNING", "RESTARTING"} /\ Shown(r)' = "READY"
    BY <2>2, <2>4 DEF Shown
  <2>6. (IF sup[r].state = "READY" THEN sup[r].addr.pid ELSE 0)' \in 1..MaxPid
    BY <2>2, <2>3
  <2>7. Voice(r)!Adopt
    BY <2>2, <2>4, <2>5, <2>6 DEF Voice!Adopt
  <2> QED  BY <2>7 DEF Voice!Next
<1>4. CASE SidecarDies(r)
  BY <1>1, <1>4 DEF SidecarDies, Sidecars, Voice!Die, Voice!Next, Shown
<1>5. CASE SidecarFails(r)
  <2>1. sup[r].failures < K /\ sup[r].state \in {"SPAWNING", "RESTARTING", "READY"}
        /\ ~stopping /\ UNCHANGED stopping
    BY <1>2, <1>5 DEF SidecarFails, IInv, Generations
  <2>2. /\ sup'[r].state = IF sup[r].failures + 1 >= K THEN "DEGRADED" ELSE "RESTARTING"
        /\ sup'[r].failures = sup[r].failures + 1 /\ sup'[r].up = FALSE
    BY <1>1, <1>5 DEF SidecarFails, Sidecars
  <2>3. sup[r].failures + 1 >= K <=> sup'[r].failures = K
    BY <1>2, <2>1, <2>2
  <2> QED  BY <2>1, <2>2, <2>3 DEF Voice!Fail, Voice!Out, Voice!Next, Shown
<1>6. CASE StableWindow(r)
  BY <1>1, <1>6 DEF StableWindow, Sidecars, Voice!Forgive, Voice!Next, Shown
<1>7. CASE Terminate(r)
  <2>1. sup'[r].state = "STOPPED" /\ sup'[r].failures = 0 /\ sup'[r].up = FALSE
    BY <1>1, <1>7 DEF Terminate, Sidecars
  <2> QED  BY <1>7, <2>1 DEF Terminate, Voice!Stop, Voice!Out, Voice!Next, Shown
<1> QED  BY <1>3, <1>4, <1>5, <1>6, <1>7

(* Every other step shows nothing of it, or begins its stop. *)
LEMMA OtherStep ==
  ASSUME IInv, UpIsReady, NEW r \in Roles, Next,
         ~(SidecarReady(r) \/ SidecarDies(r) \/ SidecarFails(r) \/ StableWindow(r) \/ Terminate(r))
  PROVE  Voice(r)!Close \/ UNCHANGED Voice(r)!vars
<1>1. sup \in [Roles -> Sidecars]
  BY DEF IInv, TypeOK, Sidecars
<1>2. CASE StopVoice
  BY <1>2 DEF StopVoice, env, Voice!Close, Shown
<1>3. CASE sup'[r] = sup[r] /\ UNCHANGED stopping
  BY <1>3 DEF Voice!vars, Shown
<1>4. ASSUME NEW q \in Roles, q # r,
             SidecarReady(q) \/ SidecarDies(q) \/ SidecarFails(q) \/ StableWindow(q) \/ Terminate(q)
      PROVE  sup'[r] = sup[r] /\ UNCHANGED stopping
  BY <1>1, <1>4 DEF SidecarReady, SidecarDies, SidecarFails, StableWindow, Terminate
<1> QED  BY <1>2, <1>3, <1>4 DEF Next, SidecarStart, SidecarPostReady, EarsConnected,
              MouthConnectedTooLate, MouthConnected, BuildFails, RetryFires, Exchange, env

(* SidecarsKept: each supervisor the runtime reads, ears and mouth, behaves *)
(* as module Sidecar promises: the reduction invents no restart, adoption   *)
(* or recovery that the supervisor of the code does not have.               *)
THEOREM SidecarsKept ==
  ASSUME NEW CONSTANT r \in Roles
  PROVE  Spec => Voice(r)!Spec
<1>1. Init => Voice(r)!Init /\ UpIsReady
  BY DEF Init, NoAddr, Voice!Init, Shown, UpIsReady
<1>2. IInv /\ UpIsReady /\ [Next]_vars => UpIsReady'
  BY UpKeeps DEF UpIsReady, vars, env
<1>3. UNCHANGED vars => UNCHANGED Voice(r)!vars
  BY DEF vars, env, Voice!vars, Shown
<1>4. IInv /\ UpIsReady /\ [Next]_vars => [Voice(r)!Next]_(Voice(r)!vars)
  BY <1>3, VoiceStep, OtherStep DEF Voice!Next
<1> QED  BY <1>1, <1>2, <1>4, Invariance, PTL DEF Spec, Voice!Spec
=============================================================================
