# A TLA+ development of the orchestrator

This directory models, checks and proves the parts of the system whose
correctness depends on the order of events: an Electron process (the
orchestrator, TypeScript) that keeps a memory base on disk, supervises Python
sidecars (ears, mouth), routes a spoken conversation and schedules background
work. Paths below are those of the repository; `orchestrator/` stands for
`src/orchestrator/`.

## 1. Inventory

### Components, their state, their operations

| component | state it keeps | operations | where it is hard | what makes it correct |
|---|---|---|---|---|
| sidecar supervisor (`orchestrator/supervisor/index.ts`) | state, child, failures, misses, flags `stopping`, `handlingFailure`, `heartbeatBusy`, three timers, the pidfile | start, spawnCycle, heartbeat, handleFailure, beginShutdown, terminate, stop, orphanCleanup | a spawn coroutine, beats in flight, `exit` events and a quit interleave at every await; the process may die and boot again | never two sidecars, never silently without one, the running one always on record, no foreign process killed |
| voice pipeline (`electron/runtime.ts`) | two supervisors, router, sockets, wired ports and pids, retry timer, hand-off | refreshVoiceReady, ensureVoicePipeline, teardownStalePipeline, markVoiceLost, stopVoice | it awaits two connections while either sidecar may respawn, on another port or the same, and the user may quit | never green and deaf, no socket left, the conversation survives a respawn |
| boot, restoration, durability, witnesses (`orchestrator/boot/index.ts`, `boot/restore.ts`, `db/`, `audit/`) | base, its -wal, snapshots, flood marks, erasure stream, sentinel, `.born`, audit log | integrityGate, restoreLatestSnapshot, openDatabase, arming, createSnapshot, writeCleanShutdown | a cut may fall between any two durable writes; files are damaged or vanish, alone or together | born once, honest wake-up, no erasure comes back in silence, always wakes again |
| single instance (`orchestrator/boot/single-instance.ts`) | named pipe, lockfile | acquire, focus request, recovery of a frozen primary, release | two processes race; a release may remove the lockfile of the next primary | never two primaries, never refused wrongly |
| governor (`orchestrator/governor/index.ts`) | watermarks, budget ledger, backoff, layers, running unit | tick, runTask, commitUnit, notifyThrottle, quiesce | preemption, throttle, degradation and quit arrive while a unit awaits | one unit at a time, work resumed at its cursor, quiet before the clean flag |
| shutdown (`orchestrator/shutdown/index.ts`, `electron/before-quit.ts`) | quitting flag, watchdog | planBeforeQuit, gracefulShutdown | a second quit, a frozen sidecar, a unit that never ends | the clean flag is the last durable act, and the application leaves |
| Claude channel (`orchestrator/claude/index.ts`) | session id on record, generation, process in flight, session files | invoke, rotate, stop | lines are still read from a process that was killed; a rotation or a crash falls in the middle of a turn | every session file has an owner, a closed conversation never comes back, every turn ends |
| warm brain (`orchestrator/resources/warm/index.ts`) | chain of questions, warm process, cold process, taint | ask, prewarm, stop | a late answer against a timeout, a word from a process already replaced | one question at a time, one writer an answer, every question answered |
| conversation: router, states, porter, residence (`orchestrator/voice/`) | listening mode, interaction in progress, utterances awaited, held thought | wake, turn, barge-in, pause, resume, close, hand-off | sidecar events race with answers and with speech being cancelled | one interaction at a time, the gate of the ears follows her voice, a pause keeps its thought, the gate reopens |
| ducking and mixer (`orchestrator/voice/ducking.ts`, `duck-mixer.ts`) | intent, four timers, chain of operations, entries, the write-ahead file | listening events, duck, restore, rescan, stop, recovery at boot | the process or the helper dies while the volume is lowered, applications close and come back low | what is low is on file, the volume comes back |
| embedding space (`orchestrator/memory/embed-space/`) | vectors of each corpus, its space, counts of failures, chain of sweeps | embedPending, writeVector, recordFailure | rows, table and engine change while the engine computes | no vector of another space or of an erased row, no row that waits in silence |
| sidecar (`sidecar/`): server, bus, ring, capture, consumers, speech | queues, ring positions, segments, play queue | commands, listening, segmentation, speaking | threads share a ring and bounded queues | no sample read after it was overwritten, a cancelled utterance is silent |
| scripts (`scripts/`) | none | offline evaluation | - | not modelled |

### How they interact

`boot()` takes the instance lock, judges and opens the base, runs the hooks of
the other layers (the governor's and the channel's initialisation, the start of
the sidecars), and hands a session to the runtime. The supervisors call the
runtime back (`onReady`, `onDegraded`); the runtime wires the router to the
sidecars over WebSockets. A quit runs `gracefulShutdown`: respawns off, voice and
channel off, governor quiesced, sidecars terminated, clean flag, base closed. The
next boot reads what that one left on disk, so the disk is shared state between
two lives of the same program.

Everything in the orchestrator runs on one JavaScript event loop. Concurrency is
that of coroutines: a model's action is one run of the loop, from a callback or
the end of an `await` to the next `await`. For the lifecycle the unit is smaller,
one durable write, because the machine may stop between two of them.

## 2. The modules

| module | what it is |
|---|---|
| `Supervisor`, `Supervisor_proofs` | the whole supervisor, its coroutines, the operating system, crashes of the orchestrator; its inductive invariant and theorems |
| `VoicePipeline`, `VoicePipeline_proofs` | the runtime's wiring of the router to two sidecars, over supervisors reduced to what it reads of them |
| `Lifecycle`, `Lifecycle_proofs`, `MCLifecycle` | one home directory through several lives: boot, restoration, session, shutdown, faults of the disk |
| `Governor`, `Governor_proofs`, `MCGovernor` | the scheduler of the background work and the quit that waits for it, over several lives of the process |
| `Sidecar` | the promise of a supervisor: what the runtime may see of its sidecar |
| `HomeLock` | the promise of the single instance: a home is one process's at a time |
| `SingleInstance` | the protocol that keeps it, with pipe, lockfile, focus requests and recovery; the refinement is checked and proved |
| `Conversation`, `Conversation_proofs` | the router with its listening states and the porter's grid, between ears, mouth and brain |
| `Desk` | the promise of the brain: one question at a time, one writer an answer |
| `WarmBrain` | the warm and the cold processes that keep it; the refinement is checked and proved |
| `ClaudeChannel` | turns of the command-line client, their session files, rotation, crashes |
| `DuckMixer` | the mixer's chain, its write-ahead file, the applications and Windows' memory of their volumes |
| `Ducking`, `Ducking_proofs` | the policy and its timers, composed with the mixer it extends; its ledger invariant and theorems |
| `EmbedSpace` | the sweeps that write the vectors, against erasures, migrations and failures of the engine |
| `Brains_proofs` | theorems about `WarmBrain` and `ClaudeChannel` |
| `Home_proofs` | theorems about `EmbedSpace` and `SingleInstance` |

Two pairs of components are proved about side by side, so in `SingleInstance` and
`ClaudeChannel` the specification carries the component's name (`LockSpec`,
`ChannelSpec`).

Operators introduced by a comment `Bug:` are the forms a regression would take;
each one is substituted for the operator it precedes to confirm that a property
notices it. No specification uses them.

### Supervisor

State is that of the class, under its names. A generation of the sidecar is its
pid, its port and token going with it. `cycle` is the `spawnCycle` coroutine,
whose `pc` says at which await it stands (`port`: getFreePort, `wait`: waitReady,
`sleep`: the delay before a retry after a stolen port). `beat` holds the health
requests in flight: the request of one generation may land in the time of
another. `term` is the `terminate` coroutine. `exit` events are delivered after
the death, by `ExitEvent`; a kill takes effect later than it is sent. `OrchEnds`
is a crash or a normal end of the orchestrator; its memory is lost, its sidecar
may survive, and `Boot` runs `orphanCleanup` against the pidfile.

`Sidecar` is what the runtime is shown: a state, the generation in service, whether
its process lives, the failures in a row, and whether a stop began. The mapping
(`ShownState`, `InService`, `Serving`) shows a respawn as RESTARTING until it
succeeds. Most steps of the coroutines, timers and beats show nothing: a late reply, a late
exit or a stale timer can neither put a sidecar back after the stop, nor count a failure
twice, nor close an open breaker.

### VoicePipeline

`sup` is each supervisor reduced to state, address and failures; `RESTARTING`
covers the whole of a respawn. Each is proved to be a `Sidecar` (section 4). `builds` are the runs of `ensureVoicePipeline` in
flight, with the addresses they captured and the
sockets they hold; `open` records what is at the other end of each socket. Ports may be reused by the next sidecar, pids may not:
the code compares both for that reason. `said` is the conversation as its last
exchange left it, compared with what the router resumes.

Of the runtime, one action is one run of a function up to its next `await`. Two
builds may be allowed by `Builds`; the proof shows that at most one is ever under way
(`OneBuild`), so the run has one.

### Lifecycle

The disk is `db`, `wal`, `archived`, `snaps`, `stream`, `sentinel`, `born` and
`audit`; `boot` is the process, cleared when it stops. The contents of the base
are a `running` flag, whether it descends from the base she was born with
(`life`), and the erasures it has undergone (`gone`). `Gate` is
`readRestorePending` and `integrityGate`; `RestoreArchive`, `RestoreEvacuate`,
`RestoreCover`, `RestoreCommit` are the durable steps of
`restoreLatestSnapshot`; `OpenDatabase`, `Arm`, `WriteBornMarker`, `DbOk` the rest
of phase 1. `left` holds what remains of each bound: cuts, transient refusals,
faults of the large files, losses of the two plain witnesses. A -wal is `alien`
when it stands beside a name its own base has left.

Assumed of code that is not in the repository: snapshots and erasures are made in
healthy sessions only, and an erasure id is never used twice. The second matters:
the witness line is durable before the transaction commits, so if a cut rolled
the transaction back and the id were reused, a snapshot taken in between would
carry a flood mark for an erasure it has not undergone, and a restoration of it
would be silent. Not modelled: an old copy of the erasure stream put back in
place of a newer one that agrees with the flood mark (no comparison can see it),
and the acknowledgement of alerts, which nothing calls yet.

### Governor

A tick is one action, from its guards to the choice of a task, because the code
does not yield on the way; `NextUnit` is what `runTask` does once `setImmediate` has
given the hand back, and `UnitCalls`, `CommitUnit`, `UnitReturns`, `UnitFails` are the
moments of a unit, with anything in between. On disk are the watermarks (`rows`,
`owed`), the client's own `cursor`, the ledger (`spent`) and the `running` flag; in
memory the run under way, the layers (`held`), the backoff (`penalty`) and the quit.
`user` is what the probe would see (`active`) beside the debounce of what it last saw
(`cooling`), which only a probe feeds; a probe that throws counts as a present user.

The quit is `installBeforeQuit` and `gracefulShutdown`: `BeforeQuit`, then a stage for
each await (quiesce, the acknowledgement of `cmd.shutdown`, terminate). Between two
awaits everything is one action, so the clean flag, the teardown and the exit are
`TermEnds`. `quit.by` is the latest time the stage under way can end, the sum of the
limits so far; `Watchdog` may fire only when that passes its delay, or when a `Stall`
(the event loop or the whole machine asleep) has made the limits meaningless. A second
quit is `BeforeQuit` again, and one before the process is PRIMARY takes the default
exit.

What is asked of a client of the governor, none of which is in the repository yet:
at most one commit and one autonomous call in a unit (the call first), a cursor moved
in the writes it hands to `commitUnit`, and a deadline behind it once it has committed.

### SingleInstance

Each process goes through `acquire` one await at a time: `listen`, the focus request
(`asking` while its connection is open), the judgement of the lockfile, `reclaim`. The
pipe is freed by `PipeFreed` some time after its holder died. Processes freeze, crash,
resist a kill, fail to write the lockfile, and a dead pid may come back as another
program. `HomeLock` has one variable, the set of processes that act as Sophia; the
mapping is `owner <- {p : Acts(p)}`. Taken for granted: a holder that is merely busy
answers at least one of the focus requests.

### Conversation

The router is one event loop: a handler runs to its end, and the continuation it
awaited (`Resume`) runs before the next event. `task` is the interaction in progress
with what it awaits; `inFlight` the utterances whose end is awaited; `train` what the
mouth plays; `writing` the thoughts the brain has not finished, which go on after a cut.
`greet` is a wake whose opener is awaited. Transcripts are reduced to the classes the
porter tells apart (`opener`, `night`, `closing`, `wait`, `talk`, `void`); which words
fall in which class is left out. Events of the ears are delivered in order, late.

Left out: the length of the tail after an interaction (`bargeInProgress`), the point
where a thought is taken up again (`cutAt`), the text given to the brain
(`openerForBrain`), the archive, `residence.ts`.

`BrainStalls` says whether the brain may stall in its first sentence beyond the deadline
of the first sound. The safety of the gate holds only if it does not: see section 3.

### WarmBrain

`proc` and `cold` are the processes the code holds; `claude` all those whose pipe is
still open, so the lines of a killed one may be read at any later time. A microtask (the
next question of the chain, the cold start after a warm failure) runs before any other
event. `voices` records who wrote what was heard of the answer in service. `Desk` is the
promise, and the mapping is in the module: the question in service, the voices heard,
and the processes that write.

A prewarming is taken as a question like another. Left out: the throttle, the audit, the
wording of SECOURS.

### ClaudeChannel

One invocation per caller (the conversation, an autonomous job). An id is drawn for each
session; `files` is what is on disk; `row` and `current` are the thread on record and in
memory; `retired` are threads a rotation closed. `onClose` is everything the handler of
`close` does: the settlement of a fresh thread, the purge or the hand-over of its file,
and the fresh retry of a resumption whose session had vanished. `RotateCut` is a crash
between the purge and the update of the base. `leftover` names the two sessions the channel cannot
purge: those a crash cut short, and the one that a resumed turn writes again after the
rotation that deleted it.

Taken for granted: the update of the base succeeds, conversation turns are asked one at
a time, a process whose orchestrator died writes no more. Left out: deltas, throttle,
command line, environment and audit.

### Ducking and DuckMixer

A volume is the user's setting it derives from and a depth below it. `DuckMixer` is the
chain (`duck`, `restore`, rescans, recovery at boot), one action per exchange with the
helper, which answers or does not (`Unanswered`); `Ducking` extends it with the policy:
every event of the conversation, the four timers, `stop`, and the ends and
beginnings of the process. `active` says that the mixer has `entries` (in the code the
list is null otherwise), `op` is the operation at the head of the chain (`NoOp` when none
is under way). `astray` holds the applications lowered twice, which
`DebtOnFile` leaves out (section 3).

Taken for granted: pids are not reused, an application has one session, the write-ahead
succeeds, and the mixer of a rebuilt pipeline starts once the old one is idle (the code
does not wait for it: `void dm.stop()`, `electron/runtime.ts:212`). The
regime of a table of guests, which nothing sets, is left out.

### EmbedSpace

The rows to embed are those without a vector, so the disk is the queue. A sweep awaits
the engine for its batch, for the probe, then for each row alone; between these awaits
rows are inserted, erased or given a text, the table is migrated, the engine dies or
comes back in another space, and the process may end. A vector is the text and the space
it was computed from. The layers that write rows, erase and migrate are not in the
repository: they are taken as `docs/plan` and the comments of the module describe them.
`Cardinality(Poison) < Batch` is assumed: section 3 says what happens otherwise.

## 3. The runs

| run | bounds | checks |
|---|---|---|
| `Supervisor_run` | 2 pids, 2 beats in flight, K = 2, 2 misses, 1 retry, every fault | `OneSidecar`, `Supervised`, `TraceKept`, `NoInnocentKilled`, `SidecarKept` (implements `Sidecar`), `FreezeIsDetected`, `StopReaps` |
| `VoicePipeline_run` | 2 ports, 3 pids, 2 sockets, 1 build, K = 2 | `VoiceIsReal`, `NothingLeaks`, `ConversationKept`, `VoiceComesBack` |
| `Lifecycle_safety` | 2 erasures, 3 snapshots of which 2 kept, 2 faults, 1 cut, 1 refusal, 1 witness lost | `NeverBornAgain`, `HonestWake`, `NoSilentResurrection`, `NoPoisonedBase`, `AwakensAgain` |
| `Lifecycle_amnesia` | 1 fault | finds `NoSilentAmnesia` false |
| `Governor_safety` | 2 tasks, one of them touching identity and quota; 2 units a job; 1 call a window; 3 events, 1 failure, 2 quits or cuts; the default limits (5000, 1500, 2500, 10000 ms) | `TypeOK` (with the cap of the window), `BegunIsOwed`, `OneLateUnit`, `CleanIsLast`, `QuitLeaves`, `BacklogClears` |
| `SingleInstance_safety` | 3 processes, 1 quick try, 2 focus requests, 2 tries to reclaim, 2 faults | `OneOwner` (implements `HomeLock`), `StrangersLive`, `AcquireEnds` |
| `Conversation_safety` | 4 classes of transcripts, 4 sentences, 1 event on its way, 1 rebuild, the mouth may die, the brain does not stall | `OneAtATime`, `GateFollowsTheVoice`, `PauseKeepsTheThought`, `GateReopens` |
| `Conversation_opener` | the same | finds `GreetsOnItsOpener` false |
| `WarmBrain_safety` | 2 questions | `OneDesk` (implements `Desk`), `EveryAskEnds` |
| `ClaudeChannel_safety` | 3 ids, 1 rotation | `NoOrphan`, `RotationIsFinal`, `EveryTurnEnds` |
| `Ducking_safety` | 1 application, 2 launches, 1 change of volume by the user, 2 operations waiting | `DebtOnFile`, `IdleIsRestored`, `DeafEndsUp` |
| `EmbedSpace_safety` | 3 rows of which the engine refuses 1, batches of 2, 2 sweeps, 2 spaces, told at 2 failures, 1 failure, migration or crash | `VectorsAreTrue`, `NoClash`, `NothingSilent` |

A conjunction stands for two halves of one promise: `TraceKept` is
`PidfileNamesSidecar` and `SurvivorOnRecord`; `VoiceIsReal` is `NeverGreenAndDeaf` and
`WiredToTheRightSidecar`; `NothingLeaks` is `NoStraySocket` and `StopLeavesNothing`;
`GateFollowsTheVoice` is `NeverHearsHerself` and `NeverDeafAtRest`.

Why the bounds are enough. The safety properties of `Supervisor`, `VoicePipeline`,
`Lifecycle`, `Governor`, `SingleInstance`, `Conversation`, `WarmBrain`, `ClaudeChannel`,
`Ducking` and `EmbedSpace` are proved for all values, so the instances are for the mutants, for the
liveness properties and to show that the interesting cases occur. Two misses and two failures make the
counters pass through "not yet" and "at the limit"; two pids are a sidecar and the one
an earlier life or attempt left; three pids let one sidecar be replaced while a build is
in flight. Two faults in the lifecycle cover every pair (a base and its only snapshot,
a base and its witness stream), a cut and a refusal reach every half-done restoration,
two erasures separate one before a snapshot from one after it, and the number of lives
is not bounded. In the governor two units give a job one middle, three events are a
deadline, something that holds the task back and its return, and two ends allow a cut in
the middle of a quit. Three processes are an old primary, its successor and one that
asked the old one. Four sentences are a wake, a turn, a cut and what follows it. Two
questions make one late for the other. Three ids are a thread, the session of a job and
the fresh thread after a rotation. One application that is closed and opened
again low is the case the write-ahead exists for, and applications meet only in the file and
the chain; three rows with batches of two leave one row behind a refused one.

Deadlock is checked in `Supervisor_run`, `ClaudeChannel_safety`
and `EmbedSpace_safety`, which cannot stop by themselves. It is not in the others: the application may have quit
(`VoicePipeline`, `Governor`, `Ducking`, `WarmBrain`), a home whose base is lost stays
shut (`Lifecycle`), every launch may have come to its outcome (`SingleInstance`), and
Yohann may have nothing more to say (`Conversation`).

### Fairness

Timers fire, coroutines resume, events are delivered and kills take effect: the
event loop and the operating system do that. In `Lifecycle` a running process goes
on and the user starts her again. In `Governor` ticks, gaps, timers and the stages of
the shutdown go on; nothing is asked of a unit, which may never settle, so
`BacklogClears` excuses a unit in flight and `QuitLeaves` does not. In `Conversation` and
`WarmBrain` the one condition is on `Progress`: the loop and the
timers of the code, never an event of the ears, a word of the brain, a clip that ends or
a question, and one weak fairness is enough because what the others may do is bounded.
In `SingleInstance` each live, unfrozen launch goes on. In `ClaudeChannel` a
deadline fires and a killed process closes; nothing is asked of one that was not killed.
In `Ducking` the chain and three timers go on. In
`EmbedSpace` the consumer sweeps again and the supervisor brings the engine back, and
`NothingSilent` supposes that in the end an engine of the table's own space stays. Nobody
is obliged to quit, crash, freeze a sidecar, damage a file or refuse an operation, and
the latter are bounded, since a disk that always refuses lets nothing happen.

### What the runs that find a violation show

- `Lifecycle_amnesia`: a base truncated to zero bytes, with no good snapshot, is
  given the schema by the degraded boot that reports it; the boot after that finds
  a sound base and lives with an empty memory in silence.
- `Conversation_opener`: a sentence said while she sleeps leaves a fresh transcript that
  no `turn.end` consumes. The fast path announces a wake before its own transcript, so
  the wake is answered on the earlier sentence (`router.ts:485`, against the comment at `:508`).

### Seen while modelling, without a run

Supervisor, runtime, lifecycle, governor:

- a quit in the middle of a respawn removes the pidfile of a sidecar that still runs
  (`terminate` looks at `child`, null while the readiness is polled); it dies a moment later,
  unless the orchestrator ends first;
- the failed beat of an earlier generation counts as a miss of the next one once that one is READY;
- a breaker that opens while the boot awaits the post-ready hook is told to nobody;
- the cooldown after a failure is counted from the start of the unit: one that takes 30 s to fail has
  used up its first delays by then. `owed` is laid by the first commit with `done = false`, not by the
  start of a job as the comments say: a first unit that fails leaves it at 0, and the task comes
  back because its deadline has not moved;
- a failed first boot leaves an alert in the audit log, which makes the home look lived
  in and refuses it for ever; a cut between `openDatabase` and the arming of the very first boot
  leaves `running` at 0, so the next boot says "propre" (`HonestWake` starts from the first life that reached DB_OK);
- `MEMOIRE_RESTAUREE` is not durable: a cut just after the commit of a restoration
  that raised no doubt about erasures leaves a rewound memory that is not mentioned.

Single instance:

- the pipe changes hands during the last focus request: the holder that died frozen was the
  one asked, and the lockfile names its healthy successor, which is killed
  (`single-instance.ts:163`, `:251`);
- a holder that dies during the focus requests leads to BLOCKED ("déjà mort") although the
  pipe is free again, which disagrees with `single-instance.ts:5`;
- the `rmSync` of a release may remove the lockfile of the next primary.

Conversation and brain:

- with `BrainStalls` the gate fails: the first sound of a sentence that comes after its deadline
  mutes the ears (`onTtsStart`, `router.ts:609`) for an utterance already settled, and
  nothing gives them back; `router.ts:834` says "jamais deaf à l'infini";
- a call made after "bonne nuit Sophia" and before she answers it is ignored as busy, yet the ears are
  armed: the conversation that follows is led in VEILLE, and a cut there holds a thought in VEILLE, which
  `router.ts:438` calls impossible. "bonne nuit Sophia" during a pause resumes the thought instead
  of sleeping. A rebuild during a greeting leaves the surviving ears armed and the router in VEILLE;
- the handler of a cold process's stdout has no `settled` guard: words may be voiced after the answer
  was given up, even after SECOURS (`late` in the model; `Desk` promises only that they are
  never voiced while another question is in service), against "JAMAIS de double-voix"
  (`warm/index.ts:19`). A question cut by `stop` ends as SECOURS or whole
  instead of aborted when the cold process was answering it.

Claude channel:

- `onInit` calls a turn paid only if nothing killed it before (`claude/index.ts:369`). A fresh turn killed
  by its deadline whose init and result are read between the kill and `close` is persisted as the thread of the
  conversation even when its provider is a paid one, against `:330` and `:341-342`;
- the retry of a failed resumption reads the generation anew, so a turn begun before a
  rotation can become the thread of the new conversation, against the comment at `:214-217`;
- a rotation during a resumed turn deletes the session file, and the client still running writes it again.

Ducking: an application opened again during a duck is lowered from its lowered volume; if the
helper cannot be reached at the restore, the next duck drops the debt and the volume stays low, against
`ducking.ts:29` ("jamais une musique basse à vie").

Embedding:

- a row whose text is rewritten while the engine computes gets the vector of its old text: after the
  await `writeVector` reads only that the row is alive (`embed-space/index.ts:172`), although
  a summary is mutable (`:66`) and its rewriting deletes the vector so that the row is embedded again
  (`docs/plan/02-memoire.md:75`). With `MaxText = 2` a vector that differs from the text
  of its row is reached in five steps;
- `ORDER BY id LIMIT batch` puts refused rows first for ever: as many refused rows as the batch is long, or an engine
  that stays in another space beside one refused row, and the rows behind them are never read. The spacing is left to
  the consumer;
- an engine that dies after the probe makes `isolateAndWrite` count sane rows, which the
  comment at `:289-291` excludes; a row rewritten past the threshold is not told of again, since the
  test is an equality.

## 4. What is proved

`Supervisor_proofs` proves, for any number of pids and beats, any K, Missed and
Retries, and every set of faults, under the assumption `ConstantsAssumption`:

| theorem | property |
|---|---|
| `TypeCorrect` | `TypeOK` |
| `NeverSilent` | `Supervised` |
| `NeverTwo` | `OneSidecar` |
| `AlwaysOnRecord` | `PidfileNamesSidecar` |
| `InnocentsLive` | `NoInnocentKilled` |
| `SurvivorKept` | `SurvivorOnRecord` |
| `TraceHolds` | `TraceKept`, from the two above |
| `StopHolds` | `StopIsFinal`: no timer armed, no adoption, no return, of which `SidecarKept` is what shows |
| `ImplementsSidecar` | `SidecarKept` |

None of these is inductive alone. The invariant `IInv` adds what the coroutines
know of each other: who is alive is the child, or the process `spawnCycle` has in
hand, or one already shot (`InHand`); a sidecar in hand or adopted is the one on
record (`OnRecord`); a kill is only pending on something that runs (`KilledRuns`);
after a stop no timer is armed (`StopIsQuiet`); while the orchestrator is down its
memory is blank (`DownIsBlank`); `terminate` holds the child it was called with
(`TermInHand`). `InitInv` and `NextInv` show that `IInv` holds at first and is kept
by every action, one step of the proof per action; `Invariance` concludes.
`ImplementsSidecar` needs two facts more (`ShownRight`), and then maps each action
to one of `Sidecar` or to a stutter (`PromiseStep`): `Supervised` gives the state in
which a failure is counted and K as the bound it cannot pass, `InHand` that what is adopted
is a pid, and `Free` that no pid is handed out again while it is in service.

`Lifecycle_proofs` proves, for all bounds (`BoundsAssumption`: naturals, at least one
snapshot kept):

| theorem | property | argument |
|---|---|---|
| `TypeCorrect` | `TypeOK` | `Types` |
| `NeverPoisoned` | `NoPoisonedBase` | `CleanGround`: from the archiving to the commit no base is in the way, and from the evacuation on nothing stands beside the name |
| `ErasureKept` | `NoSilentResurrection` | `StreamCovers`, `NoDoubtNoGap`, `DoubtTold`, below |
| `WakesHonestly` | `HonestWake` | `FlagSpeaks`: every session that may write has armed its flag, so every snapshot was taken with the flag up and a restored base never reads as clean |
| `BornOnce` | `NeverBornAgain` | `OneBirth`: a life leaves both plain witnesses, or the one loss has been spent; assumes `MaxLost <= 1` |

The argument of `ErasureKept` is the longest. Until a doubt is on record
(`sentinel`), the base lacks no erasure and a snapshot lacks none up to its flood
mark (`NoDoubtNoGap`). The stream, even begun again after a loss, holds every
erasure later than any of its members (`StreamCovers`, which rests on ids that
grow). So a snapshot whose mark is in the stream and is the latest there lacks
nothing; in every other case `checkErasureCoverage` raises the doubt, and a doubt
on record is told in each session (`DoubtTold`). `BornOnce` is the only theorem
with a hypothesis of its own: with both plain witnesses lost along with the
`.sqlite` files nothing on the disk could speak.

`Governor_proofs` proves, for any tasks and priorities, any quota, any length of the
jobs, and any limits whose sum is under the watchdog's delay (`TasksAssumption`,
`MarginAssumption`):

| theorem | property | argument |
|---|---|---|
| `TypeCorrect` | `TypeOK` | `WithinBudget`: a unit that may still call has its call in the budget, which was checked in the same action that started it |
| `WorkKept` | `BegunIsOwed` | `RunsOnRows`: no run before the lines of the watermarks exist, so the governor's half of a commit is never an UPDATE of nothing |
| `YieldsInTime` | `OneLateUnit` | `Lateness`: a late commit belongs to a unit that has committed, and what held it back holds still, so no unit of the task starts |
| `FlagIsLast` | `CleanIsLast` | `FlagUp`: the flag is down only while there is no process |

One lemma each says which actions leave a variable alone, and the rest of the proof
splits `Next` only among the actions that do not.

`Home_proofs` proves of `SingleInstance`, for any set of processes and any number of attempts and
faults:

| theorem | property | argument |
|---|---|---|
| `LockTypeCorrect` | `TypeOK` | |
| `StrangersAreSafe` | `StrangersLive` | the reading of the lockfile, the identification of the pid and the kill are synchronous, one action; without the identification a recycled pid is shot |
| `ImplementsHomeLock` | `OneOwner` | who acts holds the pipe or is dying, and the pipe is freed only after its holder's death; every step of the protocol is a `Take`, a `Leave` or a stutter of `HomeLock` |

The same module proves of `EmbedSpace`, for any rows, texts, sweeps, spaces, batch and
failures:

| theorem | property | argument |
|---|---|---|
| `EmbedTypeCorrect` | `TypeOK` | |
| `VectorsTrue` | `VectorsAreTrue` | the guards of a write and the write are one action; an erasure takes the vector along and a migration takes them all |
| `SweepsNeverClash` | `NoClash` | `ChainInv`: each sweep is in the chain once and only its head is between two awaits; `RowsInv`: what that sweep read is one text a row, without a vector until the answer |

`RowsInv` holds although rows are rewritten and erased meanwhile, because both only take
vectors away: the one writer of vectors is the sweep under way. That supposes one process,
since the chain is in memory, and `OneOwner` is what gives one process to a home.


`VoicePipeline_proofs` proves, for any ports, pids, sockets, builds and K:

| theorem | property | argument |
|---|---|---|
| `TypeCorrect` | `TypeOK` | |
| `RealVoice` | `VoiceIsReal` | `Generations` and `Apart`: pids grow, so an address that was captured and is still current names the same process; `OneTimer`, `OneBuild`: a failure always leaves one retry or one build |
| `Sealed` | `NothingLeaks` | `Held`, `InHand`, `HalfWired`: who holds each socket at each await |
| `ConversationSurvives` | `ConversationKept` | |
| `SidecarsKept` | each supervisor is a `Sidecar` | `Generations`: an open breaker is the K-th failure; `UpIsReady` |

`SidecarsKept` says that the reduced supervisors do nothing `Sidecar` forbids. That
`VoicePipeline` allows everything `Sidecar` does is not stated: there a sidecar
adopted dead is a `SidecarReady` followed by a `SidecarDies`, a stop comes to both
sidecars at once, and nothing follows the end of the process.

`Conversation_proofs` proves, for any classes of transcripts and any bounds:

| theorem | property | argument |
|---|---|---|
| `TypeCorrect` | `TypeOK` | |
| `OneInteraction` | `OneAtATime` | `Control`: the awaited opener, the task and the idle timer exclude each other, and only utterances of the current turn are awaited |
| `PauseKept` | `PauseKeepsTheThought` | |
| `GateHeld` | `GateFollowsTheVoice` | `Train` and `Fresh`: what the mouth has to play is what is awaited, so the gate shuts before a sound and opens after the last one; assumes `~BrainStalls` |

The hypothesis of `GateHeld` is needed: section 3 describes what happens without it.

`Brains_proofs` proves of `WarmBrain`, for any number of questions:

| theorem | property | argument |
|---|---|---|
| `TypeCorrect` | `TypeOK` | |
| `ImplementsDesk` | `OneDesk` | `Writer`, `Voice`, `Behind`, `Alive`: who may still write for which question; every step is a step of `Desk` or a stutter |

and of `ClaudeChannel`, for any number of ids and rotations:

| theorem | property | argument |
|---|---|---|
| `ClaudeTypeCorrect` | `TypeOK` | |
| `FilesOwned` | `NoOrphan` | `Apart`, `Opening`, `Owned`: ids in flight differ, and a file whose turn ends passes to the row, to the job, or is deleted in the same action |
| `ClosedForGood` | `RotationIsFinal` | `Resumes`, `Recorded`: the generation of a turn in flight tells whether a rotation overtook it |

`Ducking_proofs` proves, for any applications, launches, changes of volume and any
length of the chain (`MixerAssumption`, `ModesAssumption`):

| theorem | property | argument |
|---|---|---|
| `TypeCorrect` | `TypeOK` | |
| `DebtIsOnFile` | `DebtOnFile` | the ledger, below |
| `RestoredWhenIdle` | `IdleIsRestored` | `IntentInv`: an active duck that is no longer wanted has a `restore` or a `stop` in the chain, and so has a `duck` that is still queued |

The file is a ledger. It holds what the memory owes (`OwedInv`), except before the boot net has
read it and while a restoration is settling it; each application has one line in
it, at a volume of its user (`CleanInv`), and the pid on that line names that application or
nobody (`PidInv`, since launches grow). A lowering happens only after its line is written and
from a volume that is not lowered already (`DepthInv`), and a line is dropped only in
the action that finds its application restored (`OpInv`). A new process
finds the file as it was left (`DownInv`, `BootInv`). An application opened again
while ducked (`astray`) is outside: section 3 says what happens to it.

Out of the prover's reach and only model-checked: the liveness properties
(`FreezeIsDetected`, `StopReaps`, `VoiceComesBack`, `AwakensAgain`, `QuitLeaves`,
`BacklogClears`, `AcquireEnds`, `GateReopens`, `EveryAskEnds`, `EveryTurnEnds`,
`DeafEndsUp`, `NothingSilent`), which need fairness and ENABLED. Every other property of a
passing run is a theorem.

## 5. Limits

Delays are left out, except in the quit: a timer may fire as soon as it is armed. That
covers every real schedule and more, so a property that holds here holds for any
calibration. In the quit the limits of the stages add up, because whether they fit
under the watchdog is the question (`terminate` gives up on a sidecar that outlives
SIGKILL, so its stage is bounded too). The events around the governor (the user, a 429,
a deadline) are taken only while it runs: during a shutdown and between two lives
nothing reads them, and one that comes then is the same as one right after the next
boot. Of the governor, the state on display, `owed_since`, the cooperative hint of
preemption, an `isDue` that throws, and the interactive calls and the purge of the
ledger are left out. Not modelled: a failure to write the pidfile, `stop()` followed by a
new start of the same supervisor (no caller does it), the sockets' own ping
timeouts, the contents of messages, logging and what is displayed. The semantic
repair of the memory (identity anchors, immutability triggers) belongs to layers
that the repository does not contain yet.

### Hazards that no property covers

- The mixer of a rebuilt pipeline starts while the old one may still be restoring, on the same duck
  file (`electron/runtime.ts:212`): `Ducking` supposes the old one idle, since two chains over one
  file have no order to check against.
- The conclusion that a holder is frozen is drawn from one request and acted upon through
  the lockfile, which may name another by then (`single-instance.ts:251`).
- The late words of a cold process (`warm/index.ts:499`), recorded in `late`.
- A row rewritten while its vector is computed (`embed-space/index.ts:172`).

All four are described in section 3.

### Not modelled

- The phantom sweep: a best-effort kill by pattern and age, without state of its own.
- Model residence: a value derived from the governor's layer and the listening mode.
- The sidecar (`sidecar/`): its bus and ring are containers guarded by a lock; voice
  activity, wake word, end of turn and speech to text are automata over scores and durations that
  a model without time does not tell apart. Its effects are events of `Conversation`.
- The application shell, the paths, the fallback phrases, the text normalisation, the
  declarative triggers of the schemas, and the offline scripts.

## 6. What is left

1. The queue of the mouth (`sidecar/tts/plug.py`) and the bus and ring, as bounded buffers
   between threads.
2. `Conversation` composed with `VoicePipeline`, which still sees it as four states, and with
   `WarmBrain`.
