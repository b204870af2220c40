------------------------------ MODULE Governor ------------------------------
(***************************************************************************)
(* The governor of the background work (governor/index.ts) and the quiet   *)
(* end it must leave room for (shutdown/index.ts, electron/before-quit.ts),*)
(* over several lives of the process.                                      *)
(*                                                                         *)
(* A tick decides without yielding; a run then gives the hand back before  *)
(* each unit, and a unit awaits before and after its one commit.  In each  *)
(* of these gaps the user comes back, a 429 lands, SECOURS is laid, writes *)
(* are suspended, the application is quit, or the process is cut.          *)
(*                                                                         *)
(* A task (a client of the governor) is reduced to what the governor asks  *)
(* of it: a deadline that comes, a job of Units units, at most one commit  *)
(* and one autonomous call in each unit.                                   *)
(***************************************************************************)
EXTENDS Integers, Sequences

CONSTANTS Tasks,
          Queue,          \* the tasks by priority
          RealBrain,      \* those that never run in SECOURS
          Quota,          \* those that make autonomous calls
          Units,          \* units of a job
          BudgetCap,      \* autonomous calls in a window
          Backoff,        \* first and largest delay after a failed unit ...
          BackoffCap,
          MaxAge,         \* ... and the longest unit, in the same time unit
          Grace,          \* limit of each stage of the shutdown ...
          Ack,
          Term,
          WatchdogDelay,  \* ... and of the whole
          MaxEvents,      \* deadlines, comings and goings, 429, layers, suspensions
          MaxFaults,      \* units, probes and writes that fail, a stalled shutdown
          MaxEnds         \* quits, and cuts of the process

ASSUME TasksAssumption ==
  /\ Queue \in Seq(Tasks) /\ Queue # <<>>
  /\ \A t \in Tasks : \E i \in DOMAIN Queue : Queue[i] = t
  /\ RealBrain \subseteq Tasks /\ Quota \subseteq Tasks
  /\ {Units, BudgetCap} \subseteq Nat \ {0}
  /\ {Backoff, BackoffCap, MaxAge} \subseteq Nat
  /\ {MaxEvents, MaxFaults, MaxEnds} \subseteq Nat

\* The graces leave a margin under the global watchdog (before-quit.ts:40-43).
ASSUME MarginAssumption ==
  /\ {Grace, Ack, Term, WatchdogDelay} \subseteq Nat
  /\ Grace + Ack + Term < WatchdogDelay

VARIABLES
  \* on disk
  rows,       \* the lines of governor_watermarks are there
  owed,       \* governor_watermarks.owed
  cursor,     \* the client's own cursor: units committed of the job under way
  spent,      \* autonomous calls in the sliding window of governor_budget_ledger
  running,    \* runtime_flags.running
  \* around the process
  proc,       \* the process: off, boot, up
  due,        \* what the client's isDue answers
  user,       \* what the probe would see, and the debounce of what it last saw
  held,       \* 429 cooldown, SECOURS layer, suspended writes
  \* in the process
  gov,        \* the loop: ensured, and the run under way
  penalty,    \* taskFailures: count, and whether the cooldown still lasts
  quit,       \* the shutdown: its stage, the latest time it can end, a stall
  \* bookkeeping
  late,       \* ghost: commits of a task made while something holds it back
  ending,     \* ghost: how the last life ended
  left        \* what remains of each bound

disk   == <<rows, owed, cursor, spent, running>>
around == <<due, user, held>>
vars   == <<disk, proc, around, gov, penalty, quit, late, ending, left>>

\* A run of task t: not started (the task of an idle loop means nothing), waiting for
\* its turn, or in a unit that has neither called nor committed yet.
At(pc, t) == [pc |-> pc, task |-> t, called |-> FALSE, committed |-> FALSE]
Idle      == At("idle", Queue[1])

NoQuit  == [pc |-> "none", by |-> 0, stalled |-> FALSE]
Holds   == {"throttled", "secours", "suspended"}

Limit   == [quiesce |-> Grace, ack |-> Ack, term |-> Term]

TypeOK ==
  /\ rows \in BOOLEAN
  /\ owed \in [Tasks -> BOOLEAN]
  /\ cursor \in [Tasks -> 0..Units - 1]
  /\ spent \in 0..BudgetCap
  /\ running \in {0, 1}
  /\ proc \in {"off", "boot", "up"}
  /\ due \in [Tasks -> BOOLEAN]
  /\ user \in [active : BOOLEAN, cooling : BOOLEAN]
  /\ held \in SUBSET Holds
  /\ gov \in [ensured : BOOLEAN,
              run : [pc : {"idle", "yield", "unit"}, task : Tasks,
                     called : BOOLEAN, committed : BOOLEAN]]
  /\ penalty \in [Tasks -> [count : Nat, cooling : BOOLEAN]]
  /\ quit \in [pc : {"none", "quiesce", "ack", "term"},
               by : Nat, stalled : BOOLEAN]
  /\ late \in [Tasks -> Nat]
  /\ ending \in {"none", "sequence", "default", "watchdog", "stall", "cut"}
  /\ left \in [{"events", "faults", "ends"} -> Nat]

NoPenalty == [t \in Tasks |-> [count |-> 0, cooling |-> FALSE]]

Init ==
  /\ rows = FALSE
  /\ owed = [t \in Tasks |-> FALSE] /\ cursor = [t \in Tasks |-> 0]
  /\ spent = 0 /\ running = 0
  /\ proc = "off"
  /\ due = [t \in Tasks |-> FALSE]
  /\ user = [active |-> FALSE, cooling |-> FALSE]
  /\ held = {}
  /\ gov = [ensured |-> FALSE, run |-> Idle] /\ penalty = NoPenalty
  /\ quit = NoQuit
  /\ late = [t \in Tasks |-> 0] /\ ending = "none"
  /\ left = [events |-> MaxEvents, faults |-> MaxFaults, ends |-> MaxEnds]

Spend(k) == left[k] > 0 /\ left' = [left EXCEPT ![k] = @ - 1]
-----------------------------------------------------------------------------
(***************************************************************************)
(* What a decision looks at.                                               *)
(***************************************************************************)
quiescing == quit.pc # "none"
Busy      == gov.run.pc # "idle"

\* Bug: a task left halfway waits for its next deadline.
DueOnly(t)   == due[t]

DueOrOwed(t) == owed[t] \/ due[t]

QuotaUnavailable == spent >= BudgetCap \/ "throttled" \in held

\* Bug: the quota stops nothing.
CanRunBeyond(t, interactive) ==
  /\ ~interactive
  /\ t \in RealBrain => "secours" \notin held
  /\ ~penalty[t].cooling
  /\ DueOrOwed(t)

CanRun(t, interactive) ==
  /\ ~interactive
  /\ t \in RealBrain => "secours" \notin held
  /\ t \in Quota => ~QuotaUnavailable
  /\ ~penalty[t].cooling
  /\ DueOrOwed(t)

Runnable(interactive) == {i \in DOMAIN Queue : CanRun(Queue[i], interactive)}
First(S)              == {i \in S : \A j \in S : i <= j}

\* The activity probe: what it sees opens the debounce again.  A probe that throws
\* counts as an interactive user, and leaves the debounce alone.
Probed == [user EXCEPT !.cooling = user.active \/ user.cooling]

Probe(interactive) ==
  \/ /\ interactive = (user.active \/ user.cooling)
     /\ user' = Probed
     /\ UNCHANGED left
  \/ /\ interactive = TRUE
     /\ Spend("faults")
     /\ UNCHANGED user

(***************************************************************************)
(* The loop.                                                               *)
(***************************************************************************)
Run(r) == gov' = [ensured |-> TRUE, run |-> r]

Arbitrating == proc = "up" /\ ~Busy /\ ~quiescing /\ "suspended" \notin held

\* One tick, from its guards to the start of a run: no await on the way.
Tick ==
  /\ Arbitrating
  /\ rows' = (rows \/ ~gov.ensured)
  /\ IF \E t \in Tasks : DueOrOwed(t) /\ ~penalty[t].cooling
     THEN \E interactive \in BOOLEAN :
            /\ Probe(interactive)
            /\ \/ Runnable(interactive) = {} /\ Run(Idle)
               \/ \E i \in First(Runnable(interactive)) : Run(At("yield", Queue[i]))
     ELSE Run(Idle) /\ UNCHANGED <<user, left>>
  /\ UNCHANGED <<owed, cursor, spent, running, proc, due, held, penalty, quit, ending>>

\* The lines cannot be created: no arbitration in this tick.
TickRefused ==
  /\ Arbitrating /\ ~gov.ensured
  /\ Spend("faults")
  /\ UNCHANGED <<disk, proc, around, gov, penalty, quit, ending>>

\* The end of a run looks at the user once more, except in the window of the shutdown.
EndRun(r) ==
  /\ Run(r)
  /\ user' = IF quiescing \/ r.pc # "idle" THEN user ELSE Probed

\* Bug: once started, a run goes to the end of its job.
GoOn ==
  /\ proc = "up" /\ gov.run.pc = "yield"
  /\ IF quiescing THEN EndRun(Idle) ELSE EndRun(At("unit", gov.run.task))
  /\ UNCHANGED <<disk, proc, due, held, penalty, quit, ending, left>>

\* Between two units, once the hand has been given back to the event loop.
NextUnit ==
  /\ proc = "up" /\ gov.run.pc = "yield"
  /\ IF quiescing \/ "suspended" \in held
     THEN EndRun(Idle) /\ UNCHANGED left
     ELSE \E interactive \in BOOLEAN :
            /\ Probe(interactive)
            /\ Run(IF CanRun(gov.run.task, interactive)
                   THEN At("unit", gov.run.task) ELSE Idle)
  /\ UNCHANGED <<disk, proc, due, held, penalty, quit, ending>>

InUnit(t) == proc = "up" /\ gov.run.pc = "unit" /\ gov.run.task = t

UnitCalls(t) ==
  /\ InUnit(t) /\ t \in Quota /\ ~gov.run.called /\ ~gov.run.committed
  /\ spent' = spent + 1
  /\ Run([gov.run EXCEPT !.called = TRUE])
  /\ UNCHANGED <<rows, owed, cursor, running, proc, around, penalty, quit, ending, left>>

JobDone(t) == cursor[t] + 1 = Units

\* Bug: the client's writes and the governor's cursor are two transactions, and the
\* second one is left for the end of the job.
CommitInTwo(t) ==
  /\ InUnit(t) /\ ~gov.run.committed
  /\ cursor' = [cursor EXCEPT ![t] = IF JobDone(t) THEN 0 ELSE cursor[t] + 1]
  /\ owed' = [owed EXCEPT ![t] = owed[t] /\ ~JobDone(t)]
  /\ due' = [due EXCEPT ![t] = FALSE]
  /\ Run([gov.run EXCEPT !.committed = TRUE])
  /\ UNCHANGED <<rows, spent, running, proc, user, held, penalty, quit, ending, left>>

\* One synchronous transaction: the client's writes, last_run_at (the deadline is behind)
\* and owed.  Without its line, the governor's part of it is an UPDATE of nothing.
CommitUnit(t) ==
  /\ InUnit(t) /\ ~gov.run.committed
  /\ cursor' = [cursor EXCEPT ![t] = IF JobDone(t) THEN 0 ELSE cursor[t] + 1]
  /\ owed' = IF rows THEN [owed EXCEPT ![t] = ~JobDone(t)] ELSE owed
  /\ due' = IF rows THEN [due EXCEPT ![t] = FALSE] ELSE due
  /\ Run([gov.run EXCEPT !.committed = TRUE])
  /\ UNCHANGED <<rows, spent, running, proc, user, held, penalty, quit, ending, left>>

\* The unit resolves; done is what it has committed.
UnitReturns(t) ==
  /\ InUnit(t) /\ gov.run.committed
  /\ penalty' = [penalty EXCEPT ![t] = [count |-> 0, cooling |-> FALSE]]
  /\ EndRun(IF cursor[t] = 0 THEN Idle ELSE At("yield", t))
  /\ UNCHANGED <<disk, proc, due, held, quit, ending, left>>

\* The cooldown is counted from the start of the unit, which took age.
Delay(count) == LET d == Backoff * 2^(count - 1) IN IF d < BackoffCap THEN d ELSE BackoffCap

NoteFailure(t, age) ==
  penalty' = [penalty EXCEPT ![t] = [count   |-> penalty[t].count + 1,
                                     cooling |-> age < Delay(penalty[t].count + 1)]]

\* The unit rejects, before its commit (rolled back or never reached) or after it.
UnitFails(t) ==
  /\ InUnit(t)
  /\ Spend("faults")
  /\ \E age \in 0..MaxAge : NoteFailure(t, age)
  /\ EndRun(Idle)
  /\ UNCHANGED <<disk, proc, due, held, quit, ending>>
(***************************************************************************)
(* What happens around the loop, at any await.  Without a process, and in  *)
(* the shutdown, nothing reads any of it: what happens then is the same    *)
(* right after the next boot.                                              *)
(***************************************************************************)
Watched == proc = "up" /\ ~quiescing

\* The user or Claude Code comes or goes; nobody knows before the next probe.
UserComesOrGoes ==
  /\ Watched /\ Spend("events")
  /\ user' = [user EXCEPT !.active = ~user.active]
  /\ UNCHANGED <<disk, proc, due, held, gov, penalty, quit, ending>>

\* debounceMs since the last probe that saw somebody.
Debounced ==
  /\ Watched /\ user.cooling
  /\ user' = [user EXCEPT !.cooling = FALSE]
  /\ UNCHANGED <<disk, proc, due, held, gov, penalty, quit, ending, left>>

DeadlineComes(t) ==
  /\ Watched /\ ~due[t] /\ Spend("events")
  /\ due' = [due EXCEPT ![t] = TRUE]
  /\ UNCHANGED <<disk, proc, user, held, gov, penalty, quit, ending>>

NotifyThrottle ==
  /\ Watched /\ Spend("events")
  /\ held' = held \union {"throttled"}
  /\ UNCHANGED <<disk, proc, due, user, gov, penalty, quit, ending>>

ThrottleEnds ==
  /\ Watched /\ "throttled" \in held
  /\ held' = held \ {"throttled"}
  /\ UNCHANGED <<disk, proc, due, user, gov, penalty, quit, ending, left>>

\* setMode(SECOURS), and markDegraded or clearDegradation(SANS_ECRITURE).
Toggle(h) ==
  /\ Watched /\ Spend("events")
  /\ held' = IF h \in held THEN held \ {h} ELSE held \union {h}
  /\ UNCHANGED <<disk, proc, due, user, gov, penalty, quit, ending>>

WindowSlides ==
  /\ Watched /\ spent > 0
  /\ spent' = spent - 1
  /\ UNCHANGED <<rows, owed, cursor, running, proc, around, gov, penalty, quit, ending, left>>

PenaltyEnds(t) ==
  /\ Watched /\ penalty[t].cooling
  /\ penalty' = [penalty EXCEPT ![t] = [count |-> penalty[t].count, cooling |-> FALSE]]
  /\ UNCHANGED <<disk, proc, around, gov, quit, ending, left>>
-----------------------------------------------------------------------------
(***************************************************************************)
(* The process, from boot to exit.                                         *)
(***************************************************************************)
\* Memory goes with the process; what is on disk stays.
Exit(by) ==
  /\ proc' = "off"
  /\ gov' = [ensured |-> FALSE, run |-> Idle] /\ penalty' = NoPenalty
  /\ held' = {} /\ user' = [user EXCEPT !.cooling = FALSE]
  /\ quit' = NoQuit
  /\ ending' = by
  /\ UNCHANGED <<rows, owed, cursor, spent, due>>

Boot ==
  /\ proc = "off"
  /\ proc' = "boot" /\ running' = 1 /\ ending' = "none"
  /\ UNCHANGED <<rows, owed, cursor, spent, around, gov, penalty, quit, left>>

\* PRIMARY: the governor is built and started; the boot may have been degraded.
Ready ==
  /\ proc = "boot"
  /\ proc' = "up"
  /\ \/ held' = {} /\ UNCHANGED left
     \/ held' = {"suspended"} /\ Spend("events")
  /\ UNCHANGED <<disk, due, user, gov, penalty, quit, ending>>

Cut ==
  /\ proc # "off" /\ Spend("ends")
  /\ Exit("cut")
  /\ UNCHANGED running

\* Bug: a second quit takes the default exit in the middle of the sequence.
PlanFirstQuitOnly(isPrimary, quitting) ==
  [prevent |-> isPrimary /\ ~quitting, run |-> isPrimary /\ ~quitting]

PlanBeforeQuit(isPrimary, quitting) ==
  [prevent |-> isPrimary, run |-> isPrimary /\ ~quitting]

\* Every stage is bounded: it ends at the latest Limit after the one before it.
Stage(pc) == proc = "up" /\ quit.pc = pc
Go(pc)    == quit' = [pc |-> pc, by |-> quit.by + Limit[pc], stalled |-> quit.stalled]

\* before-quit: the sequence starts with quiesce, the watchdog is armed with it.
BeforeQuit ==
  /\ proc # "off" /\ Spend("ends")
  /\ LET plan == PlanBeforeQuit(proc = "up", quiescing)
     IN \/ ~plan.prevent /\ Exit("default")
        \/ /\ plan.prevent
           /\ IF plan.run THEN Go("quiesce") ELSE UNCHANGED quit
           /\ UNCHANGED <<rows, owed, cursor, spent, proc, around, gov, penalty, ending>>
  /\ UNCHANGED running

\* quiesce is over: no unit in flight, or its grace is spent.  In the same breath the Claude
\* channel, the voice and the warm brain are stopped, the respawns are cut, and
\* cmd.shutdown leaves for the sidecars (straight to terminate if none is READY).
QuiesceEnds ==
  /\ Stage("quiesce")
  /\ Go("ack") \/ Go("term")
  /\ UNCHANGED <<disk, proc, around, gov, penalty, ending, left>>

\* Bug: the clean flag is laid before the sidecars are terminated.
AckThenFlag ==
  /\ Stage("ack")
  /\ Go("term")
  /\ running' = 0
  /\ UNCHANGED <<rows, owed, cursor, spent, proc, around, gov, penalty, ending, left>>

\* Acknowledged, refused, or timed out: the same way on.
AckEnds ==
  /\ Stage("ack")
  /\ Go("term")
  /\ UNCHANGED <<disk, proc, around, gov, penalty, ending, left>>

\* The sidecars are dead or have outlived SIGKILL.  Then, without an await: the clean
\* flag, whose write may fail, the teardown and the exit.
TermEnds ==
  /\ Stage("term")
  /\ \/ running' = 0 /\ UNCHANGED left
     \/ Spend("faults") /\ UNCHANGED running
  /\ Exit("sequence")

\* The event loop, or the whole machine, sleeps through the timers.
Stall ==
  /\ proc = "up" /\ quiescing /\ ~quit.stalled /\ Spend("faults")
  /\ quit' = [quit EXCEPT !.stalled = TRUE]
  /\ UNCHANGED <<disk, proc, around, gov, penalty, ending>>

\* The global watchdog, where it can be the first of the timers to fire.
Watchdog ==
  /\ proc = "up" /\ quiescing
  /\ quit.by >= WatchdogDelay \/ quit.stalled
  /\ Exit(IF quit.stalled THEN "stall" ELSE "watchdog")
  /\ UNCHANGED <<running, left>>
-----------------------------------------------------------------------------
Unit(t) == UnitCalls(t) \/ CommitUnit(t) \/ UnitReturns(t) \/ UnitFails(t)

Loop == Tick \/ TickRefused \/ NextUnit \/ \E t \in Tasks : Unit(t)

World ==
  \/ UserComesOrGoes \/ Debounced \/ NotifyThrottle \/ ThrottleEnds
  \/ Toggle("secours") \/ Toggle("suspended") \/ WindowSlides
  \/ \E t \in Tasks : DeadlineComes(t) \/ PenaltyEnds(t)

Process ==
  \/ Boot \/ Ready \/ Cut \/ BeforeQuit \/ QuiesceEnds \/ AckEnds \/ TermEnds
  \/ Stall \/ Watchdog

\* Something forbids the next unit of t: the user, the shutdown, doubt about the base,
\* SECOURS for those that touch the identity, the quota for those that spend it.
HeldBack(t) ==
  \/ user.active \/ quiescing \/ "suspended" \in held
  \/ t \in RealBrain /\ "secours" \in held
  \/ t \in Quota /\ QuotaUnavailable

Commits(t) == gov.run.task = t /\ ~gov.run.committed /\ gov'.run.committed

CountLate ==
  late' = [t \in Tasks |-> IF ~HeldBack(t)' THEN 0
                           ELSE IF HeldBack(t) /\ Commits(t) THEN late[t] + 1 ELSE late[t]]

Next == (Loop \/ World \/ Process) /\ CountLate

Spec == Init /\ [][Next]_vars

\* Timers fire, the event loop turns and the process boots again; nothing is asked of a
\* unit, of the user, or of the world.
Fairness ==
  /\ WF_vars(Tick /\ CountLate) /\ WF_vars(NextUnit /\ CountLate)
  /\ WF_vars(Debounced /\ CountLate) /\ WF_vars(ThrottleEnds /\ CountLate)
  /\ WF_vars(WindowSlides /\ CountLate)
  /\ \A t \in Tasks : WF_vars(PenaltyEnds(t) /\ CountLate)
  /\ WF_vars((QuiesceEnds \/ AckEnds \/ TermEnds) /\ CountLate)

FairSpec == Spec /\ Fairness
-----------------------------------------------------------------------------
\* A job begun is owed until its last unit is committed, whatever interrupts it: the
\* client's cursor and governor_watermarks.owed move in one transaction (commitUnit).
BegunIsOwed == \A t \in Tasks : cursor[t] # 0 => owed[t]

\* Once something holds a task back, at most the unit in flight still commits
\* (runTask: the loop yields between the units, never in the middle of one).
OneLateUnit == \A t \in Tasks : late[t] <= 1

\* Nothing is written once the clean flag is laid, until the next boot: running = 0 is
\* the last durable act (writeCleanShutdown), with no unit left behind to commit.
CleanIsLast ==
  [][running = 0 /\ running' = 0 => UNCHANGED <<rows, owed, cursor>>]_vars

\* A quit always leaves, and by the end of its sequence: whatever the units, the sidecars
\* and the next quits do, the watchdog has to cut only a loop that was stalled
\* (installBeforeQuit, the margin of before-quit.ts:40-43).
QuitLeaves ==
  quiescing ~> proc = "off" /\ ending \in {"sequence", "stall", "cut"}

\* A task left halfway is taken up again: owed is paid as soon as nothing holds it back
\* for good, however it was interrupted (section 4.4, dueOrOwed).  A unit that never
\* settles is not the governor's doing.
BacklogClears ==
  \A t \in Tasks :
    []<>(~owed[t] \/ HeldBack(t) \/ proc # "up" \/ gov.run.pc = "unit")
=============================================================================
