-------------------------- MODULE Governor_proofs --------------------------
(***************************************************************************)
(* The safety of the governor and of the quit, for any tasks and           *)
(* priorities, any quota, any length of the jobs and any number of         *)
(* events, failures, quits and cuts.                                       *)
(***************************************************************************)
EXTENDS Governor, TLAPS

\* TypeOK by kind of data.
TypeDisk ==
  /\ rows \in BOOLEAN
  /\ owed \in [Tasks -> BOOLEAN]
  /\ cursor \in [Tasks -> 0..Units - 1]
  /\ running \in {0, 1}
  /\ due \in [Tasks -> BOOLEAN]

TypeMemory ==
  /\ proc \in {"off", "boot", "up"}
  /\ user \in [active : BOOLEAN, cooling : BOOLEAN]
  /\ held \in SUBSET Holds
  /\ gov \in [ensured : BOOLEAN,
              run : [pc : {"idle", "yield", "unit"}, task : Tasks,
                     called : BOOLEAN, committed : BOOLEAN]]

TypePenalty == penalty \in [Tasks -> [count : Nat, cooling : BOOLEAN]]

TypeQuit ==
  /\ quit \in [pc : {"none", "quiesce", "ack", "term"}, by : Nat, stalled : BOOLEAN]
  /\ ending \in {"none", "sequence", "default", "watchdog", "stall", "cut"}

TypeLeft == left \in [{"events", "faults", "ends"} -> Nat]

\* A unit that may still call has its call in the budget.
WithinBudget ==
  /\ spent \in 0..BudgetCap
  /\ gov.run.pc = "unit" /\ gov.run.task \in Quota /\ ~gov.run.called /\ ~gov.run.committed
        => spent < BudgetCap

\* No run without a process, nor before the lines of the watermarks exist.
RunsOnRows ==
  /\ gov.ensured => rows
  /\ Busy => proc = "up" /\ gov.ensured

\* The only task held back with a commit to its name is one whose unit has committed.
Lateness ==
  /\ late \in [Tasks -> Nat]
  /\ \A t \in Tasks :
       late[t] # 0 => /\ late[t] = 1
                      /\ HeldBack(t)
                      /\ gov.run.pc = "unit" /\ gov.run.task = t => gov.run.committed

\* The flag is down only between two lives.
FlagUp == running = 0 => proc = "off"

Types == TypeDisk /\ TypeMemory /\ TypePenalty /\ TypeQuit /\ TypeLeft

IInv == Types /\ WithinBudget /\ RunsOnRows /\ BegunIsOwed /\ Lateness /\ FlagUp
-----------------------------------------------------------------------------
RunType == [pc : {"idle", "yield", "unit"}, task : Tasks, called : BOOLEAN, committed : BOOLEAN]

LEMMA Constants ==
  /\ Queue[1] \in Tasks /\ \A i \in DOMAIN Queue : Queue[i] \in Tasks
  /\ Units \in Nat \ {0} /\ BudgetCap \in Nat \ {0}
  /\ MaxEvents \in Nat /\ MaxFaults \in Nat /\ MaxEnds \in Nat
  BY TasksAssumption DEF TasksAssumption

LEMMA Limits == \A pc \in {"quiesce", "ack", "term"} : Limit[pc] \in Nat
  BY MarginAssumption DEF MarginAssumption, Limit

LEMMA AtType ==
  ASSUME NEW pc \in {"idle", "yield", "unit"}, NEW t \in Tasks
  PROVE  /\ At(pc, t) \in RunType
         /\ At(pc, t).pc = pc /\ At(pc, t).task = t
         /\ ~At(pc, t).called /\ ~At(pc, t).committed
  BY DEF At, RunType

LEMMA IdleType == Idle \in RunType /\ Idle.pc = "idle"
  BY AtType, Constants DEF Idle

LEMMA InitInv == Init => IInv
<1> SUFFICES ASSUME Init PROVE IInv
  OBVIOUS
<1>1. TypeDisk
  <2>1. 0 \in 0..Units - 1
    BY Constants
  <2> QED
    BY <2>1 DEF Init, TypeDisk
<1>2. TypeMemory
  BY IdleType DEF Init, TypeMemory, RunType
<1>3. TypePenalty
  BY DEF Init, TypePenalty, NoPenalty
<1>4. TypeQuit
  BY DEF Init, TypeQuit, NoQuit
<1>5. TypeLeft
  BY Constants DEF Init, TypeLeft
<1>6. WithinBudget /\ RunsOnRows /\ BegunIsOwed /\ FlagUp
  BY IdleType, Constants DEF Init, WithinBudget, RunsOnRows, BegunIsOwed, FlagUp, Busy
<1>7. Lateness
  BY DEF Init, Lateness
<1> QED
  BY <1>1, <1>2, <1>3, <1>4, <1>5, <1>6, <1>7 DEF IInv, Types
-----------------------------------------------------------------------------
(***************************************************************************)
(* Who touches what.                                                       *)
(***************************************************************************)
Step == Loop \/ World \/ Process

Exits == \E by \in {"sequence", "default", "watchdog", "stall", "cut"} : Exit(by)

LEMMA WhoRuns ==
  ASSUME Step
  PROVE  \/ UNCHANGED <<proc, gov, running, rows, owed, cursor>>
         \/ Tick \/ NextUnit \/ (\E t \in Tasks : Unit(t)) \/ Boot \/ Ready
         \/ Exits
  BY DEF Step, Loop, World, Process, TickRefused, UserComesOrGoes, Debounced, NotifyThrottle,
         ThrottleEnds, Toggle, WindowSlides, DeadlineComes, PenaltyEnds, Cut, BeforeQuit,
         QuiesceEnds, AckEnds, TermEnds, Watchdog, Stall, Exits, disk, around, vars

LEMMA WhoDue ==
  ASSUME Step
  PROVE  \/ UNCHANGED due
         \/ \E t \in Tasks : DeadlineComes(t) \/ CommitUnit(t)
  BY DEF Step, Loop, World, Process, Tick, TickRefused, NextUnit, Unit, UnitCalls, UnitReturns,
         UnitFails, UserComesOrGoes, Debounced, NotifyThrottle, ThrottleEnds, Toggle,
         WindowSlides, PenaltyEnds, Boot, Ready, Cut, BeforeQuit, QuiesceEnds, AckEnds,
         TermEnds, Watchdog, Stall, Exit, disk, around, vars

LEMMA WhoSpends ==
  ASSUME Step
  PROVE  UNCHANGED spent \/ WindowSlides \/ \E t \in Tasks : UnitCalls(t)
  BY DEF Step, Loop, World, Process, Tick, TickRefused, NextUnit, Unit, CommitUnit, UnitReturns,
         UnitFails, UserComesOrGoes, Debounced, NotifyThrottle, ThrottleEnds, Toggle,
         DeadlineComes, PenaltyEnds, Boot, Ready, Cut, BeforeQuit, QuiesceEnds, AckEnds,
         TermEnds, Watchdog, Stall, Exit, disk, around, vars

LEMMA WhoPunishes ==
  ASSUME Step
  PROVE  \/ UNCHANGED penalty \/ penalty' = NoPenalty
         \/ \E t \in Tasks : UnitReturns(t) \/ UnitFails(t) \/ PenaltyEnds(t)
  BY DEF Step, Loop, World, Process, Tick, TickRefused, NextUnit, Unit, UnitCalls, CommitUnit,
         UserComesOrGoes, Debounced, NotifyThrottle, ThrottleEnds, Toggle, WindowSlides,
         DeadlineComes, Boot, Ready, Cut, BeforeQuit, QuiesceEnds, AckEnds,
         TermEnds, Watchdog, Stall, Exit, disk, around, vars

LEMMA WhoQuits ==
  ASSUME Step
  PROVE  \/ UNCHANGED <<quit, ending>> \/ BeforeQuit \/ QuiesceEnds \/ AckEnds \/ Stall
         \/ Exits \/ Boot
  BY DEF Step, Loop, World, Process, Tick, TickRefused, NextUnit, Unit, UnitCalls, CommitUnit,
         UnitReturns, UnitFails, UserComesOrGoes, Debounced, NotifyThrottle, ThrottleEnds,
         Toggle, WindowSlides, DeadlineComes, PenaltyEnds, Ready, Cut,
         TermEnds, Watchdog, Exits, disk, around, vars

LEMMA WhoPays ==
  ASSUME Step
  PROVE  UNCHANGED left \/ \E k \in {"events", "faults", "ends"} : Spend(k)
  BY DEF Step, Loop, World, Process, Tick, TickRefused, NextUnit, Unit, UnitCalls, CommitUnit,
         UnitReturns, UnitFails, UserComesOrGoes, Debounced, NotifyThrottle, ThrottleEnds,
         Toggle, WindowSlides, DeadlineComes, PenaltyEnds, Boot, Ready, Cut, BeforeQuit,
         QuiesceEnds, AckEnds, TermEnds, Watchdog, Stall, Probe, disk, around, vars

LEMMA WhoLooks ==
  ASSUME Step
  PROVE  UNCHANGED user \/ user' = Probed \/ UserComesOrGoes \/ Debounced \/ Exits
  BY DEF Step, Loop, World, Process, Tick, TickRefused, NextUnit, Unit, UnitCalls, CommitUnit,
         UnitReturns, UnitFails, NotifyThrottle, ThrottleEnds, Toggle, WindowSlides,
         DeadlineComes, PenaltyEnds, Boot, Ready, Cut, BeforeQuit, QuiesceEnds, AckEnds,
         TermEnds, Watchdog, Stall, Probe, EndRun, Exits, disk, around, vars

LEMMA WhoHolds ==
  ASSUME Step
  PROVE  \/ UNCHANGED held \/ NotifyThrottle \/ ThrottleEnds \/ Ready \/ Exits
         \/ \E h \in {"secours", "suspended"} : Toggle(h)
  BY DEF Step, Loop, World, Process, Tick, TickRefused, NextUnit, Unit, UnitCalls, CommitUnit,
         UnitReturns, UnitFails, UserComesOrGoes, Debounced, WindowSlides,
         DeadlineComes, PenaltyEnds, Boot, Cut, BeforeQuit, QuiesceEnds, AckEnds,
         TermEnds, Watchdog, Stall, Exits, disk, around, vars
-----------------------------------------------------------------------------
(***************************************************************************)
(* The types.                                                              *)
(***************************************************************************)
LEMMA RunGov ==
  ASSUME NEW r \in RunType, Run(r)
  PROVE  /\ gov' \in [ensured : BOOLEAN, run : RunType]
         /\ gov'.ensured /\ gov'.run = r
  BY DEF Run

LEMMA ExitGov ==
  ASSUME Exits
  PROVE  /\ gov' \in [ensured : BOOLEAN, run : RunType]
         /\ ~gov'.ensured /\ gov'.run.pc = "idle" /\ proc' = "off"
         /\ UNCHANGED <<rows, owed, cursor, spent, due>>
  BY IdleType DEF Exits, Exit

\* What a run can become: the four shapes of gov' after a step of the loop.
LEMMA LoopGov ==
  ASSUME TypeMemory, Tick \/ NextUnit \/ \E t \in Tasks : Unit(t)
  PROVE  gov' \in [ensured : BOOLEAN, run : RunType] /\ gov'.ensured
<1>1. gov.run \in RunType
  BY DEF TypeMemory, RunType
<1>2. CASE Tick
  <2>1. PICK r \in RunType : Run(r)
    <3>1. \A i \in DOMAIN Queue : At("yield", Queue[i]) \in RunType
      BY AtType, Constants
    <3> QED
      BY <1>2, <3>1, IdleType DEF Tick, First, Runnable
  <2> QED
    BY <2>1, RunGov
<1>3. CASE NextUnit
  <2>1. At("unit", gov.run.task) \in RunType
    BY <1>1, AtType DEF RunType
  <2>2. Run(Idle) \/ Run(At("unit", gov.run.task))
    BY <1>3 DEF NextUnit, EndRun
  <2> QED
    BY <2>1, <2>2, IdleType, RunGov
<1>4. ASSUME NEW t \in Tasks, Unit(t) PROVE gov' \in [ensured : BOOLEAN, run : RunType] /\ gov'.ensured
  <2>1. At("yield", t) \in RunType
    BY AtType
  <2>2. /\ [gov.run EXCEPT !.called = TRUE] \in RunType
        /\ [gov.run EXCEPT !.committed = TRUE] \in RunType
    BY <1>1 DEF RunType
  <2>3. \/ Run(Idle) \/ Run(At("yield", t))
        \/ Run([gov.run EXCEPT !.called = TRUE]) \/ Run([gov.run EXCEPT !.committed = TRUE])
    BY <1>4 DEF Unit, UnitCalls, CommitUnit, UnitReturns, UnitFails, EndRun
  <2> QED
    BY <2>1, <2>2, <2>3, IdleType, RunGov
<1> QED
  BY <1>2, <1>3, <1>4

LEMMA MemoryStep ==
  ASSUME TypeMemory, Step
  PROVE  TypeMemory'
<1>1. gov' \in [ensured : BOOLEAN, run : RunType]
  BY WhoRuns, LoopGov, ExitGov DEF TypeMemory, RunType, Boot, Ready
<1>2. proc' \in {"off", "boot", "up"}
  BY WhoRuns, ExitGov DEF TypeMemory, Tick, NextUnit, Unit, UnitCalls, CommitUnit, UnitReturns,
     UnitFails, Boot, Ready
<1>3. user' \in [active : BOOLEAN, cooling : BOOLEAN]
  BY WhoLooks DEF TypeMemory, Probed, UserComesOrGoes, Debounced, Exits, Exit
<1>4. held' \in SUBSET Holds
  BY WhoHolds DEF TypeMemory, NotifyThrottle, ThrottleEnds, Ready, Toggle, Exits, Exit, Holds
<1> QED
  BY <1>1, <1>2, <1>3, <1>4 DEF TypeMemory, RunType

LEMMA DiskStep ==
  ASSUME TypeDisk, TypeMemory, Step
  PROVE  TypeDisk'
<1>1. /\ rows' \in BOOLEAN /\ owed' \in [Tasks -> BOOLEAN]
      /\ cursor' \in [Tasks -> 0..Units - 1]
  <2>1. ASSUME NEW t \in Tasks, CommitUnit(t)
        PROVE  /\ rows' \in BOOLEAN /\ owed' \in [Tasks -> BOOLEAN]
               /\ cursor' \in [Tasks -> 0..Units - 1]
    <3>1. (IF JobDone(t) THEN 0 ELSE cursor[t] + 1) \in 0..Units - 1
      BY Constants DEF TypeDisk, JobDone
    <3> QED
      BY <2>1, <3>1 DEF CommitUnit, TypeDisk, JobDone
  <2> QED
    BY <2>1, WhoRuns, ExitGov
    DEF TypeDisk, TypeMemory, Tick, NextUnit, Unit, UnitCalls, UnitReturns, UnitFails,
        Boot, Ready, disk
<1>2. running' \in {0, 1}
  BY DEF TypeDisk, Step, Loop, World, Process, Tick, TickRefused, NextUnit, Unit, UnitCalls,
     CommitUnit, UnitReturns, UnitFails, UserComesOrGoes, Debounced, NotifyThrottle,
     ThrottleEnds, Toggle, WindowSlides, DeadlineComes, PenaltyEnds, Boot, Ready, Cut,
     BeforeQuit, QuiesceEnds, AckEnds, TermEnds, Watchdog, Stall, disk
<1>3. due' \in [Tasks -> BOOLEAN]
  BY WhoDue DEF TypeDisk, DeadlineComes, CommitUnit
<1> QED
  BY <1>1, <1>2, <1>3 DEF TypeDisk

LEMMA PenaltyStep ==
  ASSUME TypePenalty, Step
  PROVE  TypePenalty'
<1>1. NoPenalty \in [Tasks -> [count : Nat, cooling : BOOLEAN]]
  BY DEF NoPenalty
<1>2. ASSUME NEW t \in Tasks, UnitReturns(t) \/ UnitFails(t) \/ PenaltyEnds(t)
      PROVE  \E n \in Nat, b \in BOOLEAN :
               penalty' = [penalty EXCEPT ![t] = [count |-> n, cooling |-> b]]
  <2>1. penalty[t].count \in Nat /\ penalty[t].count + 1 \in Nat
    BY DEF TypePenalty
  <2>2. CASE UnitReturns(t) \/ PenaltyEnds(t)
    BY <2>1, <2>2 DEF UnitReturns, PenaltyEnds
  <2>3. ASSUME NEW age, NoteFailure(t, age)
        PROVE  \E n \in Nat, b \in BOOLEAN :
                 penalty' = [penalty EXCEPT ![t] = [count |-> n, cooling |-> b]]
    <3> DEFINE b == age < Delay(penalty[t].count + 1)
    <3>1. b \in BOOLEAN
      OBVIOUS
    <3>2. penalty' = [penalty EXCEPT ![t] = [count |-> penalty[t].count + 1, cooling |-> b]]
      BY <2>3 DEF NoteFailure
    <3> HIDE DEF b
    <3> QED
      BY <2>1, <3>1, <3>2
  <2> QED
    BY <1>2, <2>2, <2>3 DEF UnitFails
<1> QED
  BY <1>1, <1>2, WhoPunishes DEF TypePenalty

LEMMA QuitStep ==
  ASSUME TypeQuit, Step
  PROVE  TypeQuit'
<1>1. ASSUME NEW pc \in {"quiesce", "ack", "term"}, Go(pc)
      PROVE  quit' \in [pc : {"none", "quiesce", "ack", "term"}, by : Nat, stalled : BOOLEAN]
  BY <1>1, Limits DEF Go, TypeQuit
<1>2. NoQuit \in [pc : {"none", "quiesce", "ack", "term"}, by : Nat, stalled : BOOLEAN]
  BY DEF NoQuit
<1> QED
  BY <1>1, <1>2, WhoQuits
  DEF TypeQuit, BeforeQuit, QuiesceEnds, AckEnds, Stall, Boot, Exits, Exit

LEMMA LeftStep ==
  ASSUME TypeLeft, Step
  PROVE  TypeLeft'
  BY WhoPays DEF TypeLeft, Spend

LEMMA TypesStep ==
  ASSUME Types, Step
  PROVE  Types'
  BY MemoryStep, DiskStep, PenaltyStep, QuitStep, LeftStep DEF Types
-----------------------------------------------------------------------------
(***************************************************************************)
(* The invariants of the loop.                                             *)
(***************************************************************************)
\* What the gate between two units lets through: nothing held the task back, and its
\* first call is in the budget.
LEMMA Gate ==
  ASSUME Types, NextUnit, gov'.run.pc = "unit"
  PROVE  /\ gov'.run = At("unit", gov.run.task)
         /\ gov.run.task \in Tasks
         /\ ~HeldBack(gov.run.task)
         /\ spent' = spent
<1>1. gov.run.task \in Tasks
  BY DEF Types, TypeMemory
<1>2. At("unit", gov.run.task) \in RunType
  BY <1>1, AtType
<1>3. ~quiescing /\ "suspended" \notin held
  BY RunGov, IdleType DEF NextUnit, EndRun
<1>4. PICK interactive \in BOOLEAN :
        /\ Probe(interactive)
        /\ Run(IF CanRun(gov.run.task, interactive) THEN At("unit", gov.run.task) ELSE Idle)
  BY <1>3 DEF NextUnit
<1>5. CanRun(gov.run.task, interactive) /\ gov'.run = At("unit", gov.run.task)
  BY <1>2, <1>4, RunGov, IdleType
<1>6. ~user.active
  BY <1>4, <1>5 DEF CanRun, Probe
<1>7. ~HeldBack(gov.run.task)
  BY <1>3, <1>5, <1>6 DEF CanRun, HeldBack
<1> QED
  BY <1>1, <1>5, <1>7 DEF NextUnit, disk

LEMMA RowsStep ==
  ASSUME Types, RunsOnRows, Step
  PROVE  RunsOnRows'
<1>1. CASE Tick
  <2>1. rows' /\ proc' = "up" /\ gov'.ensured
    BY <1>1, LoopGov DEF Types, TypeDisk, RunsOnRows, Tick, Arbitrating
  <2> QED
    BY <2>1 DEF RunsOnRows, Busy
<1>2. CASE NextUnit \/ \E t \in Tasks : Unit(t)
  <2>1. Busy /\ UNCHANGED <<rows, proc>>
    BY <1>2 DEF NextUnit, Unit, UnitCalls, CommitUnit, UnitReturns, UnitFails, InUnit, Busy, disk
  <2> QED
    BY <1>2, <2>1, LoopGov DEF Types, RunsOnRows, Busy
<1>3. CASE Boot \/ Ready
  BY <1>3 DEF RunsOnRows, Busy, Boot, Ready, disk
<1>4. CASE Exits
  BY <1>4, ExitGov DEF RunsOnRows, Busy
<1> QED
  BY <1>1, <1>2, <1>3, <1>4, WhoRuns DEF RunsOnRows, Busy

LEMMA BegunStep ==
  ASSUME Types, RunsOnRows, BegunIsOwed, Step
  PROVE  BegunIsOwed'
<1>1. ASSUME NEW t \in Tasks, CommitUnit(t) PROVE BegunIsOwed'
  <2>1. rows
    BY <1>1 DEF CommitUnit, InUnit, RunsOnRows, Busy
  <2> QED
    BY <1>1, <2>1 DEF CommitUnit, BegunIsOwed, JobDone, Types, TypeDisk
<1> QED
  BY <1>1, WhoRuns, ExitGov
  DEF BegunIsOwed, Tick, NextUnit, Unit, UnitCalls, UnitReturns, UnitFails, Boot, Ready, disk

LEMMA FlagStep ==
  ASSUME Types, FlagUp, Step
  PROVE  FlagUp'
<1>1. CASE TermEnds
  BY <1>1 DEF TermEnds, Exit, FlagUp
<1>2. CASE Boot
  BY <1>2 DEF Boot, FlagUp
<1>3. CASE UNCHANGED running
  <2>1. CASE running = 0
    BY <1>3, <2>1, WhoRuns, ExitGov
    DEF FlagUp, Tick, Arbitrating, NextUnit, Unit, UnitCalls, CommitUnit, UnitReturns, UnitFails,
        InUnit, Boot, Ready
  <2> QED
    BY <1>3, <2>1 DEF FlagUp
<1> QED
  BY <1>1, <1>2, <1>3
  DEF Step, Loop, World, Process, Tick, TickRefused, NextUnit, Unit, UnitCalls,
      CommitUnit, UnitReturns, UnitFails, UserComesOrGoes, Debounced, NotifyThrottle,
      ThrottleEnds, Toggle, WindowSlides, DeadlineComes, PenaltyEnds, Ready, Cut,
      BeforeQuit, QuiesceEnds, AckEnds, Watchdog, Stall, disk

LEMMA BudgetStep ==
  ASSUME Types, WithinBudget, Step
  PROVE  WithinBudget'
<1> DEFINE MayCall(g) == g.run.pc = "unit" /\ g.run.task \in Quota
                            /\ ~g.run.called /\ ~g.run.committed
<1>1. ASSUME NEW t \in Tasks, UnitCalls(t) PROVE WithinBudget'
  <2>1. gov.run \in RunType
    BY DEF Types, TypeMemory, RunType
  <2>2. [gov.run EXCEPT !.called = TRUE] \in RunType /\ [gov.run EXCEPT !.called = TRUE].called
    BY <2>1 DEF RunType
  <2>3. gov'.run.called
    BY <1>1, <2>2, RunGov DEF UnitCalls
  <2>4. spent < BudgetCap /\ spent' = spent + 1
    BY <1>1 DEF UnitCalls, InUnit, WithinBudget
  <2> QED
    BY <2>3, <2>4, Constants DEF WithinBudget
<1>2. CASE WindowSlides
  BY <1>2, Constants DEF WindowSlides, WithinBudget, Watched
<1>3. CASE UNCHANGED spent /\ (MayCall(gov') => MayCall(gov) \/ spent < BudgetCap)
  BY <1>3 DEF WithinBudget
<1>4. CASE NextUnit
  <2>1. CASE gov'.run.pc = "unit"
    <3>1. gov'.run.task = gov.run.task
      BY <1>4, <2>1, Gate, AtType
    <3>2. gov.run.task \in Quota => ~(spent >= BudgetCap)
      BY <1>4, <2>1, Gate DEF HeldBack, QuotaUnavailable
    <3>3. spent \in Int /\ BudgetCap \in Int
      BY Constants DEF WithinBudget
    <3> QED
      BY <1>3, <1>4, <2>1, <3>1, <3>2, <3>3, Gate
  <2>2. CASE gov'.run.pc # "unit"
    BY <1>3, <1>4, <2>2 DEF NextUnit, disk
  <2> QED
    BY <2>1, <2>2
<1>5. CASE Tick
  <2>1. gov'.run.pc # "unit"
    <3>1. \A i \in DOMAIN Queue : At("yield", Queue[i]) \in RunType /\ At("yield", Queue[i]).pc = "yield"
      BY AtType, Constants
    <3>2. \E r \in RunType : Run(r) /\ r.pc # "unit"
      BY <1>5, <3>1, IdleType DEF Tick, First, Runnable
    <3> QED
      BY <3>2, RunGov
  <2> QED
    BY <1>3, <1>5, <2>1 DEF Tick
<1>6. ASSUME NEW t \in Tasks, CommitUnit(t) \/ UnitReturns(t) \/ UnitFails(t)
      PROVE WithinBudget'
  <2>1. gov.run \in RunType
    BY DEF Types, TypeMemory, RunType
  <2>2. /\ [gov.run EXCEPT !.committed = TRUE] \in RunType
        /\ [gov.run EXCEPT !.committed = TRUE].committed
        /\ At("yield", t) \in RunType /\ At("yield", t).pc = "yield"
    BY <2>1, AtType DEF RunType
  <2>3. \E r \in RunType : Run(r) /\ (r.pc # "unit" \/ r.committed)
    BY <1>6, <2>2, IdleType DEF CommitUnit, UnitReturns, UnitFails, EndRun
  <2>4. gov'.run.pc # "unit" \/ gov'.run.committed
    BY <2>3, RunGov
  <2>5. UNCHANGED spent
    BY <1>6 DEF CommitUnit, UnitReturns, UnitFails, disk
  <2> QED
    BY <1>3, <2>4, <2>5
<1>7. CASE Exits
  BY <1>3, <1>7, ExitGov
<1>8. CASE UNCHANGED gov
  BY <1>1, <1>2, <1>3, <1>8, WhoSpends
<1> QED
  BY <1>1, <1>4, <1>5, <1>6, <1>7, <1>8, WhoRuns DEF Unit, Boot, Ready

\* A unit that has not committed is entered through the gate, or was there already.
LEMMA Entry ==
  ASSUME Types, Step, NEW t \in Tasks,
         gov'.run.pc = "unit", gov'.run.task = t, ~gov'.run.committed
  PROVE  \/ gov.run.pc = "unit" /\ gov.run.task = t /\ ~gov.run.committed
         \/ ~HeldBack(t)
<1>1. CASE NextUnit
  BY <1>1, Gate, AtType
<1>2. CASE Tick
  <2>1. \A i \in DOMAIN Queue : At("yield", Queue[i]) \in RunType /\ At("yield", Queue[i]).pc = "yield"
    BY AtType, Constants
  <2>2. \E r \in RunType : Run(r) /\ r.pc # "unit"
    BY <1>2, <2>1, IdleType DEF Tick, First, Runnable
  <2> QED
    BY <2>2, RunGov
<1>3. ASSUME NEW u \in Tasks, Unit(u)
      PROVE  gov.run.pc = "unit" /\ gov.run.task = t /\ ~gov.run.committed
  <2>1. gov.run \in RunType
    BY DEF Types, TypeMemory, RunType
  <2>2. CASE UnitCalls(u)
    <3>1. LET r == [gov.run EXCEPT !.called = TRUE]
          IN r \in RunType /\ r.task = gov.run.task
      BY <2>1 DEF RunType
    <3>2. gov'.run.task = gov.run.task
      BY <2>2, <3>1, RunGov DEF UnitCalls
    <3> QED
      BY <2>2, <3>2 DEF UnitCalls, InUnit
  <2>3. CASE CommitUnit(u)
    <3>1. LET r == [gov.run EXCEPT !.committed = TRUE]
          IN r \in RunType /\ r.committed
      BY <2>1 DEF RunType
    <3> QED
      BY <2>3, <3>1, RunGov DEF CommitUnit
  <2>4. CASE UnitReturns(u) \/ UnitFails(u)
    <3>1. At("yield", u) \in RunType /\ At("yield", u).pc = "yield"
      BY AtType
    <3>2. \E r \in RunType : Run(r) /\ r.pc # "unit"
      BY <2>4, <3>1, IdleType DEF UnitReturns, UnitFails, EndRun
    <3> QED
      BY <3>2, RunGov
  <2> QED
    BY <1>3, <2>2, <2>3, <2>4 DEF Unit
<1>4. CASE Exits
  BY <1>4, ExitGov
<1> QED
  BY <1>1, <1>2, <1>3, <1>4, WhoRuns DEF Boot, Ready

LEMMA LateStep ==
  ASSUME Types, Lateness, Step, CountLate
  PROVE  Lateness'
<1>1. ASSUME NEW t \in Tasks, Commits(t)
      PROVE  late[t] = 0 /\ gov'.run.committed
  <2>1. gov.run.pc = "unit"
    <3>1. CASE NextUnit
      <4>1. At("unit", gov.run.task) \in RunType /\ ~At("unit", gov.run.task).committed
        BY AtType DEF Types, TypeMemory
      <4>2. ~Idle.committed
        BY AtType, Constants DEF Idle
      <4>3. \E r \in RunType : Run(r) /\ ~r.committed
        BY <3>1, <4>1, <4>2, IdleType DEF NextUnit, EndRun
      <4> QED
        BY <1>1, <4>3, RunGov DEF Commits
    <3>2. CASE Tick
      <4>1. \A i \in DOMAIN Queue : At("yield", Queue[i]) \in RunType /\ ~At("yield", Queue[i]).committed
        BY AtType, Constants
      <4>2. ~Idle.committed
        BY AtType, Constants DEF Idle
      <4>3. \E r \in RunType : Run(r) /\ ~r.committed
        BY <3>2, <4>1, <4>2, IdleType DEF Tick, First, Runnable
      <4> QED
        BY <1>1, <4>3, RunGov DEF Commits
    <3>3. CASE Exits
      <4>1. gov'.run = Idle /\ ~Idle.committed
        BY <3>3, AtType, Constants DEF Exits, Exit, Idle
      <4> QED
        BY <1>1, <4>1 DEF Commits
    <3>4. CASE \E u \in Tasks : Unit(u)
      BY <3>4 DEF Unit, UnitCalls, CommitUnit, UnitReturns, UnitFails, InUnit
    <3> QED
      BY <1>1, <3>1, <3>2, <3>3, <3>4, WhoRuns DEF Boot, Ready, Commits
  <2> QED
    BY <1>1, <2>1 DEF Commits, Lateness
<1>2. ASSUME NEW t \in Tasks
      PROVE  /\ late'[t] \in Nat
             /\ late'[t] # 0 => /\ late'[t] = 1
                                /\ HeldBack(t)'
                                /\ gov'.run.pc = "unit" /\ gov'.run.task = t => gov'.run.committed
  <2>1. late'[t] = IF ~HeldBack(t)' THEN 0
                   ELSE IF HeldBack(t) /\ Commits(t) THEN late[t] + 1 ELSE late[t]
    BY DEF CountLate
  <2>2. late[t] \in Nat
    BY DEF Lateness
  <2>3. CASE ~HeldBack(t)'
    BY <2>1, <2>3
  <2>4. CASE HeldBack(t)' /\ HeldBack(t) /\ Commits(t)
    BY <1>1, <2>1, <2>4
  <2>5. CASE HeldBack(t)' /\ ~(HeldBack(t) /\ Commits(t))
    <3>1. late'[t] = late[t]
      BY <2>1, <2>5
    <3>2. ASSUME late[t] # 0, gov'.run.pc = "unit", gov'.run.task = t
          PROVE  gov'.run.committed
      BY <3>2, Entry DEF Lateness
    <3> QED
      BY <2>2, <2>5, <3>1, <3>2 DEF Lateness
  <2> QED
    BY <2>3, <2>4, <2>5
<1>3. late' \in [Tasks -> Nat]
  <2>1. late' = [t \in Tasks |-> late'[t]]
    BY DEF CountLate
  <2> QED
    BY <1>2, <2>1
<1> QED
  BY <1>2, <1>3 DEF Lateness
-----------------------------------------------------------------------------
LEMMA IInvStep == IInv /\ [Next]_vars => IInv'
<1> SUFFICES ASSUME IInv, [Next]_vars PROVE IInv'
  OBVIOUS
<1>1. CASE Next
  BY <1>1, TypesStep, BudgetStep, RowsStep, BegunStep, LateStep, FlagStep DEF IInv, Next, Step
<1>2. CASE UNCHANGED vars
  BY <1>2 DEF vars, disk, around, IInv, Types, TypeDisk, TypeMemory, TypePenalty, TypeQuit,
     TypeLeft, WithinBudget, RunsOnRows, Busy, BegunIsOwed, Lateness, FlagUp, HeldBack,
     quiescing, QuotaUnavailable
<1> QED
  BY <1>1, <1>2

\* The invariant of the governor and the shutdown, inductive as it stands.
THEOREM Invariance == Spec => []IInv
  BY InitInv, IInvStep, PTL DEF Spec

\* Every variable keeps its type; in particular units that keep to one call each never
\* take the autonomous calls of a window beyond the cap (recordAutonomousCall, canRun).
THEOREM TypeCorrect == Spec => []TypeOK
<1>1. IInv => TypeOK
  BY DEF IInv, Types, TypeDisk, TypeMemory, TypePenalty, TypeQuit, TypeLeft, WithinBudget,
     Lateness, TypeOK
<1> QED
  BY <1>1, Invariance, PTL

\* Whatever preempts, fails or cuts it, a job begun stays owed (commitUnit).
THEOREM WorkKept == Spec => []BegunIsOwed
<1>1. IInv => BegunIsOwed
  BY DEF IInv
<1> QED
  BY <1>1, Invariance, PTL

\* Of a task held back, at most the unit in flight commits (runTask).
THEOREM YieldsInTime == Spec => []OneLateUnit
<1>1. IInv => OneLateUnit
  <2> SUFFICES ASSUME Lateness, NEW t \in Tasks PROVE late[t] <= 1
    BY DEF IInv, OneLateUnit
  <2>1. late[t] \in Nat /\ (late[t] = 0 \/ late[t] = 1)
    BY DEF Lateness
  <2> QED
    BY <2>1
<1> QED
  BY <1>1, Invariance, PTL

\* The clean flag is the last durable act of a life (writeCleanShutdown).
THEOREM FlagIsLast == Spec => CleanIsLast
<1>1. IInv /\ [Next]_vars =>
        [running = 0 /\ running' = 0 => UNCHANGED <<rows, owed, cursor>>]_vars
  <2> SUFFICES ASSUME IInv, Next, running = 0, running' = 0
               PROVE  UNCHANGED <<rows, owed, cursor>>
    OBVIOUS
  <2>1. proc = "off" /\ Step
    BY DEF IInv, FlagUp, Next, Step
  <2> QED
    BY <2>1, WhoRuns, ExitGov
    DEF Tick, Arbitrating, NextUnit, Unit, UnitCalls, CommitUnit, UnitReturns, UnitFails,
        InUnit, Boot, Ready, disk
<1> QED
  BY <1>1, Invariance, PTL DEF Spec, CleanIsLast
=============================================================================
