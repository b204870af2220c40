------------------------------ MODULE DuckMixer ------------------------------
(***************************************************************************)
(* The lever of the ducking (voice/duck-mixer.ts): a chain of operations   *)
(* lowers the sessions of the other applications and gives them their      *)
(* volumes back.  Windows keeps the volume of an application when it       *)
(* closes, so what was lowered is written to a file first: the debt.       *)
(*                                                                         *)
(* A volume is [set, depth]: which of the user's settings it derives from, *)
(* and how far below it is, in half lowerings (an odd depth is a ramp cut  *)
(* in the middle).  An application has one session; pids are not reused.   *)
(***************************************************************************)
EXTENDS Integers, Sequences, FiniteSets, FiniteSetsExt, SequencesExt

CONSTANTS Apps,
          MaxLaunches, MaxSets,   \* of the applications, by the user
          MaxQueue,               \* operations waiting in the chain
          Silence,                \* the depth below which volumes are all within 0.02
          RampsCut                \* a helper may be killed in the middle of a ramp

ASSUME MixerAssumption ==
  /\ {MaxLaunches, MaxSets, MaxQueue, Silence} \subseteq Nat /\ Silence >= 4
  /\ RampsCut \in BOOLEAN

VARIABLES
  open,      \* the pid of each application that has a session
  vol,       \* its volume, kept by Windows while it is closed
  launches, sets,
  file,      \* duck-restore.json; empty and absent are the same
  up,        \* the orchestrator runs
  queue, op, \* the chain of promises, and the operation under way
  active,    \* duckedEntries is not null
  entries,   \* duckedEntries: what is lowered, with the volumes of before
  pending,   \* owed and not paid: closed applications, helper out of reach
  rescan, queued, stopped,
  astray     \* ghost: applications lowered twice in one duck, or whose ramp was cut

windows == <<open, vol, launches, sets>>
memory  == <<active, entries, pending, rescan, queued>>
mixer   == <<windows, file, up, queue, op, memory, stopped, astray>>

Volume == [set : Nat, depth : Nat]
Entry  == [pid : Nat \ {0}, name : Apps, vol : Volume]
Op     == [kind : {"none", "boot", "duck", "restore", "rescan", "stop"},
           at : {"none", "setv", "ask", "paid", "unpaid"},
           list : SUBSET Entry, missing : SUBSET Entry]
NoOp   == [kind |-> "none", at |-> "none", list |-> {}, missing |-> {}]

MixerTypeOK ==
  /\ open \in [Apps -> Nat] /\ vol \in [Apps -> Volume]
  /\ launches \in Nat /\ sets \in Nat
  /\ file \in SUBSET Entry
  /\ up \in BOOLEAN
  /\ queue \in Seq({"boot", "duck", "restore", "rescan", "stop"})
  /\ op \in Op
  /\ active \in BOOLEAN /\ entries \in SUBSET Entry
  /\ pending \in SUBSET Entry
  /\ rescan \in BOOLEAN /\ queued \in BOOLEAN /\ stopped \in BOOLEAN
  /\ astray \in SUBSET Apps

MixerInit ==
  /\ open = [a \in Apps |-> 0]
  /\ vol = [a \in Apps |-> [set |-> 0, depth |-> 0]]
  /\ launches = 0 /\ sets = 0
  /\ file = {}
  /\ up = FALSE /\ queue = <<>> /\ op = NoOp
  /\ active = FALSE /\ entries = {} /\ pending = {}
  /\ rescan = FALSE /\ queued = FALSE /\ stopped = FALSE
  /\ astray = {}
-----------------------------------------------------------------------------
\* The user and his applications.
Open(a) ==
  /\ open[a] = 0 /\ launches < MaxLaunches
  /\ launches' = launches + 1
  /\ open' = [open EXCEPT ![a] = launches + 1]
  /\ UNCHANGED <<vol, sets, file, up, queue, op, memory, stopped, astray>>

Close(a) ==
  /\ open[a] # 0
  /\ open' = [open EXCEPT ![a] = 0]
  /\ UNCHANGED <<vol, launches, sets, file, up, queue, op, memory, stopped, astray>>

UserSets(a) ==
  /\ open[a] # 0 /\ sets < MaxSets
  /\ sets' = sets + 1
  /\ vol' = [vol EXCEPT ![a] = [set |-> sets + 1, depth |-> 0]]
  /\ UNCHANGED <<open, launches, file, up, queue, op, memory, stopped, astray>>
-----------------------------------------------------------------------------
Names(E)    == {e.name : e \in E}
Of(E, n)    == {e \in E : e.name = n}
\* first-wins: entries are listed in the order of their pids.
First(E, n) == CHOOSE e \in Of(E, n) : \A f \in Of(E, n) : e.pid <= f.pid
Lowered(v)  == [v EXCEPT !.depth = IF @ + 2 < Silence THEN @ + 2 ELSE Silence]
Owed        == pending \union entries

\* opSnap: the sessions of the other applications, at their present volumes.
Snap == {[pid |-> open[a], name |-> a, vol |-> vol[a]] : a \in {b \in Apps : open[b] # 0}}

\* adoptPending: an application that comes back at the volume it was left at takes its
\* origin from the debt; at any other volume the user is taken to have set it.
Adopted(e) ==
  IF e.name \in Names(pending) /\ e.vol = Lowered(First(pending, e.name).vol)
  THEN [e EXCEPT !.vol = First(pending, e.name).vol]
  ELSE e
AdoptPending(snap) ==
  /\ pending' = {p \in pending : p.name \notin Names(snap)}

Next1(kind) == op = NoOp /\ queue # <<>> /\ Head(queue) = kind /\ queue' = Tail(queue)
Waiting     == UNCHANGED <<windows, up, stopped>>

\* duck(): the write-ahead comes before the lowering; no helper, no duck.
SnapDuck ==
  /\ Next1("duck")
  /\ \/ /\ ~stopped /\ ~active
        /\ LET snap == {Adopted(e) : e \in Snap} IN
             /\ AdoptPending(snap)
             /\ active' = TRUE /\ entries' = snap
             /\ file' = snap \union pending'
             /\ op' = [kind |-> "duck", at |-> "setv", list |-> snap, missing |-> {}]
     \/ UNCHANGED <<file, op, active, entries, pending>>
  /\ Waiting /\ UNCHANGED <<rescan, queued, astray>>

\* Bug: the rescan does not look whether the duck is over.
SnapRescanAnyway ==
  /\ Next1("rescan")
  /\ queued' = FALSE
  /\ LET list == {e \in Snap : \A k \in Owed : k.pid # e.pid} IN
       /\ active' = TRUE /\ entries' = list \union entries
       /\ file' = entries' \union pending
       /\ op' = [kind |-> "rescan", at |-> "setv", list |-> list, missing |-> {}]
  /\ Waiting /\ UNCHANGED <<pending, rescan, astray>>

\* The rescan of a duck that is over puts its own timer out; the sessions it finds are
\* new by their pid.
SnapRescan ==
  /\ Next1("rescan")
  /\ queued' = FALSE
  /\ \/ /\ stopped \/ ~active
        /\ rescan' = FALSE
        /\ UNCHANGED <<file, op, entries, pending, astray>>
     \/ /\ ~stopped /\ active
        /\ LET fresh == {e \in Snap : \A k \in entries : k.pid # e.pid}
               list  == {Adopted(e) : e \in fresh}
           IN \/ /\ fresh # {}
                 /\ AdoptPending(fresh)
                 /\ entries' = entries \union list
                 /\ file' = entries' \union pending'
                 /\ op' = [kind |-> "rescan", at |-> "setv", list |-> list, missing |-> {}]
                 /\ astray' = astray \union (Names(list) \intersect Names(entries))
              \/ UNCHANGED <<file, op, entries, pending, astray>>
        /\ UNCHANGED rescan
  /\ Waiting /\ UNCHANGED active

\* opDuck, by pid: the lowering itself, or a helper that does nothing of it.
Lower ==
  /\ op.at = "setv"
  /\ \/ vol' = [a \in Apps |-> IF \E e \in op.list : e.pid = open[a]
                               THEN Lowered((CHOOSE e \in op.list : e.pid = open[a]).vol)
                               ELSE vol[a]]
     \/ UNCHANGED vol
  /\ op' = NoOp
  /\ rescan' = (rescan \/ op.kind = "duck")
  /\ UNCHANGED <<open, launches, sets, file, up, queue, active, entries, pending, queued, stopped, astray>>

\* restore(), stop() and the net of the boot settle what is owed.
Settle(kind, owed) ==
  /\ Next1(kind)
  /\ op' = IF owed = {} THEN NoOp
           ELSE [kind |-> kind, at |-> "ask", list |-> owed, missing |-> {}]
  /\ Waiting /\ UNCHANGED <<queued, astray>>

BeginBoot    == Settle("boot", file) /\ UNCHANGED <<file, active, entries, pending, rescan>>
BeginStop    == Settle("stop", Owed) /\ active' = FALSE /\ entries' = {} /\ UNCHANGED <<file, pending, rescan>>
BeginRestore ==
  /\ Settle("restore", Owed)
  /\ active' = FALSE /\ entries' = {} /\ rescan' = FALSE
  /\ file' = IF Owed = {} THEN {} ELSE file
  /\ UNCHANGED pending

\* Restore of the helper: by pid, else every session of the name, the first entry of a
\* name winning; entries of closed applications are handed back.
Repaid(a) ==
  IF open[a] # 0 /\ a \in Names(op.list) THEN First(op.list, a).vol ELSE vol[a]
\* A ramp cut in the middle, by a helper that is killed at its deadline.
Halfway(a) ==
  IF vol[a].set = Repaid(a).set /\ vol[a].depth > Repaid(a).depth
  THEN [vol[a] EXCEPT !.depth = Repaid(a).depth + 1] ELSE Repaid(a)

\* No answer to trust: the helper cannot be started, is frozen twice past its deadline,
\* or its answer is lost with it, whatever it has done meanwhile.
Unanswered == op' = [op EXCEPT !.at = "unpaid"]

HelperRestores ==
  /\ op.at = "ask"
  /\ \/ /\ vol' = [a \in Apps |-> Repaid(a)]
        /\ \/ op' = [op EXCEPT !.at = "paid", !.missing = {e \in op.list : open[e.name] = 0}]
           \/ Unanswered
        /\ UNCHANGED astray
     \/ /\ RampsCut /\ Unanswered
        /\ vol' = [a \in Apps |-> Halfway(a)]
        /\ astray' = astray \union {a \in Apps : vol'[a].depth % 2 = 1}
     \/ Unanswered /\ UNCHANGED <<vol, astray>>
  /\ UNCHANGED <<open, launches, sets, file, up, queue, memory, stopped>>

\* Bug: a restoration that has no answer is taken at its word.
SettledOnParole ==
  /\ op.at \in {"paid", "unpaid"}
  /\ pending' = op.missing /\ file' = op.missing
  /\ op' = NoOp
  /\ Waiting /\ UNCHANGED <<queue, active, entries, rescan, queued, astray>>

\* settleRestore: the file is erased only once everything is accounted for.
Settled ==
  /\ op.at \in {"paid", "unpaid"}
  /\ LET left == IF op.at = "paid" THEN op.missing ELSE op.list IN
       pending' = left /\ file' = left
  /\ op' = NoOp
  /\ Waiting /\ UNCHANGED <<queue, active, entries, rescan, queued, astray>>

RescanTick ==
  /\ rescan /\ ~queued /\ Len(queue) < MaxQueue
  /\ queued' = TRUE
  /\ queue' = Append(queue, "rescan")
  /\ UNCHANGED <<windows, file, up, op, active, entries, pending, rescan, stopped, astray>>

\* The chain: one operation at a time, in the order of the calls.
Chain ==
  \/ SnapDuck \/ SnapRescan \/ Lower
  \/ BeginBoot \/ BeginStop \/ BeginRestore \/ HelperRestores \/ Settled
-----------------------------------------------------------------------------
\* What the policy calls: fire and forget.
Call(calls, timer) ==
  /\ Len(queue) + Len(calls) <= MaxQueue
  /\ queue' = queue \o calls
  /\ rescan' = timer
  /\ UNCHANGED <<windows, file, up, op, active, entries, pending, queued, astray>>
MixerDuck    == Call(<<"duck">>, rescan)
MixerRestore == Call(<<"restore">>, FALSE)

\* A process with nothing in memory, but the debt on the disk.
Start ==
  /\ up' = TRUE
  /\ queue' = <<"boot">> /\ op' = NoOp
  /\ active' = FALSE /\ entries' = {} /\ pending' = {}
  /\ rescan' = FALSE /\ queued' = FALSE /\ stopped' = FALSE
  /\ UNCHANGED <<windows, file, astray>>
Idle == queue = <<>> /\ op = NoOp
=============================================================================
