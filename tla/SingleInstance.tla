--------------------------- MODULE SingleInstance ---------------------------
(***************************************************************************)
(* The single instance (boot/single-instance.ts): launches of the same     *)
(* home race for a named pipe, which the operating system gives to one     *)
(* process and takes back, a little later, from a dead one.  A launch that *)
(* finds it held asks its holder for the focus; a holder that stays mute   *)
(* is frozen, and is killed if the lockfile proves who it is.              *)
(*                                                                         *)
(* A process is its pid; the pid of a dead one may come back as a program  *)
(* of another image.  The steps of two processes interleave freely.        *)
(***************************************************************************)
EXTENDS Integers, FiniteSets

CONSTANTS Procs, None,
          QuickTries,      \* tryListenBriefly before the focus
          FocusAttempts,   \* requests before concluding that the holder is frozen
          ReclaimTries,    \* tryListenBriefly after the kill
          MaxFaults        \* freezes, crashes, kills without effect, lockfiles not written

ASSUME LaunchAssumption ==
  /\ None \notin Procs
  /\ {QuickTries, FocusAttempts, ReclaimTries} \subseteq Nat \ {0}
  /\ MaxFaults \in Nat

VARIABLES
  pc,        \* of each launch
  tries,     \* what remains of the attempts under way
  asked,     \* whom the connection of a focus request reached
  running,
  frozen,    \* its event loop no longer turns
  reused,    \* its pid now names a program of another image
  pipe,      \* who holds the named pipe
  lockfile,  \* whom it names
  shot,      \* ghost: what SIGKILL was sent to
  faults

procs    == <<pc, tries, asked>>
lockVars == <<procs, running, frozen, reused, pipe, lockfile, shot, faults>>

LaunchStages == {"none", "listen", "bound", "focus", "asking", "judge", "reclaim",
                 "primary", "secondary", "blocked", "closing", "left"}

LockTypeOK ==
  /\ pc \in [Procs -> LaunchStages]
  /\ tries \in [Procs -> Nat]
  /\ asked \in [Procs -> Procs \union {None}]
  /\ running \in [Procs -> BOOLEAN]
  /\ frozen \in [Procs -> BOOLEAN]
  /\ reused \in [Procs -> BOOLEAN]
  /\ pipe \in Procs \union {None}
  /\ lockfile \in Procs \union {None}
  /\ shot \in SUBSET {"stranger", "frozen", "healthy", "other"}
  /\ faults \in Nat

LockInit ==
  /\ pc = [p \in Procs |-> "none"]
  /\ tries = [p \in Procs |-> 0]
  /\ asked = [p \in Procs |-> None]
  /\ running = [p \in Procs |-> FALSE]
  /\ frozen = [p \in Procs |-> FALSE]
  /\ reused = [p \in Procs |-> FALSE]
  /\ pipe = None /\ lockfile = None
  /\ shot = {} /\ faults = MaxFaults

Fault    == faults > 0 /\ faults' = faults - 1
At(p, s) == pc[p] = s /\ running[p] /\ ~frozen[p]
Goes(p, s, n) ==
  /\ pc' = [pc EXCEPT ![p] = s]
  /\ tries' = [tries EXCEPT ![p] = n]

\* Acting as the Sophia of this home, frozen or not.
Acts(p) == running[p] /\ pc[p] \in {"bound", "primary"}
-----------------------------------------------------------------------------
Launch(p) ==
  /\ pc[p] = "none"
  /\ running' = [running EXCEPT ![p] = TRUE]
  /\ Goes(p, "listen", QuickTries)
  /\ UNCHANGED <<asked, frozen, reused, pipe, lockfile, shot, faults>>

\* tryListen finds the pipe free: the operating system gives it at once.
Bind(p) ==
  /\ At(p, "listen") \/ At(p, "reclaim")
  /\ pipe = None
  /\ pipe' = p
  /\ Goes(p, "bound", 0)
  /\ UNCHANGED <<asked, running, frozen, reused, lockfile, shot, faults>>

\* Bug: once the frozen one is killed, its place is taken without waiting for the pipe.
InUseOrNot(p) ==
  /\ pipe # None
  /\ \/ /\ At(p, "listen")
        /\ IF tries[p] > 1 THEN Goes(p, "listen", tries[p] - 1)
                           ELSE Goes(p, "focus", FocusAttempts)
     \/ At(p, "reclaim") /\ Goes(p, "bound", 0)
  /\ UNCHANGED <<asked, running, frozen, reused, pipe, lockfile, shot, faults>>

\* EADDRINUSE: once more after a delay, then the focus, or no more hope.
InUse(p) ==
  /\ pipe # None
  /\ \/ /\ At(p, "listen")
        /\ IF tries[p] > 1 THEN Goes(p, "listen", tries[p] - 1)
                           ELSE Goes(p, "focus", FocusAttempts)
     \/ /\ At(p, "reclaim")
        /\ IF tries[p] > 1 THEN Goes(p, "reclaim", tries[p] - 1)
                           ELSE Goes(p, "blocked", 0)
  /\ UNCHANGED <<asked, running, frozen, reused, pipe, lockfile, shot, faults>>

\* The listening callback: the lockfile is auxiliary, failing to write it stops nothing.
BecomePrimary(p) ==
  /\ At(p, "bound")
  /\ Goes(p, "primary", 0)
  /\ \/ lockfile' = p /\ UNCHANGED faults
     \/ Fault /\ UNCHANGED lockfile
  /\ UNCHANGED <<asked, running, frozen, reused, pipe, shot>>

RequestFocus(p) ==
  /\ At(p, "focus")
  /\ asked' = [asked EXCEPT ![p] = pipe]
  /\ Goes(p, "asking", tries[p])
  /\ UNCHANGED <<running, frozen, reused, pipe, lockfile, shot, faults>>

\* The holder acknowledges from its event loop, even before it is primary.
Acknowledged(p) ==
  /\ At(p, "asking")
  /\ \E h \in Procs : asked[p] = h /\ pipe = h /\ Acts(h) /\ ~frozen[h]
  /\ Goes(p, "secondary", 0)
  /\ UNCHANGED <<asked, running, frozen, reused, pipe, lockfile, shot, faults>>

\* No answer: nobody there, gone meanwhile, frozen, or busy in a synchronous call.
\* Someone busy ends up answering one of the requests.
Mute(p) ==
  \/ asked[p] = None \/ asked[p] # pipe
  \/ \E h \in Procs : asked[p] = h /\ (~Acts(h) \/ frozen[h])
  \/ tries[p] > 1

\* Bug: the requests are not counted, and nothing is ever concluded.
WaitForEver(p) ==
  /\ At(p, "asking")
  /\ Mute(p)
  /\ Goes(p, "focus", tries[p])
  /\ asked' = [asked EXCEPT ![p] = None]
  /\ UNCHANGED <<running, frozen, reused, pipe, lockfile, shot, faults>>

Unheard(p) ==
  /\ At(p, "asking")
  /\ Mute(p)
  /\ IF tries[p] > 1 THEN Goes(p, "focus", tries[p] - 1) ELSE Goes(p, "judge", 0)
  /\ asked' = [asked EXCEPT ![p] = None]
  /\ UNCHANGED <<running, frozen, reused, pipe, lockfile, shot, faults>>

\* Bug: whatever runs under the pid of the lockfile is taken for the primary.
NamedOnly(t) == t # None /\ (running[t] \/ reused[t])

\* Who the lockfile proves to be a running Sophia; the image of a reused pid differs.
Identified(t) == t # None /\ running[t] /\ ~reused[t]

Victim(t) == CASE reused[t] -> "stranger"
               [] ~reused[t] /\ frozen[t] -> "frozen"
               [] ~reused[t] /\ ~frozen[t] /\ Acts(t) -> "healthy"
               [] OTHER -> "other"

\* recoverFrozenPrimary, in one breath: the lockfile, the pid, its image, the kill.
Judge(p) ==
  /\ At(p, "judge")
  /\ IF lockfile # p /\ Identified(lockfile)
     THEN /\ shot' = shot \union {Victim(lockfile)}
          /\ Goes(p, "reclaim", ReclaimTries)
          /\ \/ running' = [running EXCEPT ![lockfile] = FALSE] /\ UNCHANGED faults
             \/ Fault /\ UNCHANGED running
     ELSE /\ Goes(p, "blocked", 0)
          /\ UNCHANGED <<running, shot, faults>>
  /\ UNCHANGED <<asked, frozen, reused, pipe, lockfile>>
-----------------------------------------------------------------------------
\* release(): the pipe is closed, which takes effect a little later, and the lockfile
\* removed, whomever it names by then.
Quit(p) ==
  /\ At(p, "primary")
  /\ Goes(p, "closing", 0)
  /\ UNCHANGED <<asked, running, frozen, reused, pipe, lockfile, shot, faults>>

RemoveLockfile(p) ==
  /\ At(p, "closing")
  /\ lockfile' = None
  /\ Goes(p, "left", 0)
  /\ UNCHANGED <<asked, running, frozen, reused, pipe, shot, faults>>

\* The operating system takes the pipe back from a process that closed it or died.
PipeFreed(h) ==
  /\ pipe = h /\ (~running[h] \/ pc[h] \in {"closing", "left"})
  /\ pipe' = None
  /\ UNCHANGED <<procs, running, frozen, reused, lockfile, shot, faults>>

Exit(p) ==
  /\ At(p, "left") \/ At(p, "secondary") \/ At(p, "blocked")
  /\ running' = [running EXCEPT ![p] = FALSE]
  /\ UNCHANGED <<procs, frozen, reused, pipe, lockfile, shot, faults>>

Crash(p) ==
  /\ running[p] /\ Fault
  /\ running' = [running EXCEPT ![p] = FALSE]
  /\ UNCHANGED <<procs, frozen, reused, pipe, lockfile, shot>>

Freeze(p) ==
  /\ Acts(p) /\ ~frozen[p] /\ Fault
  /\ frozen' = [frozen EXCEPT ![p] = TRUE]
  /\ UNCHANGED <<procs, running, reused, pipe, lockfile, shot>>

Reuse(p) ==
  /\ pc[p] # "none" /\ ~running[p] /\ ~reused[p]
  /\ reused' = [reused EXCEPT ![p] = TRUE]
  /\ UNCHANGED <<procs, running, frozen, pipe, lockfile, shot, faults>>
-----------------------------------------------------------------------------
Acquire(p) ==
  \/ Bind(p) \/ InUse(p) \/ BecomePrimary(p)
  \/ RequestFocus(p) \/ Acknowledged(p) \/ Unheard(p) \/ Judge(p)

LockNext ==
  \E p \in Procs :
    \/ Launch(p) \/ Acquire(p) \/ Quit(p) \/ RemoveLockfile(p) \/ PipeFreed(p)
    \/ Exit(p) \/ Crash(p) \/ Freeze(p) \/ Reuse(p)

LockSpec == LockInit /\ [][LockNext]_lockVars

\* A launch goes on; nobody is obliged to quit, to exit or to fail.
LockFairSpec == LockSpec /\ \A p \in Procs : WF_lockVars(Acquire(p))
-----------------------------------------------------------------------------
\* The detailed protocol keeps the promise of HomeLock: whatever is killed, closed or
\* reclaimed, a process acts as Sophia only after the one before has stopped to.
Home     == INSTANCE HomeLock WITH owner <- {p \in Procs : Acts(p)}
OneOwner == Home!Spec

\* The recovery never kills a program that is not Sophia (recoverFrozenPrimary, fail-safe:
\* "plutôt une gêne qu'un innocent tué").
StrangersLive == "stranger" \notin shot

\* A launch always comes to its outcome: primary, secondary or refused.
AcquireEnds ==
  \A p \in Procs :
    pc[p] = "listen" ~> \/ pc[p] \in {"primary", "secondary", "blocked", "closing", "left"}
                        \/ ~running[p] \/ frozen[p]
=============================================================================
