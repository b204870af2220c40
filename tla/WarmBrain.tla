------------------------------ MODULE WarmBrain ------------------------------
(***************************************************************************)
(* The warm brain of the dialogue (resources/warm/index.ts): one claude    *)
(* process kept warm for all the questions, and for the question it leaves *)
(* without a word, dead or mute, a cold one of its own. Questions are      *)
(* served one at a time. A process writes lines into a pipe: what a killed *)
(* or dead one had written may still be read, for any time. The microtasks *)
(* (the next question of the chain, the cold start after the warm one) run *)
(* before any other event. Texts, flags of the command line, the throttle  *)
(* and the audit are left out; so are the delays: a timer fires as soon as *)
(* it is armed.                                                            *)
(***************************************************************************)
EXTENDS Naturals

CONSTANT MaxAsks   \* bound on the questions, prewarmings included

ASSUME MaxAsksAssumption == MaxAsks \in Nat

None == 0          \* no process

VARIABLES
  asked,      \* the chain: questions asked,
  at,         \* the one in service or last answered,
  phase,      \* and where it stands
  cut,        \* the questions whose signal is aborted
  proc,       \* the warm process
  cold,       \* the cold process of the question in service
  words,      \* accum is not empty
  tainted, stopped,
  claude,     \* the processes whose pipe is open, by number of spawn
  spawned,    \* how many were spawned
  voices,     \* who wrote what was heard of the answer (history)
  outcome,    \* of the last answer (history)
  late        \* the questions of which words were heard after their answer (history)

chain == <<asked, cut, stopped>>
said  == <<words, voices, late>>
vars  == <<chain, at, phase, proc, cold, said, tainted, claude, spawned, outcome>>

Processes ==
  [kind : {"warm", "cold"}, of : Nat,
   stage : {"idle", "asked", "inited", "spoke", "done"}, runs : BOOLEAN]

TypeOK ==
  /\ asked \in Nat /\ at \in Nat /\ spawned \in Nat
  /\ phase \in {"free", "warm", "fallback", "cold"}
  /\ cut \subseteq Nat /\ voices \subseteq Nat \X Nat
  /\ proc \in {None} \union DOMAIN claude /\ cold \in {None} \union DOMAIN claude
  /\ words \in BOOLEAN /\ tainted \in BOOLEAN /\ stopped \in BOOLEAN
  /\ DOMAIN claude \subseteq 1..spawned /\ claude \in [DOMAIN claude -> Processes]
  /\ outcome \in {"whole", "broken", "secours", "cut"} /\ late \subseteq Nat

Init ==
  /\ asked = 0 /\ at = 0 /\ phase = "free" /\ cut = {}
  /\ proc = None /\ cold = None /\ words = FALSE
  /\ tainted = FALSE /\ stopped = FALSE
  /\ claude = <<>> /\ spawned = 0 /\ voices = {} /\ outcome = "cut" /\ late = {}
-----------------------------------------------------------------------------
(* The processes. *)
Warm == [kind |-> "warm", of |-> 0, stage |-> "idle", runs |-> TRUE]
ColdFor(q) == [kind |-> "cold", of |-> q, stage |-> "asked", runs |-> TRUE]

With(c, p, r) == [x \in DOMAIN c \union {p} |-> IF x = p THEN r ELSE c[x]]
Killed(c, p) == [x \in DOMAIN c |-> IF x = p THEN [c[x] EXCEPT !.runs = FALSE] ELSE c[x]]

\* A process that has died unseen is given the question and reads nothing.
Given(r, q) == [r EXCEPT !.of = q, !.stage = IF r.runs THEN "asked" ELSE @]
Reaches(p, s) == claude' = [claude EXCEPT ![p].stage = s]

KillProc == proc' = None /\ claude' = Killed(claude, proc)

Spawn(c, r) == spawned' = spawned + 1 /\ claude' = With(c, spawned + 1, r)
NoSpawn(c)  == claude' = c /\ UNCHANGED spawned

\* The warm process is lit if there is none, unless it fails.
EnsureSpawned(c) ==
  \/ proc = None /\ ~stopped /\ ~tainted /\ Spawn(c, Warm) /\ proc' = spawned'
  \/ NoSpawn(c) /\ UNCHANGED proc
-----------------------------------------------------------------------------
(* The service of a question. *)
Runnable == phase = "fallback" \/ (phase = "free" /\ at < asked)
Quiet == ~Runnable

Ask ==
  /\ asked < MaxAsks /\ asked' = asked + 1
  /\ UNCHANGED <<at, phase, cut, stopped, proc, cold, said, tainted, claude, spawned, outcome>>

Settle(o) == phase' = "free" /\ outcome' = o
Fallback  == phase' = "fallback" /\ UNCHANGED outcome

NextInChain ==
  /\ phase = "free" /\ at < asked /\ at' = at + 1
  /\ words' = FALSE /\ voices' = {}
  /\ UNCHANGED <<chain, cold, tainted, late>>

Refuse ==
  /\ NextInChain
  /\ stopped \/ at' \in cut
  /\ Settle("cut") /\ UNCHANGED <<proc, claude, spawned>>

AskWarm ==
  /\ NextInChain
  /\ ~stopped /\ at' \notin cut /\ ~tainted
  /\ \/ /\ proc # None /\ phase' = "warm"
        /\ NoSpawn([claude EXCEPT ![proc] = Given(@, at')]) /\ UNCHANGED <<proc, outcome>>
     \/ /\ proc = None /\ phase' = "warm"
        /\ Spawn(claude, Given(Warm, at')) /\ proc' = spawned' /\ UNCHANGED outcome
     \/ EnsureSpawned(claude) /\ Fallback     \* not spawned, or its stdin is closed

\* The warm one is ruled out for good: cold at once.
Banned ==
  /\ NextInChain
  /\ ~stopped /\ at' \notin cut /\ tainted
  /\ Fallback /\ UNCHANGED <<proc, claude, spawned>>

AskCold ==
  /\ phase = "fallback"
  /\ \/ Spawn(claude, ColdFor(at)) /\ cold' = spawned' /\ phase' = "cold" /\ UNCHANGED outcome
     \/ Settle("secours") /\ UNCHANGED <<cold, claude, spawned>>
  /\ UNCHANGED <<chain, at, proc, said, tainted>>
-----------------------------------------------------------------------------
(* What a process writes for a question: its init, words, its result.      *)
Hear(p) == words' = TRUE /\ voices' = voices \union {<<p, claude[p].of>>} /\ UNCHANGED late

\* The end of an answer: what was heard, or the text of the result.
Ends(p, err, text, o) ==
  \/ words /\ o = (IF err THEN "broken" ELSE "whole") /\ UNCHANGED said
  \/ ~words /\ ~err /\ text /\ o = "whole" /\ Hear(p)
  \/ ~words /\ (err \/ ~text) /\ o = "secours" /\ UNCHANGED said

SettleWarm(o) == IF o = "secours" THEN Fallback ELSE Settle(o)

WarmInit(p) ==
  /\ p = proc /\ claude[p].stage = "asked"
  /\ \/ Reaches(p, "inited") /\ UNCHANGED <<proc, phase, outcome, tainted>>
     \/ /\ tainted' = TRUE /\ KillProc    \* not the subscription: ruled out
        /\ Fallback
  /\ UNCHANGED <<chain, at, cold, said, spawned>>

\* Mutant: the stdout of a replaced process is read (no check this.proc === child).
WarmWordOfAny(p) ==
  /\ phase = "warm" /\ claude[p].kind = "warm" /\ claude[p].stage \in {"inited", "spoke"}
  /\ Reaches(p, "spoke") /\ Hear(p)
  /\ UNCHANGED <<chain, at, phase, proc, cold, tainted, spawned, outcome>>

WarmWord(p) ==
  /\ p = proc /\ claude[p].stage \in {"inited", "spoke"}
  /\ Reaches(p, "spoke") /\ Hear(p)
  /\ UNCHANGED <<chain, at, phase, proc, cold, tainted, spawned, outcome>>

WarmResult(p) ==
  /\ p = proc /\ claude[p].stage \in {"inited", "spoke"}
  /\ Reaches(p, "idle")
  /\ \E err, text \in BOOLEAN, o \in {"whole", "broken", "secours"} :
       Ends(p, err, text, o) /\ SettleWarm(o)
  /\ UNCHANGED <<chain, at, proc, cold, tainted, spawned>>

\* The turn ends with what was heard, if anything.
GiveUpWarm == IF words THEN Settle("whole") ELSE Fallback

WarmExit(p) ==
  /\ p = proc /\ ~claude[p].runs /\ proc' = None
  /\ IF phase = "warm" THEN GiveUpWarm ELSE UNCHANGED <<phase, outcome>>
  /\ UNCHANGED <<chain, at, cold, said, tainted, claude, spawned>>

\* Mutant: no cap is armed at the first word.
WarmTimerOfWords ==
  /\ phase = "warm" /\ ~words
  /\ KillProc /\ GiveUpWarm
  /\ UNCHANGED <<chain, at, cold, said, tainted, spawned>>

\* The two timers: no first word, and the cap of a turn.
WarmTimer ==
  /\ phase = "warm"
  /\ KillProc /\ GiveUpWarm
  /\ UNCHANGED <<chain, at, cold, said, tainted, spawned>>

\* The end of a cold answer; the warm process is lit again for the next one.
Done(c, o) ==
  /\ cold' = None /\ Settle(o) /\ EnsureSpawned(c)

ColdInit(p) ==
  /\ claude[p].kind = "cold" /\ claude[p].stage = "asked"
  /\ \/ Reaches(p, "inited") /\ UNCHANGED <<proc, cold, phase, spawned, outcome, tainted>>
     \/ /\ tainted' = TRUE /\ NoSpawn(Killed(claude, p)) /\ UNCHANGED proc
        /\ IF p = cold THEN cold' = None /\ Settle("secours") ELSE UNCHANGED <<cold, phase, outcome>>
  /\ UNCHANGED <<chain, at, said>>

\* Nothing stops the words of a process whose answer was already given.
ColdWord(p) ==
  /\ claude[p].kind = "cold" /\ claude[p].stage \in {"inited", "spoke"}
  /\ Reaches(p, "spoke")
  /\ \/ p = cold /\ Hear(p)
     \/ p # cold /\ late' = late \union {claude[p].of} /\ UNCHANGED <<words, voices>>
  /\ UNCHANGED <<chain, at, phase, proc, cold, tainted, spawned, outcome>>

ColdResult(p) ==
  /\ p = cold /\ claude[p].stage \in {"inited", "spoke"}
  /\ \E err, text \in BOOLEAN, o \in {"whole", "broken", "secours"} :
       Ends(p, err, text, o) /\ Done([claude EXCEPT ![p].stage = "done"], o)
  /\ UNCHANGED <<chain, at, tainted>>

GiveUpCold(c) == Done(c, IF words THEN "whole" ELSE "secours")

ColdExit(p) ==
  /\ p = cold /\ ~claude[p].runs
  /\ GiveUpCold(claude)
  /\ UNCHANGED <<chain, at, said, tainted>>

ColdTimer ==
  /\ phase = "cold"
  /\ GiveUpCold(Killed(claude, cold))
  /\ UNCHANGED <<chain, at, said, tainted>>
-----------------------------------------------------------------------------
(* The signal of a question, and the end.                                  *)
Abort(q) ==
  /\ q \notin cut /\ (q > at \/ (q = at /\ phase \in {"warm", "cold"}))
  /\ cut' = cut \union {q}
  /\ \/ q > at /\ UNCHANGED <<phase, proc, cold, claude, spawned, outcome>>
     \/ q = at /\ phase = "warm" /\ KillProc /\ Settle("cut") /\ UNCHANGED <<cold, spawned>>
     \/ q = at /\ phase = "cold" /\ Done(Killed(claude, cold), "cut")
  /\ UNCHANGED <<asked, stopped, at, said, tainted>>

Close ==
  /\ ~stopped /\ stopped' = TRUE
  /\ proc' = None /\ claude' = Killed(Killed(claude, proc), cold)
  /\ IF phase = "warm" THEN Settle("cut") ELSE UNCHANGED <<phase, outcome>>
  /\ UNCHANGED <<asked, cut, at, cold, said, tainted, spawned>>

(* The machine: a process dies, or the pipe of a dead one is closed.       *)
Dies(p) ==
  /\ claude[p].runs /\ claude' = Killed(claude, p)
  /\ UNCHANGED <<chain, at, phase, proc, cold, said, tainted, spawned, outcome>>

Gone(p) ==
  /\ ~claude[p].runs /\ p \notin {proc, cold}
  /\ claude' = [x \in DOMAIN claude \ {p} |-> claude[x]]
  /\ UNCHANGED <<chain, at, phase, proc, cold, said, tainted, spawned, outcome>>
-----------------------------------------------------------------------------
Line(p) == WarmInit(p) \/ WarmWord(p) \/ WarmResult(p) \/ ColdInit(p) \/ ColdWord(p) \/ ColdResult(p)
Microtask == Refuse \/ AskWarm \/ Banned \/ AskCold

Next ==
  \/ Microtask
  \/ /\ Quiet
     /\ \/ Ask \/ WarmTimer \/ ColdTimer \/ Close
        \/ \E q \in 1..asked : Abort(q)
        \/ \E p \in DOMAIN claude : Line(p) \/ WarmExit(p) \/ ColdExit(p) \/ Dies(p) \/ Gone(p)

Spec == Init /\ [][Next]_vars

(* The loop turns and the timers fire; no process need ever write a line.  *)
Progress == Microtask \/ (Quiet /\ (WarmTimer \/ ColdTimer))

FairSpec == Spec /\ WF_vars(Progress)
-----------------------------------------------------------------------------
(* The brain keeps its promise (module Desk), whatever dies, hangs, writes *)
(* late, is aborted or closed: one question at a time, one writer an       *)
(* answer, no apology after words, nobody left writing once closed.        *)
Writing == {p \in DOMAIN claude : claude[p].runs /\ claude[p].stage # "done"}
Promise == INSTANCE Desk WITH
  open <- phase # "free", voice <- voices, staff <- Writing, closed <- stopped
OneDesk == Promise!Spec

(* Every question is answered: a mute, dead or frozen claude holds no      *)
(* conversation for ever (firstDeltaMs, hardCapMs, coldTimeoutMs).         *)
Answered(q) == q < at \/ (q = at /\ phase = "free")
EveryAskEnds == \A q \in 1..MaxAsks : asked >= q ~> Answered(q)
=============================================================================
