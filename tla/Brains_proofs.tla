----------------------------- MODULE Brains_proofs -----------------------------
(***************************************************************************)
(* What TLAPS proves of the two ways the orchestrator speaks to the        *)
(* command-line client: the warm brain of the voice (WarmBrain), for any   *)
(* number of questions, and the Claude channel of the conversation         *)
(* (ClaudeChannel), for any number of ids and rotations.                   *)
(***************************************************************************)
EXTENDS WarmBrain, ClaudeChannel, TLAPS


(* The question in service has one writer: the warm process or a cold one, *)
(* whose question it is.                                                   *)
Writer ==
  /\ phase # "free" => at \in Nat \ {0}
  /\ phase = "warm" => proc # None
  /\ proc # None => claude[proc].kind = "warm"
  /\ (proc # None /\ claude[proc].stage \in {"asked", "inited", "spoke"}) =>
       phase = "warm" /\ claude[proc].of = at
  /\ phase = "cold" <=> cold # None
  /\ cold # None => claude[cold].kind = "cold" /\ claude[cold].of = at

(* What is heard of its answer was written by that writer; until it        *)
(* speaks the answer is unsaid.                                            *)
Voice ==
  /\ words <=> voices # {}
  /\ phase = "fallback" => voices = {}
  /\ phase = "warm" => \A s \in voices : s = <<proc, at>>
  /\ phase = "cold" => \A s \in voices : s = <<cold, at>>
  /\ (cold # None /\ claude[cold].stage \in {"asked", "inited"}) => ~words
  /\ (proc # None /\ claude[proc].stage \in {"asked", "inited"}) => ~words

(* A cold process left behind belongs to an answer already given.          *)
Behind ==
  \A p \in DOMAIN claude : claude[p].kind = "cold" =>
    /\ claude[p].of \in 1..at
    /\ (p # cold /\ claude[p].of = at) => phase = "free"

(* Whoever may still write is the warm process or the cold one; once the   *)
(* brain is stopped, nobody may.                                           *)
Alive ==
  /\ \A p \in DOMAIN claude :
       claude[p].runs /\ claude[p].stage # "done" => p \in {proc, cold} /\ ~stopped
  /\ stopped => phase \in {"free", "cold"}

IInv == TypeOK /\ Writer /\ Voice /\ Behind /\ Alive
-----------------------------------------------------------------------------
(* What is done to the processes: d is c with a process killed, lit, moved *)
(* to another stage, or given a question.                                  *)
Population(c, n) == DOMAIN c \subseteq 1..n /\ c \in [DOMAIN c -> Processes]

KilledAs(c, d, p) ==
  /\ DOMAIN d = DOMAIN c
  /\ \A x \in DOMAIN c :
       /\ d[x].kind = c[x].kind /\ d[x].of = c[x].of /\ d[x].stage = c[x].stage
       /\ d[x].runs <=> (x # p /\ c[x].runs)

LitAs(c, d, n, r) ==
  /\ DOMAIN d = DOMAIN c \union {n} /\ n \notin DOMAIN c
  /\ d[n] = r /\ \A x \in DOMAIN c : d[x] = c[x]

MovedAs(c, d, p, s) ==
  /\ DOMAIN d = DOMAIN c /\ p \in DOMAIN c
  /\ d[p].stage = s
  /\ \A x \in DOMAIN c :
       /\ d[x].kind = c[x].kind /\ d[x].of = c[x].of /\ (d[x].runs <=> c[x].runs)
       /\ x # p => d[x].stage = c[x].stage

GivenAs(c, d, p, q) ==
  /\ DOMAIN d = DOMAIN c /\ p \in DOMAIN c
  /\ \A x \in DOMAIN c \ {p} : d[x] = c[x]
  /\ d[p].kind = c[p].kind /\ d[p].of = q /\ (d[p].runs <=> c[p].runs)
  /\ d[p].stage \in {"asked", c[p].stage} /\ (c[p].runs => d[p].stage = "asked")

\* Killing takes only the running away.
LEMMA KilledFacts ==
  ASSUME NEW n \in Nat, NEW c, Population(c, n), NEW p, NEW d, d = Killed(c, p)
  PROVE  Population(d, n) /\ KilledAs(c, d, p)
<1>1. \A x \in DOMAIN c : c[x] \in Processes
  BY DEF Population
<1>2. \A x \in DOMAIN c : [c[x] EXCEPT !.runs = FALSE] \in Processes
  BY <1>1 DEF Processes
<1>3. DOMAIN d = DOMAIN c /\ \A x \in DOMAIN c : d[x] \in Processes
  BY <1>1, <1>2 DEF Killed
<1>4. d = [x \in DOMAIN c |-> d[x]]
  BY DEF Killed
<1>5. Population(d, n)
  BY <1>3, <1>4 DEF Population
<1>6. \A x \in DOMAIN c : d[x].kind = c[x].kind /\ d[x].of = c[x].of /\ d[x].stage = c[x].stage
  BY <1>1 DEF Killed, Processes
<1>7. \A x \in DOMAIN c : d[x].runs <=> (x # p /\ c[x].runs)
  BY <1>1 DEF Killed, Processes
<1> QED  BY <1>3, <1>5, <1>6, <1>7 DEF KilledAs

\* A new process leaves the others as they were.
LEMMA WithFacts ==
  ASSUME NEW n \in Nat, NEW c, Population(c, n), NEW r \in Processes, NEW d, d = With(c, n + 1, r)
  PROVE  Population(d, n + 1) /\ LitAs(c, d, n + 1, r)
<1>1. n + 1 \notin DOMAIN c /\ DOMAIN c \union {n + 1} \subseteq 1..(n + 1)
  BY DEF Population
<1>2. \A x \in DOMAIN c \union {n + 1} : d[x] = IF x = n + 1 THEN r ELSE c[x]
  BY DEF With
<1>3. DOMAIN d = DOMAIN c \union {n + 1}
  BY DEF With
<1>4. \A x \in DOMAIN d : d[x] \in Processes
  BY <1>2, <1>3 DEF Population
<1>5. d = [x \in DOMAIN d |-> d[x]]
  BY <1>3 DEF With
<1>6. Population(d, n + 1)
  BY <1>1, <1>3, <1>4, <1>5 DEF Population
<1> QED  BY <1>1, <1>2, <1>3, <1>6 DEF LitAs

\* A line takes its process to another stage, and nothing else moves.
LEMMA ReachesFacts ==
  ASSUME NEW n \in Nat, NEW c, Population(c, n), NEW p \in DOMAIN c,
         NEW s \in {"idle", "asked", "inited", "spoke", "done"},
         NEW d, d = [c EXCEPT ![p].stage = s]
  PROVE  Population(d, n) /\ MovedAs(c, d, p, s)
  BY DEF Population, Processes, MovedAs

\* The question is given to the warm process.
LEMMA GivenFacts ==
  ASSUME NEW n \in Nat, NEW c, Population(c, n), NEW p \in DOMAIN c, NEW q \in Nat,
         NEW d, d = [c EXCEPT ![p] = Given(@, q)]
  PROVE  Population(d, n) /\ GivenAs(c, d, p, q)
<1>1. Given(c[p], q) \in Processes
  BY DEF Given, Population, Processes
<1>2. /\ Given(c[p], q).kind = c[p].kind /\ Given(c[p], q).of = q
      /\ Given(c[p], q).runs = c[p].runs
      /\ Given(c[p], q).stage = IF c[p].runs THEN "asked" ELSE c[p].stage
  BY DEF Given, Population, Processes
<1> QED  BY <1>1, <1>2 DEF Population, GivenAs

LEMMA NewProcesses ==
  ASSUME NEW q \in Nat
  PROVE  /\ Warm \in Processes /\ ColdFor(q) \in Processes /\ Given(Warm, q) \in Processes
         /\ Warm.kind = "warm" /\ Warm.stage = "idle"
         /\ Given(Warm, q).kind = "warm" /\ Given(Warm, q).of = q /\ Given(Warm, q).stage = "asked"
         /\ ColdFor(q).kind = "cold" /\ ColdFor(q).of = q /\ ColdFor(q).stage = "asked"
  BY DEF Warm, ColdFor, Given, Processes

\* The end of a cold answer: the desk is free, and a warm process may be lit.
LEMMA DoneFacts ==
  ASSUME NEW c, NEW o, spawned \in Nat, Population(c, spawned), Done(c, o)
  PROVE  /\ cold' = None /\ phase' = "free" /\ outcome' = o
         /\ spawned' \in Nat /\ Population(claude', spawned')
         /\ \/ claude' = c /\ proc' = proc
            \/ proc = None /\ ~stopped /\ proc' = spawned' /\ LitAs(c, claude', spawned', Warm)
<1>1. cold' = None /\ phase' = "free" /\ outcome' = o
  BY DEF Done, Settle
<1>2. CASE proc = None /\ ~stopped /\ Spawn(c, Warm) /\ proc' = spawned'
  <2>1. spawned' = spawned + 1 /\ claude' = With(c, spawned + 1, Warm)
    BY <1>2 DEF Spawn
  <2>2. Warm \in Processes
    BY NewProcesses, 0 \in Nat
  <2>3. Population(claude', spawned + 1) /\ LitAs(c, claude', spawned + 1, Warm)
    BY <2>1, <2>2, WithFacts
  <2> QED  BY <1>1, <1>2, <2>1, <2>3
<1>3. CASE NoSpawn(c) /\ UNCHANGED proc
  BY <1>1, <1>3 DEF NoSpawn
<1> QED  BY <1>2, <1>3 DEF Done, EnsureSpawned

-----------------------------------------------------------------------------
(* TypeOK in three parts.                                                  *)
Flags   == words \in BOOLEAN /\ tainted \in BOOLEAN /\ stopped \in BOOLEAN
Scalars ==
  /\ asked \in Nat /\ at \in Nat /\ spawned \in Nat
  /\ phase \in {"free", "warm", "fallback", "cold"}
  /\ cut \subseteq Nat /\ voices \subseteq Nat \X Nat
  /\ outcome \in {"whole", "broken", "secours", "cut"} /\ late \subseteq Nat
Members == proc \in {None} \union DOMAIN claude /\ cold \in {None} \union DOMAIN claude

LEMMA Parts == TypeOK <=> Flags /\ Scalars /\ Members /\ Population(claude, spawned)
  BY DEF TypeOK, Flags, Scalars, Members, Population

-----------------------------------------------------------------------------
(* Each action keeps the invariant. *)
LEMMA AskKeeps ==
  ASSUME IInv, Ask
  PROVE  IInv'
<1>1. /\ Flags /\ Scalars /\ Members /\ Population(claude, spawned)
      /\ Writer /\ Voice /\ Behind /\ Alive
  BY Parts DEF IInv
<1>2. spawned \in Nat /\ at \in Nat
  BY <1>1 DEF Scalars
<1>3. Population(claude', spawned')
  BY <1>1 DEF Ask, chain
<1>4. Flags'
  BY <1>1, ZenonT(30) DEF Flags, chain, said, Ask
<1>5. Scalars'
  BY <1>1, <1>2, SMTT(30) DEF Scalars, chain, said, Ask
<1>6. Members'
  BY <1>1, <1>2, SMTT(30) DEF Members, Writer, Voice, Behind, Alive, None, chain, said, Ask
<1>7. Writer'
  BY <1>1, <1>2, SMTT(30) DEF Scalars, Members, Writer, Voice, Behind, Alive, None, chain, said, Ask
<1>8. Voice'
  BY <1>1, <1>2, SMTT(30) DEF Scalars, Members, Writer, Voice, Behind, Alive, None, chain, said, Ask
<1>9. Behind'
  BY <1>1, <1>2, SMTT(30) DEF Scalars, Members, Writer, Voice, Behind, Alive, None, chain, said, Ask
<1>10. Alive'
  BY <1>1, <1>2, SMTT(30) DEF Scalars, Members, Writer, Voice, Behind, Alive, None, chain, said, Ask
<1> QED  BY <1>3, <1>4, <1>5, <1>6, <1>7, <1>8, <1>9, <1>10 DEF IInv, TypeOK, Flags, Scalars,
    Members, Population

LEMMA RefuseKeeps ==
  ASSUME IInv, Refuse
  PROVE  IInv'
<1>1. /\ Flags /\ Scalars /\ Members /\ Population(claude, spawned)
      /\ Writer /\ Voice /\ Behind /\ Alive
  BY Parts DEF IInv
<1>2. spawned \in Nat /\ at \in Nat
  BY <1>1 DEF Scalars
<1>3. Population(claude', spawned')
  BY <1>1 DEF Refuse, NoSpawn
<1>4. Flags'
  BY <1>1, ZenonT(30) DEF Flags, chain, said, Refuse, NextInChain, Settle
<1>5. Scalars'
  BY <1>1, <1>2, SMTT(30) DEF Scalars, chain, said, Refuse, NextInChain, Settle
<1>6. Members'
  BY <1>1, <1>2, SMTT(30) DEF Members, Writer, Voice, Behind, Alive, None, chain, said, Refuse,
      NextInChain, Settle
<1>7. Writer'
  BY <1>1, <1>2, SMTT(30) DEF Scalars, Members, Writer, Voice, Behind, Alive, None, chain, said,
      Refuse, NextInChain, Settle
<1>8. Voice'
  BY <1>1, <1>2, SMTT(30) DEF Scalars, Members, Writer, Voice, Behind, Alive, None, chain, said,
      Refuse, NextInChain, Settle
<1>9. Behind'
  BY <1>1, <1>2, SMTT(30) DEF Scalars, Members, Writer, Voice, Behind, Alive, None, chain, said,
      Refuse, NextInChain, Settle
<1>10. Alive'
  BY <1>1, <1>2, SMTT(30) DEF Scalars, Members, Writer, Voice, Behind, Alive, None, chain, said,
      Refuse, NextInChain, Settle
<1> QED  BY <1>3, <1>4, <1>5, <1>6, <1>7, <1>8, <1>9, <1>10 DEF IInv, TypeOK, Flags, Scalars,
    Members, Population

LEMMA BannedKeeps ==
  ASSUME IInv, Banned
  PROVE  IInv'
<1>1. /\ Flags /\ Scalars /\ Members /\ Population(claude, spawned)
      /\ Writer /\ Voice /\ Behind /\ Alive
  BY Parts DEF IInv
<1>2. spawned \in Nat /\ at \in Nat
  BY <1>1 DEF Scalars
<1>3. Population(claude', spawned')
  BY <1>1 DEF Banned, NoSpawn
<1>4. Flags'
  BY <1>1, ZenonT(30) DEF Flags, chain, said, Banned, NextInChain, Fallback, NoSpawn
<1>5. Scalars'
  BY <1>1, <1>2, SMTT(30) DEF Scalars, chain, said, Banned, NextInChain, Fallback, NoSpawn
<1>6. Members'
  BY <1>1, <1>2, SMTT(30) DEF Members, Writer, Voice, Behind, Alive, None, chain, said, Banned,
      NextInChain, Fallback, NoSpawn
<1>7. Writer'
  BY <1>1, <1>2, SMTT(30) DEF Scalars, Members, Writer, Voice, Behind, Alive, None, chain, said,
      Banned, NextInChain, Fallback, NoSpawn
<1>8. Voice'
  BY <1>1, <1>2, SMTT(30) DEF Scalars, Members, Writer, Voice, Behind, Alive, None, chain, said,
      Banned, NextInChain, Fallback, NoSpawn
<1>9. Behind'
  BY <1>1, <1>2, SMTT(30) DEF Scalars, Members, Writer, Voice, Behind, Alive, None, chain, said,
      Banned, NextInChain, Fallback, NoSpawn
<1>10. Alive'
  BY <1>1, <1>2, SMTT(30) DEF Scalars, Members, Writer, Voice, Behind, Alive, None, chain, said,
      Banned, NextInChain, Fallback, NoSpawn
<1> QED  BY <1>3, <1>4, <1>5, <1>6, <1>7, <1>8, <1>9, <1>10 DEF IInv, TypeOK, Flags, Scalars,
    Members, Population

LEMMA DiesKeeps ==
  ASSUME IInv, NEW p \in DOMAIN claude, Dies(p)
  PROVE  IInv'
<1>1. /\ Flags /\ Scalars /\ Members /\ Population(claude, spawned)
      /\ Writer /\ Voice /\ Behind /\ Alive
  BY Parts DEF IInv
<1>2. spawned \in Nat /\ at \in Nat
  BY <1>1 DEF Scalars
<1>3. Population(claude', spawned) /\ KilledAs(claude, claude', p)
  BY <1>1, <1>2, KilledFacts DEF Dies
<1>4. Population(claude', spawned')
  BY <1>3 DEF Dies
<1>5. Flags'
  BY <1>1, ZenonT(30) DEF Flags, chain, said, Dies
<1>6. Scalars'
  BY <1>1, <1>2, <1>3, SMTT(30) DEF Scalars, chain, said, Dies, KilledAs
<1>7. Members'
  BY <1>1, <1>2, <1>3, SMTT(30) DEF Members, Writer, Voice, Behind, Alive, None, chain, said,
      Dies, KilledAs
<1>8. Writer'
  BY <1>1, <1>2, <1>3, SMTT(30) DEF Scalars, Members, Writer, Voice, Behind, Alive, None, chain,
      said, Dies, KilledAs
<1>9. Voice'
  BY <1>1, <1>2, <1>3, SMTT(30) DEF Scalars, Members, Writer, Voice, Behind, Alive, None, chain,
      said, Dies, KilledAs
<1>10. Behind'
  BY <1>1, <1>2, <1>3, SMTT(30) DEF Scalars, Members, Writer, Voice, Behind, Alive, None, chain,
      said, Dies, KilledAs
<1>11. Alive'
  BY <1>1, <1>2, <1>3, SMTT(30) DEF Scalars, Members, Writer, Voice, Behind, Alive, None, chain,
      said, Dies, KilledAs
<1> QED  BY <1>4, <1>5, <1>6, <1>7, <1>8, <1>9, <1>10, <1>11 DEF IInv, TypeOK, Flags, Scalars,
    Members, Population

LEMMA GoneKeeps ==
  ASSUME IInv, NEW p \in DOMAIN claude, Gone(p)
  PROVE  IInv'
<1>1. /\ Flags /\ Scalars /\ Members /\ Population(claude, spawned)
      /\ Writer /\ Voice /\ Behind /\ Alive
  BY Parts DEF IInv
<1>2. spawned \in Nat /\ at \in Nat
  BY <1>1 DEF Scalars
<1>3. DOMAIN claude' = DOMAIN claude \ {p} /\ \A x \in DOMAIN claude' : claude'[x] = claude[x]
  BY DEF Gone
<1>4. Population(claude', spawned')
  BY <1>1, <1>3 DEF Gone, Population
<1>5. Flags'
  BY <1>1, ZenonT(30) DEF Flags, chain, said, Gone
<1>6. Scalars'
  BY <1>1, <1>2, <1>3, SMTT(30) DEF Scalars, chain, said, Gone
<1>7. Members'
  BY <1>1, <1>2, <1>3, SMTT(30) DEF Members, Writer, Voice, Behind, Alive, None, chain, said, Gone
<1>8. Writer'
  BY <1>1, <1>2, <1>3, SMTT(30) DEF Scalars, Members, Writer, Voice, Behind, Alive, None, chain,
      said, Gone
<1>9. Voice'
  BY <1>1, <1>2, <1>3, SMTT(30) DEF Scalars, Members, Writer, Voice, Behind, Alive, None, chain,
      said, Gone
<1>10. Behind'
  BY <1>1, <1>2, <1>3, SMTT(30) DEF Scalars, Members, Writer, Voice, Behind, Alive, None, chain,
      said, Gone
<1>11. Alive'
  BY <1>1, <1>2, <1>3, SMTT(30) DEF Scalars, Members, Writer, Voice, Behind, Alive, None, chain,
      said, Gone
<1> QED  BY <1>4, <1>5, <1>6, <1>7, <1>8, <1>9, <1>10, <1>11 DEF IInv, TypeOK, Flags, Scalars,
    Members, Population

LEMMA WarmWordKeeps ==
  ASSUME IInv, NEW p \in DOMAIN claude, WarmWord(p)
  PROVE  IInv'
<1>1. /\ Flags /\ Scalars /\ Members /\ Population(claude, spawned)
      /\ Writer /\ Voice /\ Behind /\ Alive
  BY Parts DEF IInv
<1>2. spawned \in Nat /\ at \in Nat
  BY <1>1 DEF Scalars
<1>3. Population(claude', spawned) /\ MovedAs(claude, claude', p, "spoke")
  BY <1>1, <1>2, ReachesFacts DEF WarmWord, Reaches
<1>4. p = proc /\ p # None /\ phase = "warm" /\ claude[p].of = at
  BY <1>1 DEF WarmWord, Writer, None, Population
<1>5. voices' = voices \union {<<p, at>>} /\ <<p, at>> \in Nat \X Nat /\ words' = TRUE
  BY <1>1, <1>2, <1>4 DEF WarmWord, Hear, Population
<1>6. Population(claude', spawned')
  BY <1>3 DEF WarmWord
<1>7. Flags'
  BY <1>1, ZenonT(30) DEF Flags, chain, said, WarmWord, Hear
<1>8. Scalars'
  BY <1>1, <1>2, <1>3, <1>4, <1>5, SMTT(30) DEF Scalars, chain, said, WarmWord, Hear, MovedAs
<1>9. Members'
  BY <1>1, <1>2, <1>3, <1>4, <1>5, SMTT(30) DEF Members, Writer, Voice, Behind, Alive, None,
      chain, said, WarmWord, Hear, MovedAs
<1>10. Writer'
  BY <1>1, <1>2, <1>3, <1>4, <1>5, SMTT(30) DEF Scalars, Members, Writer, Voice, Behind, Alive,
      None, chain, said, WarmWord, Hear, MovedAs
<1>11. Voice'
  BY <1>1, <1>2, <1>3, <1>4, <1>5, SMTT(30) DEF Scalars, Members, Writer, Voice, Behind, Alive,
      None, chain, said, WarmWord, Hear, MovedAs
<1>12. Behind'
  BY <1>1, <1>2, <1>3, <1>4, <1>5, SMTT(30) DEF Scalars, Members, Writer, Voice, Behind, Alive,
      None, chain, said, WarmWord, Hear, MovedAs
<1>13. Alive'
  BY <1>1, <1>2, <1>3, <1>4, <1>5, SMTT(30) DEF Scalars, Members, Writer, Voice, Behind, Alive,
      None, chain, said, WarmWord, Hear, MovedAs
<1> QED  BY <1>6, <1>7, <1>8, <1>9, <1>10, <1>11, <1>12, <1>13 DEF IInv, TypeOK, Flags, Scalars,
    Members, Population

LEMMA ColdWordKeeps ==
  ASSUME IInv, NEW p \in DOMAIN claude, ColdWord(p)
  PROVE  IInv'
<1>1. /\ Flags /\ Scalars /\ Members /\ Population(claude, spawned)
      /\ Writer /\ Voice /\ Behind /\ Alive
  BY Parts DEF IInv
<1>2. spawned \in Nat /\ at \in Nat
  BY <1>1 DEF Scalars
<1>3. Population(claude', spawned) /\ MovedAs(claude, claude', p, "spoke")
  BY <1>1, <1>2, ReachesFacts DEF ColdWord, Reaches
<1>4. claude[p].of \in Nat /\ claude[p].kind = "cold" /\ claude[p].stage \in {"inited", "spoke"}
  BY <1>1 DEF ColdWord, Population, Processes
<1>5. \/ /\ p = cold /\ p # None /\ claude[p].of = at /\ phase = "cold" /\ late' = late /\ words' = TRUE
          /\ voices' = voices \union {<<p, at>>} /\ <<p, at>> \in Nat \X Nat
       \/ /\ p # cold /\ late' = late \union {claude[p].of} /\ words' = words /\ voices' = voices
  BY <1>1, <1>2 DEF ColdWord, Hear, Population, Writer, None
<1>6. voices' \subseteq Nat \X Nat /\ late' \subseteq Nat
  BY <1>1, <1>4, <1>5 DEF Scalars
<1>7. Population(claude', spawned')
  BY <1>3 DEF ColdWord
<1>8. Flags'
  BY <1>1, ZenonT(30) DEF Flags, chain, said, ColdWord, Hear
<1>9. Scalars'
  BY <1>1, <1>2, <1>3, <1>4, <1>5, <1>6, SMTT(30) DEF Scalars, chain, said, ColdWord, Hear, MovedAs
<1>10. Members'
  BY <1>1, <1>2, <1>3, <1>4, <1>5, <1>6, SMTT(30) DEF Members, Writer, Voice, Behind, Alive,
      None, chain, said, ColdWord, Hear, MovedAs
<1>11. Writer'
  BY <1>1, <1>2, <1>3, <1>4, <1>5, <1>6, SMTT(30) DEF Scalars, Members, Writer, Voice, Behind,
      Alive, None, chain, said, ColdWord, Hear, MovedAs
<1>12. Voice'
  BY <1>1, <1>2, <1>3, <1>4, <1>5, <1>6, SMTT(30) DEF Scalars, Members, Writer, Voice, Behind,
      Alive, None, chain, said, ColdWord, Hear, MovedAs
<1>13. Behind'
  BY <1>1, <1>2, <1>3, <1>4, <1>5, <1>6, SMTT(30) DEF Scalars, Members, Writer, Voice, Behind,
      Alive, None, chain, said, ColdWord, Hear, MovedAs
<1>14. Alive'
  BY <1>1, <1>2, <1>3, <1>4, <1>5, <1>6, SMTT(30) DEF Scalars, Members, Writer, Voice, Behind,
      Alive, None, chain, said, ColdWord, Hear, MovedAs
<1> QED  BY <1>7, <1>8, <1>9, <1>10, <1>11, <1>12, <1>13, <1>14 DEF IInv, TypeOK, Flags, Scalars,
    Members, Population

LEMMA WarmResultKeeps ==
  ASSUME IInv, NEW p \in DOMAIN claude, WarmResult(p)
  PROVE  IInv'
<1>1. /\ Flags /\ Scalars /\ Members /\ Population(claude, spawned)
      /\ Writer /\ Voice /\ Behind /\ Alive
  BY Parts DEF IInv
<1>2. spawned \in Nat /\ at \in Nat
  BY <1>1 DEF Scalars
<1>3. Population(claude', spawned) /\ MovedAs(claude, claude', p, "idle")
  BY <1>1, <1>2, ReachesFacts DEF WarmResult, Reaches
<1>4. p = proc /\ p # None /\ phase = "warm" /\ claude[p].of = at /\ claude[p].kind = "warm"
  BY <1>1 DEF WarmResult, Writer, None, Population
<1>5. /\ UNCHANGED <<at, asked, cut, stopped, proc, cold, tainted, spawned, late>>
       /\ \/ /\ words /\ words' = words /\ voices' = voices
             /\ phase' = "free" /\ outcome' \in {"whole", "broken"}
          \/ /\ ~words /\ words' = TRUE /\ phase' = "free" /\ outcome' = "whole"
             /\ voices' = voices \union {<<p, at>>} /\ <<p, at>> \in Nat \X Nat
          \/ /\ ~words /\ words' = words /\ voices' = voices
             /\ phase' = "fallback" /\ outcome' = outcome
  <2>1. UNCHANGED <<at, asked, cut, stopped, proc, cold, tainted, spawned>>
    BY DEF WarmResult, chain
  <2>2. PICK err \in BOOLEAN, text \in BOOLEAN, a \in {"whole", "broken", "secours"} :
          Ends(p, err, text, a) /\ SettleWarm(a)
    BY DEF WarmResult
  <2>3. <<p, at>> \in Nat \X Nat /\ p \in Nat
    BY <1>1, <1>2 DEF Population
  <2>4. CASE words /\ a = (IF err THEN "broken" ELSE "whole") /\ UNCHANGED said
    BY <2>1, <2>2, <2>4 DEF SettleWarm, Settle, said
  <2>5. CASE ~words /\ ~err /\ text /\ a = "whole" /\ Hear(p)
    BY <1>4, <2>1, <2>2, <2>3, <2>5 DEF SettleWarm, Settle, Hear
  <2>6. CASE ~words /\ (err \/ ~text) /\ a = "secours" /\ UNCHANGED said
    BY <2>1, <2>2, <2>6 DEF SettleWarm, Fallback, said
  <2> QED  BY <2>2, <2>4, <2>5, <2>6 DEF Ends
<1>6. Population(claude', spawned')
  BY <1>3, <1>5
<1>7. Flags'
  BY <1>1, <1>3, <1>4, <1>5, ZenonT(30) DEF Flags, chain, said, None
<1>8. Scalars'
  BY <1>1, <1>2, <1>3, <1>4, <1>5, SMTT(30) DEF Scalars, chain, said, None, MovedAs
<1>9. Members'
  BY <1>1, <1>2, <1>3, <1>4, <1>5, SMTT(30) DEF Members, Writer, Voice, Behind, Alive, None,
      chain, said, None, MovedAs
<1>10. Writer'
  BY <1>1, <1>2, <1>3, <1>4, <1>5, SMTT(30) DEF Scalars, Members, Writer, Voice, Behind, Alive,
      None, chain, said, None, MovedAs
<1>11. Voice'
  BY <1>1, <1>2, <1>3, <1>4, <1>5, SMTT(30) DEF Scalars, Members, Writer, Voice, Behind, Alive,
      None, chain, said, None, MovedAs
<1>12. Behind'
  BY <1>1, <1>2, <1>3, <1>4, <1>5, SMTT(30) DEF Scalars, Members, Writer, Voice, Behind, Alive,
      None, chain, said, None, MovedAs
<1>13. Alive'
  BY <1>1, <1>2, <1>3, <1>4, <1>5, SMTT(30) DEF Scalars, Members, Writer, Voice, Behind, Alive,
      None, chain, said, None, MovedAs
<1> QED  BY <1>6, <1>7, <1>8, <1>9, <1>10, <1>11, <1>12, <1>13 DEF IInv, TypeOK, Flags, Scalars,
    Members, Population

LEMMA WarmExitKeeps ==
  ASSUME IInv, NEW p \in DOMAIN claude, WarmExit(p)
  PROVE  IInv'
<1>1. /\ Flags /\ Scalars /\ Members /\ Population(claude, spawned)
      /\ Writer /\ Voice /\ Behind /\ Alive
  BY Parts DEF IInv
<1>2. spawned \in Nat /\ at \in Nat
  BY <1>1 DEF Scalars
<1>3. Population(claude', spawned')
  BY <1>1 DEF WarmExit, chain
<1>4. Flags'
  BY <1>1, ZenonT(30) DEF Flags, chain, said, WarmExit, GiveUpWarm, Settle, Fallback
<1>5. Scalars'
  BY <1>1, <1>2, SMTT(30) DEF Scalars, chain, said, WarmExit, GiveUpWarm, Settle, Fallback
<1>6. Members'
  BY <1>1, <1>2, SMTT(30) DEF Members, Writer, Voice, Behind, Alive, None, chain, said, WarmExit,
      GiveUpWarm, Settle, Fallback
<1>7. Writer'
  BY <1>1, <1>2, SMTT(30) DEF Scalars, Members, Writer, Voice, Behind, Alive, None, chain, said,
      WarmExit, GiveUpWarm, Settle, Fallback
<1>8. Voice'
  BY <1>1, <1>2, SMTT(30) DEF Scalars, Members, Writer, Voice, Behind, Alive, None, chain, said,
      WarmExit, GiveUpWarm, Settle, Fallback
<1>9. Behind'
  BY <1>1, <1>2, SMTT(30) DEF Scalars, Members, Writer, Voice, Behind, Alive, None, chain, said,
      WarmExit, GiveUpWarm, Settle, Fallback
<1>10. Alive'
  BY <1>1, <1>2, SMTT(30) DEF Scalars, Members, Writer, Voice, Behind, Alive, None, chain, said,
      WarmExit, GiveUpWarm, Settle, Fallback
<1> QED  BY <1>3, <1>4, <1>5, <1>6, <1>7, <1>8, <1>9, <1>10 DEF IInv, TypeOK, Flags, Scalars,
    Members, Population

LEMMA WarmTimerKeeps ==
  ASSUME IInv, WarmTimer
  PROVE  IInv'
<1>1. /\ Flags /\ Scalars /\ Members /\ Population(claude, spawned)
      /\ Writer /\ Voice /\ Behind /\ Alive
  BY Parts DEF IInv
<1>2. spawned \in Nat /\ at \in Nat
  BY <1>1 DEF Scalars
<1>3. Population(claude', spawned) /\ KilledAs(claude, claude', proc) /\ proc' = None
  BY <1>1, <1>2, KilledFacts DEF WarmTimer, KillProc
<1>4. Population(claude', spawned')
  BY <1>3 DEF WarmTimer
<1>5. Flags'
  BY <1>1, ZenonT(30) DEF Flags, chain, said, WarmTimer, GiveUpWarm, Settle, Fallback
<1>6. Scalars'
  BY <1>1, <1>2, <1>3, SMTT(30) DEF Scalars, chain, said, WarmTimer, GiveUpWarm, Settle,
      Fallback, KilledAs
<1>7. Members'
  BY <1>1, <1>2, <1>3, SMTT(30) DEF Members, Writer, Voice, Behind, Alive, None, chain, said,
      WarmTimer, GiveUpWarm, Settle, Fallback, KilledAs
<1>8. Writer'
  BY <1>1, <1>2, <1>3, SMTT(30) DEF Scalars, Members, Writer, Voice, Behind, Alive, None, chain,
      said, WarmTimer, GiveUpWarm, Settle, Fallback, KilledAs
<1>9. Voice'
  BY <1>1, <1>2, <1>3, SMTT(30) DEF Scalars, Members, Writer, Voice, Behind, Alive, None, chain,
      said, WarmTimer, GiveUpWarm, Settle, Fallback, KilledAs
<1>10. Behind'
  BY <1>1, <1>2, <1>3, SMTT(30) DEF Scalars, Members, Writer, Voice, Behind, Alive, None, chain,
      said, WarmTimer, GiveUpWarm, Settle, Fallback, KilledAs
<1>11. Alive'
  BY <1>1, <1>2, <1>3, SMTT(30) DEF Scalars, Members, Writer, Voice, Behind, Alive, None, chain,
      said, WarmTimer, GiveUpWarm, Settle, Fallback, KilledAs
<1> QED  BY <1>4, <1>5, <1>6, <1>7, <1>8, <1>9, <1>10, <1>11 DEF IInv, TypeOK, Flags, Scalars,
    Members, Population

LEMMA CloseKeeps ==
  ASSUME IInv, Quiet, Close
  PROVE  IInv'
<1>1. /\ Flags /\ Scalars /\ Members /\ Population(claude, spawned)
      /\ Writer /\ Voice /\ Behind /\ Alive
  BY Parts DEF IInv
<1>2. spawned \in Nat /\ at \in Nat
  BY <1>1 DEF Scalars
<1>3. PICK c : c = Killed(claude, proc) /\ claude' = Killed(c, cold)
  BY DEF Close
<1>4. Population(claude', spawned) /\ KilledAs(claude, c, proc) /\ KilledAs(c, claude', cold)
  BY <1>1, <1>2, <1>3, KilledFacts
<1>5. Population(claude', spawned')
  BY <1>4 DEF Close
<1>6. Flags'
  BY <1>1, ZenonT(30) DEF Flags, chain, said, Close, Settle
<1>7. Scalars'
  BY <1>1, <1>2, <1>4, SMTT(30) DEF Scalars, chain, said, Close, Settle, KilledAs
<1>8. Members'
  BY <1>1, <1>2, <1>4, SMTT(30) DEF Members, Writer, Voice, Behind, Alive, None, chain, said,
      Close, Settle, KilledAs
<1>9. Writer'
  BY <1>1, <1>2, <1>4, SMTT(30) DEF Scalars, Members, Writer, Voice, Behind, Alive, None, chain,
      said, Close, Settle, KilledAs
<1>10. Voice'
  BY <1>1, <1>2, <1>4, SMTT(30) DEF Scalars, Members, Writer, Voice, Behind, Alive, None, chain,
      said, Close, Settle, KilledAs
<1>11. Behind'
  BY <1>1, <1>2, <1>4, SMTT(30) DEF Scalars, Members, Writer, Voice, Behind, Alive, None, chain,
      said, Close, Settle, KilledAs
<1>12. Alive'
  <2>1. \A x \in DOMAIN claude : claude[x].runs /\ claude[x].stage # "done" => x \in {proc, cold}
    BY <1>1 DEF Alive
  <2>2. \A x \in DOMAIN claude' : ~(claude'[x].runs /\ claude'[x].stage # "done")
    BY <1>4, <2>1 DEF KilledAs
  <2>3. stopped' => phase' \in {"free", "cold"}
    BY <1>1 DEF Close, Settle, Scalars, Quiet, Runnable
  <2> QED  BY <2>2, <2>3 DEF Alive
<1> QED  BY <1>5, <1>6, <1>7, <1>8, <1>9, <1>10, <1>11, <1>12 DEF IInv, TypeOK, Flags, Scalars,
    Members, Population

LEMMA WarmInitKeeps ==
  ASSUME IInv, NEW p \in DOMAIN claude, WarmInit(p)
  PROVE  IInv'
<1>1. /\ Flags /\ Scalars /\ Members /\ Population(claude, spawned)
      /\ Writer /\ Voice /\ Behind /\ Alive
  BY Parts DEF IInv
<1>2. spawned \in Nat /\ at \in Nat
  BY <1>1 DEF Scalars
<1>3. phase = "warm" /\ proc \in DOMAIN claude /\ claude[proc].of = at
  BY <1>1 DEF WarmInit, Writer, None, Members, Population
<1>4. \/ /\ Population(claude', spawned) /\ MovedAs(claude, claude', p, "inited")
         /\ UNCHANGED <<proc, phase, outcome>>
      \/ /\ Population(claude', spawned) /\ KilledAs(claude, claude', proc)
         /\ proc' = None /\ phase' = "fallback" /\ outcome' = outcome
  <2>1. CASE Reaches(p, "inited") /\ UNCHANGED <<proc, phase, outcome>>
    BY <1>1, <1>2, <2>1, ReachesFacts DEF Reaches
  <2>2. CASE KillProc /\ Fallback
    BY <1>1, <1>2, <2>2, KilledFacts DEF KillProc, Fallback
  <2> QED  BY <2>1, <2>2 DEF WarmInit
<1>5. Population(claude', spawned')
  BY <1>4 DEF WarmInit
<1>6. Flags'
  BY <1>1, ZenonT(30) DEF Flags, chain, said, WarmInit
<1>7. Scalars'
  BY <1>1, <1>2, <1>3, <1>4, SMTT(30) DEF Scalars, chain, said, WarmInit, KilledAs, MovedAs
<1>8. Members'
  BY <1>1, <1>2, <1>3, <1>4, SMTT(30) DEF Members, Writer, Voice, Behind, Alive, None, chain,
      said, WarmInit, KilledAs, MovedAs
<1>9. Writer'
  BY <1>1, <1>2, <1>3, <1>4, SMTT(30) DEF Scalars, Members, Writer, Voice, Behind, Alive, None,
      chain, said, WarmInit, KilledAs, MovedAs
<1>10. Voice'
  BY <1>1, <1>2, <1>3, <1>4, SMTT(30) DEF Scalars, Members, Writer, Voice, Behind, Alive, None,
      chain, said, WarmInit, KilledAs, MovedAs
<1>11. Behind'
  BY <1>1, <1>2, <1>3, <1>4, SMTT(30) DEF Scalars, Members, Writer, Voice, Behind, Alive, None,
      chain, said, WarmInit, KilledAs, MovedAs
<1>12. Alive'
  BY <1>1, <1>2, <1>3, <1>4, SMTT(30) DEF Scalars, Members, Writer, Voice, Behind, Alive, None,
      chain, said, WarmInit, KilledAs, MovedAs
<1> QED  BY <1>5, <1>6, <1>7, <1>8, <1>9, <1>10, <1>11, <1>12 DEF IInv, TypeOK, Flags, Scalars,
    Members, Population

LEMMA AskWarmKeeps ==
  ASSUME IInv, AskWarm
  PROVE  IInv'
<1>1. /\ Flags /\ Scalars /\ Members /\ Population(claude, spawned)
      /\ Writer /\ Voice /\ Behind /\ Alive
  BY Parts DEF IInv
<1>2. spawned \in Nat /\ at \in Nat
  BY <1>1 DEF Scalars
<1>3. at' = at + 1 /\ at' \in Nat
  BY <1>2 DEF AskWarm, NextInChain
<1>4. \/ /\ proc # None /\ phase' = "warm" /\ spawned' = spawned /\ proc' = proc /\ outcome' = outcome
         /\ Population(claude', spawned) /\ GivenAs(claude, claude', proc, at')
      \/ /\ proc = None /\ spawned' = spawned + 1 /\ proc' = spawned' /\ outcome' = outcome
         /\ Population(claude', spawned + 1)
         /\ \/ phase' = "warm" /\ LitAs(claude, claude', spawned', Given(Warm, at'))
            \/ phase' = "fallback" /\ LitAs(claude, claude', spawned', Warm)
      \/ phase' = "fallback" /\ claude' = claude /\ spawned' = spawned /\ proc' = proc /\ outcome' = outcome
  <2>1. CASE /\ proc # None /\ phase' = "warm" /\ NoSpawn([claude EXCEPT ![proc] = Given(@, at')])
             /\ UNCHANGED <<proc, outcome>>
    <3>1. proc \in DOMAIN claude
      BY <1>1, <2>1 DEF Members
    <3>2. Population(claude', spawned) /\ GivenAs(claude, claude', proc, at')
      BY <1>1, <1>2, <1>3, <2>1, <3>1, GivenFacts DEF NoSpawn
    <3> QED  BY <2>1, <3>2 DEF NoSpawn
  <2>2. CASE /\ proc = None /\ phase' = "warm" /\ Spawn(claude, Given(Warm, at')) /\ proc' = spawned'
             /\ UNCHANGED outcome
    <3>1. Given(Warm, at') \in Processes
      BY <1>3, NewProcesses
    <3>2. Population(claude', spawned + 1) /\ LitAs(claude, claude', spawned + 1, Given(Warm, at'))
      BY <1>1, <1>2, <2>2, <3>1, WithFacts DEF Spawn
    <3> QED  BY <2>2, <3>2 DEF Spawn
  <2>3. CASE proc = None /\ Spawn(claude, Warm) /\ proc' = spawned' /\ Fallback
    <3>1. Warm \in Processes
      BY <1>3, NewProcesses
    <3>2. Population(claude', spawned + 1) /\ LitAs(claude, claude', spawned + 1, Warm)
      BY <1>1, <1>2, <2>3, <3>1, WithFacts DEF Spawn
    <3> QED  BY <2>3, <3>2 DEF Spawn, Fallback
  <2>4. CASE NoSpawn(claude) /\ UNCHANGED proc /\ Fallback
    BY <2>4 DEF NoSpawn, Fallback
  <2> QED  BY <2>1, <2>2, <2>3, <2>4 DEF AskWarm, EnsureSpawned
<1>5. Population(claude', spawned')
  BY <1>1, <1>4
<1>6. Flags'
  BY <1>1, ZenonT(30) DEF Flags, chain, said, AskWarm, NextInChain
<1>7. Scalars'
  BY <1>1, <1>2, <1>3, <1>4, NewProcesses, SMTT(30) DEF Scalars, chain, said, AskWarm,
      NextInChain, LitAs, GivenAs
<1>8. Members'
  BY <1>1, <1>2, <1>3, <1>4, NewProcesses, SMTT(30) DEF Members, Writer, Voice, Behind, Alive,
      None, chain, said, AskWarm, NextInChain, LitAs, GivenAs
<1>9. Writer'
  BY <1>1, <1>2, <1>3, <1>4, NewProcesses, SMTT(30) DEF Scalars, Members, Writer, Voice, Behind,
      Alive, None, chain, said, AskWarm, NextInChain, LitAs, GivenAs
<1>10. Voice'
  BY <1>1, <1>2, <1>3, <1>4, NewProcesses, SMTT(30) DEF Scalars, Members, Writer, Voice, Behind,
      Alive, None, chain, said, AskWarm, NextInChain, LitAs, GivenAs
<1>11. Behind'
  BY <1>1, <1>2, <1>3, <1>4, NewProcesses, SMTT(30) DEF Scalars, Members, Writer, Voice, Behind,
      Alive, None, chain, said, AskWarm, NextInChain, LitAs, GivenAs
<1>12. Alive'
  BY <1>1, <1>2, <1>3, <1>4, NewProcesses, SMTT(30) DEF Scalars, Members, Writer, Voice, Behind,
      Alive, None, chain, said, AskWarm, NextInChain, LitAs, GivenAs
<1> QED  BY <1>5, <1>6, <1>7, <1>8, <1>9, <1>10, <1>11, <1>12 DEF IInv, TypeOK, Flags, Scalars,
    Members, Population

LEMMA AskColdKeeps ==
  ASSUME IInv, AskCold
  PROVE  IInv'
<1>1. /\ Flags /\ Scalars /\ Members /\ Population(claude, spawned)
      /\ Writer /\ Voice /\ Behind /\ Alive
  BY Parts DEF IInv
<1>2. spawned \in Nat /\ at \in Nat
  BY <1>1 DEF Scalars
<1>3. \/ /\ spawned' = spawned + 1 /\ cold' = spawned' /\ phase' = "cold" /\ outcome' = outcome
         /\ Population(claude', spawned + 1) /\ LitAs(claude, claude', spawned', ColdFor(at))
         /\ claude'[spawned'].kind = "cold" /\ claude'[spawned'].of = at /\ claude'[spawned'].stage = "asked"
      \/ /\ phase' = "free" /\ outcome' = "secours"
         /\ cold' = cold /\ claude' = claude /\ spawned' = spawned
  <2>1. CASE Spawn(claude, ColdFor(at)) /\ cold' = spawned' /\ phase' = "cold" /\ UNCHANGED outcome
    <3>1. ColdFor(at) \in Processes
      BY <1>2, NewProcesses
    <3>2. Population(claude', spawned + 1) /\ LitAs(claude, claude', spawned + 1, ColdFor(at))
      BY <1>1, <1>2, <2>1, <3>1, WithFacts DEF Spawn
    <3> QED  BY <1>2, <2>1, <3>2, NewProcesses DEF Spawn, LitAs
  <2> QED  BY <2>1 DEF AskCold, Settle
<1>4. Population(claude', spawned')
  BY <1>1, <1>3
<1>5. Flags'
  BY <1>1, ZenonT(30) DEF Flags, chain, said, AskCold
<1>6. Scalars'
  BY <1>1, <1>2, <1>3, SMTT(30) DEF Scalars, chain, said, AskCold, LitAs
<1>7. Members'
  BY <1>1, <1>2, <1>3, SMTT(30) DEF Members, Writer, Voice, Behind, Alive, None, chain, said,
      AskCold, LitAs
<1>8. Writer'
  BY <1>1, <1>2, <1>3, SMTT(30) DEF Scalars, Members, Writer, Voice, Behind, Alive, None, chain,
      said, AskCold, LitAs
<1>9. Voice'
  BY <1>1, <1>2, <1>3, SMTT(30) DEF Scalars, Members, Writer, Voice, Behind, Alive, None, chain,
      said, AskCold, LitAs
<1>10. Behind'
  <2>1. CASE cold' = spawned' /\ LitAs(claude, claude', spawned', ColdFor(at))
    <3>1. at \in Nat \ {0} /\ at' = at /\ phase = "fallback" /\ cold = None
      BY <1>1 DEF AskCold, Writer
    <3>2. claude'[spawned'].of = at
      BY <1>3, <2>1 DEF LitAs
    <3>3. \A x \in DOMAIN claude : claude'[x] = claude[x] /\ (claude[x].kind = "cold" => claude[x].of # at)
      BY <1>1, <2>1, <3>1 DEF Behind, LitAs, Population, None
    <3> QED  BY <1>1, <1>2, <2>1, <3>1, <3>2, <3>3 DEF Behind, LitAs
  <2>2. CASE cold' = cold /\ claude' = claude /\ phase' = "free"
    BY <1>1, <2>2 DEF AskCold, Behind
  <2> QED  BY <1>3, <2>1, <2>2
<1>11. Alive'
  <2>1. ~stopped /\ stopped' = stopped /\ proc' = proc /\ cold = None
    BY <1>1 DEF AskCold, Alive, Writer, chain
  <2>2. CASE cold' = spawned' /\ LitAs(claude, claude', spawned', ColdFor(at))
    BY <1>1, <2>1, <2>2 DEF Alive, LitAs, Population, None
  <2>3. CASE cold' = cold /\ claude' = claude /\ phase' = "free"
    BY <1>1, <2>1, <2>3 DEF Alive
  <2> QED  BY <1>3, <2>2, <2>3
<1> QED  BY <1>4, <1>5, <1>6, <1>7, <1>8, <1>9, <1>10, <1>11 DEF IInv, TypeOK, Flags, Scalars,
    Members, Population

\* A cold answer ends: what it left behind is settled, whoever is lit next.
LEMMA ColdEnds ==
  ASSUME IInv, phase = "cold", NEW c, NEW a, Population(c, spawned),
         DOMAIN c = DOMAIN claude,
         \A x \in DOMAIN claude :
           /\ c[x].kind = claude[x].kind /\ c[x].of = claude[x].of
           /\ c[x].runs => claude[x].runs
           /\ x # cold => c[x].stage = claude[x].stage,
         c[cold].runs => c[cold].stage = "done",
         Done(c, a), at' = at, stopped' = stopped, words' <=> voices' # {}
  PROVE  /\ phase' = "free" /\ outcome' = a /\ spawned' \in Nat /\ Population(claude', spawned')
         /\ Members' /\ Writer' /\ Voice' /\ Behind' /\ Alive'
<1>1. Scalars /\ Members /\ Writer /\ Voice /\ Behind /\ Alive
  BY Parts DEF IInv
<1>2. /\ spawned \in Nat /\ proc \in {None} \union DOMAIN claude
      /\ cold # None /\ cold \in DOMAIN claude /\ proc # cold /\ None \notin DOMAIN claude
      /\ (proc # None => claude[proc].kind = "warm" /\ claude[proc].stage \notin {"asked", "inited", "spoke"})
  BY <1>1 DEF Scalars, Members, Writer, Population, None
<1>3. /\ cold' = None /\ phase' = "free" /\ outcome' = a
      /\ spawned' \in Nat /\ Population(claude', spawned')
      /\ \/ claude' = c /\ proc' = proc
         \/ proc = None /\ ~stopped /\ proc' = spawned' /\ LitAs(c, claude', spawned', Warm)
  BY <1>2, DoneFacts
<1>4. \A x \in DOMAIN c : c[x].runs /\ c[x].stage # "done" => x = proc /\ ~stopped
  BY <1>1, <1>2 DEF Alive
<1>5. \A x \in DOMAIN c : claude'[x] = c[x] /\ x \in DOMAIN claude'
  BY <1>3 DEF LitAs
<1>6. \A x \in DOMAIN claude' \ DOMAIN c :
        x = proc' /\ claude'[x].kind = "warm" /\ claude'[x].stage = "idle" /\ ~stopped
  BY <1>3, NewProcesses, 0 \in Nat DEF LitAs
<1>7. proc' # None => /\ proc' \in DOMAIN claude' /\ claude'[proc'].kind = "warm"
                      /\ claude'[proc'].stage \notin {"asked", "inited", "spoke"}
  BY <1>2, <1>3, <1>5, NewProcesses, 0 \in Nat DEF LitAs
<1>8. Members' /\ Writer'
  BY <1>3, <1>7 DEF Members, Writer, None
<1>9. Voice'
  BY <1>3, <1>7 DEF Voice, None
<1>10. Behind'
  BY <1>1, <1>3, <1>5, <1>6 DEF Behind
<1>11. Alive'
  BY <1>3, <1>4, <1>5, <1>6 DEF Alive
<1> QED  BY <1>3, <1>8, <1>9, <1>10, <1>11

LEMMA ColdResultKeeps ==
  ASSUME IInv, NEW p \in DOMAIN claude, ColdResult(p)
  PROVE  IInv'
<1>1. /\ Flags /\ Scalars /\ Members /\ Population(claude, spawned)
      /\ Writer /\ Voice /\ Behind /\ Alive
  BY Parts DEF IInv
<1>2. spawned \in Nat /\ at \in Nat
  BY <1>1 DEF Scalars
<1>3. p = cold /\ p # None /\ phase = "cold" /\ claude[p].of = at
  BY <1>1 DEF ColdResult, Writer, None, Population
<1>4. <<p, at>> \in Nat \X Nat
  BY <1>1, <1>2 DEF Population
<1> DEFINE c == [claude EXCEPT ![p].stage = "done"]
<1>5. PICK err \in BOOLEAN, text \in BOOLEAN, a \in {"whole", "broken", "secours"} :
        Ends(p, err, text, a) /\ Done(c, a)
  BY DEF ColdResult
<1>6. Population(c, spawned) /\ MovedAs(claude, c, p, "done")
  BY <1>1, <1>2, ReachesFacts
<1> HIDE DEF c
<1>7. /\ UNCHANGED <<asked, cut, stopped, at, tainted, late>>
       /\ \/ (words' <=> words) /\ voices' = voices
          \/ words' /\ voices' = voices \union {<<p, at>>}
  BY <1>3, <1>5 DEF ColdResult, chain, Ends, Hear, said
<1>8. words' <=> voices' # {}
  BY <1>1, <1>7 DEF Voice
<1>9. words' \in BOOLEAN
  BY <1>1, <1>5 DEF Flags, Ends, Hear, said
<1>10. /\ phase' = "free" /\ outcome' = a /\ spawned' \in Nat /\ Population(claude', spawned')
      /\ Members' /\ Writer' /\ Voice' /\ Behind' /\ Alive'
  BY <1>3, <1>5, <1>6, <1>7, <1>8, ColdEnds DEF MovedAs
<1>11. Flags'
  BY <1>1, <1>4, <1>10, <1>7, <1>9, ZenonT(30) DEF Flags
<1>12. Scalars'
  BY <1>1, <1>2, <1>4, <1>10, <1>7, <1>9, SMTT(30) DEF Scalars
<1> QED  BY <1>11, <1>12, <1>10 DEF IInv, TypeOK, Flags, Scalars, Members, Population

LEMMA ColdExitKeeps ==
  ASSUME IInv, NEW p \in DOMAIN claude, ColdExit(p)
  PROVE  IInv'
<1>1. /\ Flags /\ Scalars /\ Members /\ Population(claude, spawned)
      /\ Writer /\ Voice /\ Behind /\ Alive
  BY Parts DEF IInv
<1>2. spawned \in Nat /\ at \in Nat
  BY <1>1 DEF Scalars
<1>3. phase = "cold" /\ cold # None /\ cold \in DOMAIN claude /\ p = cold /\ ~claude[p].runs
  BY <1>1 DEF ColdExit, Writer, Members, None, Population
<1> DEFINE c == claude
<1>4. PICK a \in {"whole", "secours"} : Done(c, a)
  BY DEF ColdExit, GiveUpCold
<1>5. Population(c, spawned) /\ DOMAIN c = DOMAIN claude /\ \A x \in DOMAIN claude : c[x] = claude[x]
  BY <1>1, <1>2
<1> HIDE DEF c
<1>6. UNCHANGED <<asked, cut, stopped, at, tainted, late, words, voices>>
  BY DEF ColdExit, chain, said
<1>7. words' <=> voices' # {}
  BY <1>1, <1>6 DEF Voice
<1>8. /\ phase' = "free" /\ outcome' = a /\ spawned' \in Nat /\ Population(claude', spawned')
      /\ Members' /\ Writer' /\ Voice' /\ Behind' /\ Alive'
  BY <1>3, <1>4, <1>5, <1>6, <1>7, ColdEnds DEF KilledAs
<1>9. Flags'
  BY <1>1, <1>8, <1>6, ZenonT(30) DEF Flags
<1>10. Scalars'
  BY <1>1, <1>2, <1>8, <1>6, SMTT(30) DEF Scalars
<1> QED  BY <1>9, <1>10, <1>8 DEF IInv, TypeOK, Flags, Scalars, Members, Population

LEMMA ColdTimerKeeps ==
  ASSUME IInv, ColdTimer
  PROVE  IInv'
<1>1. /\ Flags /\ Scalars /\ Members /\ Population(claude, spawned)
      /\ Writer /\ Voice /\ Behind /\ Alive
  BY Parts DEF IInv
<1>2. spawned \in Nat /\ at \in Nat
  BY <1>1 DEF Scalars
<1>3. phase = "cold" /\ cold # None /\ cold \in DOMAIN claude
  BY <1>1 DEF ColdTimer, Writer, Members, None, Population
<1> DEFINE c == Killed(claude, cold)
<1>4. PICK a \in {"whole", "secours"} : Done(c, a)
  BY DEF ColdTimer, GiveUpCold
<1>5. Population(c, spawned) /\ KilledAs(claude, c, cold)
  BY <1>1, <1>2, KilledFacts
<1> HIDE DEF c
<1>6. UNCHANGED <<asked, cut, stopped, at, tainted, late, words, voices>>
  BY DEF ColdTimer, chain, said
<1>7. words' <=> voices' # {}
  BY <1>1, <1>6 DEF Voice
<1>8. /\ phase' = "free" /\ outcome' = a /\ spawned' \in Nat /\ Population(claude', spawned')
      /\ Members' /\ Writer' /\ Voice' /\ Behind' /\ Alive'
  BY <1>3, <1>4, <1>5, <1>6, <1>7, ColdEnds DEF KilledAs
<1>9. Flags'
  BY <1>1, <1>8, <1>6, ZenonT(30) DEF Flags
<1>10. Scalars'
  BY <1>1, <1>2, <1>8, <1>6, SMTT(30) DEF Scalars
<1> QED  BY <1>9, <1>10, <1>8 DEF IInv, TypeOK, Flags, Scalars, Members, Population

LEMMA AbortKeeps ==
  ASSUME IInv, NEW q \in 1..asked, Abort(q)
  PROVE  IInv'
<1>1. /\ Flags /\ Scalars /\ Members /\ Population(claude, spawned)
      /\ Writer /\ Voice /\ Behind /\ Alive
  BY Parts DEF IInv
<1>2. spawned \in Nat /\ at \in Nat
  BY <1>1 DEF Scalars
<1>3. /\ UNCHANGED <<asked, stopped, at, tainted, words, voices, late>>
      /\ q \in Nat /\ cut' = cut \union {q}
  BY <1>1 DEF Abort, said, Scalars
<1>4. /\ phase' \in {"free", "warm", "fallback", "cold"} /\ outcome' \in {"whole", "broken", "secours", "cut"}
      /\ spawned' \in Nat /\ Population(claude', spawned')
      /\ Members' /\ Writer' /\ Voice' /\ Behind' /\ Alive'
  <2>1. CASE q > at /\ UNCHANGED <<phase, proc, cold, claude, spawned, outcome>>
    BY <1>1, <1>3, <2>1 DEF Scalars, Members, Writer, Voice, Behind, Alive
  <2>2. CASE q = at /\ phase = "warm" /\ KillProc /\ Settle("cut") /\ UNCHANGED <<cold, spawned>>
    <3>1. Population(claude', spawned) /\ KilledAs(claude, claude', proc)
      BY <1>1, <1>2, <2>2, KilledFacts DEF KillProc
    <3>2. proc' = None /\ phase' = "free" /\ outcome' = "cut" /\ cold' = None /\ cold = None
      BY <1>1, <2>2 DEF KillProc, Settle, Writer
    <3>3. Members' /\ Writer' /\ Voice'
      BY <1>1, <1>3, <3>2 DEF Members, Writer, Voice
    <3>4. Behind' /\ Alive'
      BY <1>1, <1>3, <3>1, <3>2 DEF Behind, Alive, KilledAs
    <3> QED  BY <1>2, <2>2, <3>1, <3>2, <3>3, <3>4
  <2>3. CASE q = at /\ phase = "cold" /\ Done(Killed(claude, cold), "cut")
    <3> DEFINE c == Killed(claude, cold)
    <3>1. Population(c, spawned) /\ KilledAs(claude, c, cold) /\ Done(c, "cut")
      BY <1>1, <1>2, <2>3, KilledFacts
    <3> HIDE DEF c
    <3>2. cold # None /\ cold \in DOMAIN claude
      BY <1>1, <2>3 DEF Writer, Members
    <3>3. words' <=> voices' # {}
      BY <1>1, <1>3 DEF Voice
    <3> QED  BY <1>3, <2>3, <3>1, <3>2, <3>3, ColdEnds DEF KilledAs
  <2> QED  BY <2>1, <2>2, <2>3 DEF Abort
<1>5. Flags'
  BY <1>1, <1>3, <1>4, ZenonT(30) DEF Flags
<1>6. Scalars'
  BY <1>1, <1>2, <1>3, <1>4, SMTT(30) DEF Scalars
<1> QED  BY <1>5, <1>6, <1>4 DEF IInv, TypeOK, Flags, Scalars, Members, Population

LEMMA ColdInitKeeps ==
  ASSUME IInv, NEW p \in DOMAIN claude, ColdInit(p)
  PROVE  IInv'
<1>1. /\ Flags /\ Scalars /\ Members /\ Population(claude, spawned)
      /\ Writer /\ Voice /\ Behind /\ Alive
  BY Parts DEF IInv
<1>2. spawned \in Nat /\ at \in Nat
  BY <1>1 DEF Scalars
<1>3. \/ /\ Population(claude', spawned) /\ MovedAs(claude, claude', p, "inited")
         /\ UNCHANGED <<proc, cold, phase, spawned, outcome, tainted>>
      \/ /\ Population(claude', spawned) /\ KilledAs(claude, claude', p)
         /\ spawned' = spawned /\ proc' = proc /\ tainted' = TRUE
         /\ \/ p = cold /\ cold' = None /\ phase' = "free" /\ outcome' = "secours"
            \/ p # cold /\ UNCHANGED <<cold, phase, outcome>>
  <2>1. CASE Reaches(p, "inited") /\ UNCHANGED <<proc, cold, phase, spawned, outcome, tainted>>
    BY <1>1, <1>2, <2>1, ReachesFacts DEF Reaches
  <2>2. CASE /\ tainted' = TRUE /\ NoSpawn(Killed(claude, p)) /\ UNCHANGED proc
             /\ IF p = cold THEN cold' = None /\ Settle("secours") ELSE UNCHANGED <<cold, phase, outcome>>
    BY <1>1, <1>2, <2>2, KilledFacts DEF NoSpawn, Settle
  <2> QED  BY <2>1, <2>2 DEF ColdInit
<1>4. p # None /\ p # proc /\ claude[p].kind = "cold" /\ claude[p].stage = "asked"
  BY <1>1 DEF ColdInit, Writer, Population, None
<1>5. Population(claude', spawned')
  BY <1>3
<1>6. Flags'
  BY <1>1, ZenonT(30) DEF Flags, chain, said, ColdInit
<1>7. Scalars'
  BY <1>1, <1>2, <1>3, <1>4, SMTT(30) DEF Scalars, chain, said, ColdInit, KilledAs, MovedAs
<1>8. Members'
  BY <1>1, <1>2, <1>3, <1>4, SMTT(30) DEF Members, Writer, Voice, Behind, Alive, None, chain,
      said, ColdInit, KilledAs, MovedAs
<1>9. Writer'
  BY <1>1, <1>2, <1>3, <1>4, SMTT(30) DEF Scalars, Members, Writer, Voice, Behind, Alive, None,
      chain, said, ColdInit, KilledAs, MovedAs
<1>10. Voice'
  BY <1>1, <1>2, <1>3, <1>4, SMTT(30) DEF Scalars, Members, Writer, Voice, Behind, Alive, None,
      chain, said, ColdInit, KilledAs, MovedAs
<1>11. Behind'
  BY <1>1, <1>2, <1>3, <1>4, SMTT(30) DEF Scalars, Members, Writer, Voice, Behind, Alive, None,
      chain, said, ColdInit, KilledAs, MovedAs
<1>12. Alive'
  BY <1>1, <1>2, <1>3, <1>4, SMTT(30) DEF Scalars, Members, Writer, Voice, Behind, Alive, None,
      chain, said, ColdInit, KilledAs, MovedAs
<1> QED  BY <1>5, <1>6, <1>7, <1>8, <1>9, <1>10, <1>11, <1>12 DEF IInv, TypeOK, Flags, Scalars,
    Members, Population

-----------------------------------------------------------------------------
LEMMA Initially == Init => IInv
<1> SUFFICES ASSUME Init PROVE IInv
  OBVIOUS
<1>1. DOMAIN claude = {} /\ claude = [x \in {} |-> Warm]
  BY DEF Init
<1>2. words \in BOOLEAN /\ tainted \in BOOLEAN /\ stopped \in BOOLEAN
  BY DEF Init
<1>3. TypeOK
  BY <1>1, <1>2 DEF Init, TypeOK, None
<1>4. Writer /\ Voice /\ Behind /\ Alive
  BY <1>1 DEF Init, Writer, Voice, Behind, Alive, None
<1> QED  BY <1>3, <1>4 DEF IInv

LEMMA Inductive == IInv /\ [Next]_vars => IInv'
<1> SUFFICES ASSUME IInv, [Next]_vars PROVE IInv'
  OBVIOUS

<1>1. CASE Ask
  BY <1>1, AskKeeps
<1>2. CASE Refuse
  BY <1>2, RefuseKeeps
<1>3. CASE AskWarm
  BY <1>3, AskWarmKeeps
<1>4. CASE Banned
  BY <1>4, BannedKeeps
<1>5. CASE AskCold
  BY <1>5, AskColdKeeps
<1>6. CASE WarmTimer
  BY <1>6, WarmTimerKeeps
<1>7. CASE ColdTimer
  BY <1>7, ColdTimerKeeps
<1>8. CASE Quiet /\ Close
  BY <1>8, CloseKeeps
<1>9. ASSUME NEW p \in DOMAIN claude, WarmInit(p) PROVE IInv'
  BY <1>9, WarmInitKeeps
<1>10. ASSUME NEW p \in DOMAIN claude, WarmWord(p) PROVE IInv'
  BY <1>10, WarmWordKeeps
<1>11. ASSUME NEW p \in DOMAIN claude, WarmResult(p) PROVE IInv'
  BY <1>11, WarmResultKeeps
<1>12. ASSUME NEW p \in DOMAIN claude, ColdInit(p) PROVE IInv'
  BY <1>12, ColdInitKeeps
<1>13. ASSUME NEW p \in DOMAIN claude, ColdWord(p) PROVE IInv'
  BY <1>13, ColdWordKeeps
<1>14. ASSUME NEW p \in DOMAIN claude, ColdResult(p) PROVE IInv'
  BY <1>14, ColdResultKeeps
<1>15. ASSUME NEW p \in DOMAIN claude, WarmExit(p) PROVE IInv'
  BY <1>15, WarmExitKeeps
<1>16. ASSUME NEW p \in DOMAIN claude, ColdExit(p) PROVE IInv'
  BY <1>16, ColdExitKeeps
<1>17. ASSUME NEW p \in DOMAIN claude, Dies(p) PROVE IInv'
  BY <1>17, DiesKeeps
<1>18. ASSUME NEW p \in DOMAIN claude, Gone(p) PROVE IInv'
  BY <1>18, GoneKeeps
<1>19. ASSUME NEW q \in 1..asked, Abort(q) PROVE IInv'
  BY <1>19, AbortKeeps
<1>20. CASE UNCHANGED vars
  BY <1>20 DEF vars, chain, said, IInv, TypeOK, Writer, Voice, Behind, Alive
<1> QED  BY <1>1, <1>2, <1>3, <1>4, <1>5, <1>6, <1>7, <1>8, <1>9, <1>10, <1>11, <1>12, <1>13,
    <1>14, <1>15, <1>16, <1>17, <1>18, <1>19, <1>20 DEF Next, Microtask, Line

(* The invariant holds for ever: the question in service has one writer,   *)
(* and whoever may still write is known to the brain.                      *)
THEOREM Invariance == Spec => []IInv
  BY Initially, Inductive, PTL DEF Spec

(* Every variable keeps its type, whatever dies, hangs or is killed.       *)
THEOREM TypeCorrect == Spec => []TypeOK
<1>1. IInv => TypeOK
  BY DEF IInv
<1> QED  BY <1>1, Invariance, PTL
-----------------------------------------------------------------------------
(* Each step serves the desk.                                              *)
LEMMA NobodyWrites == IInv => (stopped => Writing = {})
  BY DEF IInv, Alive, Writing

(* What a step may be for the desk (its Next, but for the staff).          *)
Serves == /\ \/ Promise!Ask \/ Promise!Take \/ Promise!Refuse \/ Promise!Word \/ Promise!Answer
             \/ Promise!Belated \/ UNCHANGED Promise!service
          /\ stopped => stopped'

LEMMA AskServes ==
  ASSUME IInv, Ask
  PROVE  Serves
  BY SMTT(30) DEF Serves, Promise!Ask, Promise!service, Ask, chain, said

LEMMA RefuseServes ==
  ASSUME IInv, Refuse
  PROVE  Serves
  BY SMTT(30) DEF Serves, Promise!Refuse, Promise!service, Refuse, NextInChain, Settle, chain

LEMMA AskWarmServes ==
  ASSUME IInv, AskWarm
  PROVE  Serves
  BY SMTT(30) DEF Serves, Promise!Take, Promise!service, AskWarm, NextInChain, Fallback, chain

LEMMA BannedServes ==
  ASSUME IInv, Banned
  PROVE  Serves
  BY SMTT(30) DEF Serves, Promise!Take, Promise!service, Banned, NextInChain, Fallback, chain

LEMMA AskColdServes ==
  ASSUME IInv, AskCold
  PROVE  Serves
  BY SMTT(30) DEF Serves, Promise!Answer, Promise!service, AskCold, Settle, chain, said, IInv, Voice

LEMMA WarmTimerServes ==
  ASSUME IInv, WarmTimer
  PROVE  Serves
  BY SMTT(30) DEF Serves, Promise!Answer, Promise!service, WarmTimer, GiveUpWarm, Settle,
      Fallback, chain, said, IInv, Voice

LEMMA WarmExitServes ==
  ASSUME IInv, NEW p \in DOMAIN claude, WarmExit(p)
  PROVE  Serves
  BY SMTT(30) DEF Serves, Promise!Answer, Promise!service, WarmExit, GiveUpWarm, Settle,
      Fallback, chain, said, IInv, Voice

LEMMA CloseServes ==
  ASSUME IInv, Close
  PROVE  Serves
  BY SMTT(30) DEF Serves, Promise!Answer, Promise!service, Close, Settle, said

LEMMA DiesServes ==
  ASSUME IInv, NEW p \in DOMAIN claude, Dies(p)
  PROVE  Serves
  BY SMTT(30) DEF Serves, Promise!Answer, Promise!service, Dies, chain, said

LEMMA GoneServes ==
  ASSUME IInv, NEW p \in DOMAIN claude, Gone(p)
  PROVE  Serves
  BY SMTT(30) DEF Serves, Promise!Answer, Promise!service, Gone, chain, said

LEMMA WarmInitServes ==
  ASSUME IInv, NEW p \in DOMAIN claude, WarmInit(p)
  PROVE  Serves
  BY SMTT(30) DEF Serves, Promise!Answer, Promise!service, WarmInit, Fallback, chain, said, IInv,
      Writer, None, TypeOK

LEMMA WarmWordServes ==
  ASSUME IInv, NEW p \in DOMAIN claude, WarmWord(p)
  PROVE  Serves
<1>1. p = proc /\ p # None /\ phase = "warm" /\ claude[p].of = at
  BY DEF WarmWord, IInv, TypeOK, Writer, None
<1>2. ASSUME Hear(p) PROVE Promise!Heard
  <2>1. voices' = voices \union {<<p, at>>} /\ voices \subseteq {<<p, at>>}
    BY <1>1, <1>2 DEF Hear, IInv, Voice
  <2>2. voices' = {<<p, at>>} /\ <<p, at>>[2] = at
    BY <2>1
  <2> QED  BY <2>1, <2>2 DEF Promise!Heard
<1> QED  BY <1>1, <1>2 DEF Serves, Promise!Word, WarmWord, Hear, chain

LEMMA WarmResultServes ==
  ASSUME IInv, NEW p \in DOMAIN claude, WarmResult(p)
  PROVE  Serves
<1>1. p = proc /\ p # None /\ phase = "warm" /\ claude[p].of = at
  BY DEF WarmResult, IInv, TypeOK, Writer, None
<1>2. ASSUME Hear(p) PROVE Promise!Heard
  <2>1. voices' = voices \union {<<p, at>>} /\ voices \subseteq {<<p, at>>}
    BY <1>1, <1>2 DEF Hear, IInv, Voice
  <2>2. voices' = {<<p, at>>} /\ <<p, at>>[2] = at
    BY <2>1
  <2> QED  BY <2>1, <2>2 DEF Promise!Heard
<1>3. PICK err \in BOOLEAN, text \in BOOLEAN, a \in {"whole", "broken", "secours"} :
        Ends(p, err, text, a) /\ SettleWarm(a)
  BY DEF WarmResult
<1>4. /\ UNCHANGED <<asked, at, stopped, late>>
      /\ \/ voices # {} /\ voices' = voices /\ a \in {"whole", "broken"}
         \/ Promise!Heard /\ voices' # {} /\ a = "whole"
         \/ voices = {} /\ voices' = voices /\ a = "secours"
  BY <1>2, <1>3 DEF WarmResult, Ends, Hear, said, chain, IInv, Voice, Promise!Heard
<1>5. CASE a = "secours"
  BY <1>1, <1>3, <1>4, <1>5 DEF Serves, SettleWarm, Fallback, Promise!service
<1>6. CASE a # "secours"
  BY <1>1, <1>3, <1>4, <1>6 DEF Serves, SettleWarm, Settle, Promise!Answer
<1> QED  BY <1>5, <1>6

LEMMA ColdResultServes ==
  ASSUME IInv, NEW p \in DOMAIN claude, ColdResult(p)
  PROVE  Serves
<1>1. p = cold /\ p # None /\ phase = "cold" /\ claude[p].of = at
  BY DEF ColdResult, IInv, TypeOK, Writer, None
<1>2. ASSUME Hear(p) PROVE Promise!Heard
  <2>1. voices' = voices \union {<<p, at>>} /\ voices \subseteq {<<p, at>>}
    BY <1>1, <1>2 DEF Hear, IInv, Voice
  <2>2. voices' = {<<p, at>>} /\ <<p, at>>[2] = at
    BY <2>1
  <2> QED  BY <2>1, <2>2 DEF Promise!Heard
<1>3. PICK err \in BOOLEAN, text \in BOOLEAN, a \in {"whole", "broken", "secours"} :
        Ends(p, err, text, a) /\ Settle(a)
  BY DEF ColdResult, Done
<1>4. /\ UNCHANGED <<asked, at, stopped, late>>
      /\ \/ voices # {} /\ voices' = voices /\ a \in {"whole", "broken"}
         \/ Promise!Heard /\ voices' # {} /\ a = "whole"
         \/ voices = {} /\ voices' = voices /\ a = "secours"
  BY <1>2, <1>3 DEF ColdResult, Ends, Hear, said, chain, IInv, Voice, Promise!Heard
<1> QED  BY <1>1, <1>3, <1>4 DEF Serves, Settle, Promise!Answer

LEMMA ColdWordServes ==
  ASSUME IInv, NEW p \in DOMAIN claude, ColdWord(p)
  PROVE  Serves
<1>1. CASE p = cold
  <2>1. p # None /\ phase = "cold" /\ claude[p].of = at
    BY <1>1 DEF IInv, TypeOK, Writer, None
  <2>2. voices' = voices \union {<<p, at>>} /\ voices \subseteq {<<p, at>>}
    BY <1>1, <2>1 DEF ColdWord, Hear, IInv, Voice
  <2>3. voices' = {<<p, at>>} /\ <<p, at>>[2] = at
    BY <2>2
  <2>4. Promise!Heard
    BY <2>2, <2>3 DEF Promise!Heard
  <2> QED  BY <1>1, <2>1, <2>4 DEF Serves, Promise!Word, ColdWord, Hear, chain
<1>2. CASE p # cold
  <2>1. claude[p].of \in 1..at /\ (claude[p].of = at => phase = "free")
    BY <1>2 DEF ColdWord, IInv, Behind
  <2>2. late' = late \union {claude[p].of}
    BY <1>2 DEF ColdWord
  <2>3. Promise!Belated
    BY <1>2, <2>1, <2>2 DEF Promise!Belated, ColdWord, chain
  <2>4. stopped' = stopped
    BY DEF ColdWord, chain
  <2> QED  BY <2>3, <2>4 DEF Serves
<1> QED  BY <1>1, <1>2

LEMMA ColdInitServes ==
  ASSUME IInv, NEW p \in DOMAIN claude, ColdInit(p)
  PROVE  Serves
<1>1. p = cold => phase = "cold" /\ voices = {}
  BY DEF ColdInit, IInv, TypeOK, Writer, Voice, None
<1> QED  BY <1>1 DEF Serves, Promise!Answer, Promise!service, ColdInit, Settle, chain, said

LEMMA ColdExitServes ==
  ASSUME IInv, NEW p \in DOMAIN claude, ColdExit(p)
  PROVE  Serves
<1>1. phase = "cold"
  BY DEF ColdExit, IInv, TypeOK, Writer, None
<1>2. PICK c : Done(c, IF words THEN "whole" ELSE "secours")
  BY DEF ColdExit, GiveUpCold
<1> QED  BY <1>1, <1>2 DEF Serves, Promise!Answer, ColdExit, Done, Settle, chain, said, IInv, Voice

LEMMA ColdTimerServes ==
  ASSUME IInv, ColdTimer
  PROVE  Serves
<1>1. phase = "cold"
  BY DEF ColdTimer, IInv, TypeOK, Writer, None
<1>2. PICK c : Done(c, IF words THEN "whole" ELSE "secours")
  BY DEF ColdTimer, GiveUpCold
<1> QED  BY <1>1, <1>2 DEF Serves, Promise!Answer, ColdTimer, Done, Settle, chain, said, IInv, Voice

LEMMA AbortServes ==
  ASSUME IInv, NEW q \in 1..asked, Abort(q)
  PROVE  Serves
<1>1. UNCHANGED <<asked, stopped, at, words, voices, late>>
  BY DEF Abort, said
<1>2. \/ UNCHANGED <<phase, outcome>>
      \/ phase \in {"warm", "cold"} /\ phase' = "free" /\ outcome' = "cut"
  BY DEF Abort, Settle, Done
<1> QED  BY <1>1, <1>2 DEF Serves, Promise!Answer, Promise!service

LEMMA EveryStepServes == IInv /\ [Next]_vars => Serves
<1> SUFFICES ASSUME IInv, [Next]_vars PROVE Serves
  OBVIOUS
<1>1. CASE Ask
  BY <1>1, AskServes
<1>2. CASE Refuse
  BY <1>2, RefuseServes
<1>3. CASE AskWarm
  BY <1>3, AskWarmServes
<1>4. CASE Banned
  BY <1>4, BannedServes
<1>5. CASE AskCold
  BY <1>5, AskColdServes
<1>6. CASE WarmTimer
  BY <1>6, WarmTimerServes
<1>7. CASE ColdTimer
  BY <1>7, ColdTimerServes
<1>8. CASE Close
  BY <1>8, CloseServes
<1>9. ASSUME NEW p \in DOMAIN claude, WarmInit(p) PROVE Serves
  BY <1>9, WarmInitServes
<1>10. ASSUME NEW p \in DOMAIN claude, WarmWord(p) PROVE Serves
  BY <1>10, WarmWordServes
<1>11. ASSUME NEW p \in DOMAIN claude, WarmResult(p) PROVE Serves
  BY <1>11, WarmResultServes
<1>12. ASSUME NEW p \in DOMAIN claude, ColdInit(p) PROVE Serves
  BY <1>12, ColdInitServes
<1>13. ASSUME NEW p \in DOMAIN claude, ColdWord(p) PROVE Serves
  BY <1>13, ColdWordServes
<1>14. ASSUME NEW p \in DOMAIN claude, ColdResult(p) PROVE Serves
  BY <1>14, ColdResultServes
<1>15. ASSUME NEW p \in DOMAIN claude, WarmExit(p) PROVE Serves
  BY <1>15, WarmExitServes
<1>16. ASSUME NEW p \in DOMAIN claude, ColdExit(p) PROVE Serves
  BY <1>16, ColdExitServes
<1>17. ASSUME NEW p \in DOMAIN claude, Dies(p) PROVE Serves
  BY <1>17, DiesServes
<1>18. ASSUME NEW p \in DOMAIN claude, Gone(p) PROVE Serves
  BY <1>18, GoneServes
<1>19. ASSUME NEW q \in 1..asked, Abort(q) PROVE Serves
  BY <1>19, AbortServes
<1>20. CASE UNCHANGED vars
  BY <1>20 DEF Serves, vars, chain, said, Promise!service
<1> QED  BY <1>1, <1>2, <1>3, <1>4, <1>5, <1>6, <1>7, <1>8, <1>9, <1>10, <1>11, <1>12, <1>13,
    <1>14, <1>15, <1>16, <1>17, <1>18, <1>19, <1>20 DEF Next, Microtask, Line

(* The warm brain keeps its promise (warm/index.ts, "jamais de double-voix"): *)
(* one question at a time, one writer an answer, no apology after words,   *)
(* nobody left writing once it is closed, for any number of questions.     *)
THEOREM ImplementsDesk == Spec => OneDesk
<1>1. Init => Promise!Init
  BY DEF Init, Promise!Init, Writing
<1>2. IInv /\ IInv' /\ [Next]_vars => [Promise!Next]_Promise!vars
  <2> SUFFICES ASSUME IInv, IInv', [Next]_vars PROVE Promise!Next
    OBVIOUS
  <2>1. Serves
    BY EveryStepServes
  <2>2. stopped' => Writing' = {}
    BY DEF IInv, Alive, Writing
  <2> QED  BY <2>1, <2>2 DEF Serves, Promise!Next, Promise!Staffing
<1> QED  BY <1>1, <1>2, Invariance, PTL DEF OneDesk, Promise!Spec, Spec

-----------------------------------------------------------------------------
(***************************************************************************)
(* The Claude channel.  Neither NoOrphan nor RotationIsFinal is inductive. *)
(* The invariant adds what the code relies on without saying so: ids are   *)
(* fresh and those of the two callers differ (Within, Apart); while a      *)
(* conversation opens a new session the thread on record has no file       *)
(* (Opening), and its id is not retired unless the generation moved; a     *)
(* turn that resumes holds the thread on record, or one that a rotation    *)
(* left behind (Resumes).                                                  *)
(***************************************************************************)
\* Every id in use was drawn.
Within ==
  /\ row \in 0..minted
  /\ files \subseteq 1..minted
  /\ retired \subseteq 0..minted
  /\ \A c \in Callers : turn[c].on => turn[c].id \in 1..minted

\* The two callers never share a session, and the base is the mirror of memory.
Apart ==
  /\ up => current = row
  /\ turn["conversation"].on /\ turn["job"].on
       => turn["conversation"].id # turn["job"].id

\* A session being opened is not the thread on record.
Opening ==
  \A c \in Callers : turn[c].on /\ ~turn[c].resumed =>
    /\ turn[c].id # row
    /\ turn[c].gen <= generation
    /\ c = "conversation" => row \notin files
    /\ c = "conversation" /\ turn[c].gen = generation => turn[c].id \notin retired

\* A session being resumed is the thread on record, or was left by a rotation.
Resumes ==
  \A c \in Callers : turn[c].on /\ turn[c].resumed =>
    /\ c = "conversation"
    /\ \/ turn[c].id = row /\ turn[c].id \notin retired
       \/ row = NoId /\ turn[c].id \in leftover

\* A resumption that found no file still finds none.
Missed ==
  \A c \in Callers : turn[c].on /\ turn[c].result = "missing" =>
    turn[c].resumed /\ ~turn[c].init /\ turn[c].id \notin files

\* The thread on record is not a closed one.
Recorded == row \in files => row \notin retired

\* Each file has an owner.
Owned ==
  \A i \in files :
    \/ i = row
    \/ i \in handed
    \/ i \in leftover
    \/ \E c \in Callers : turn[c].on /\ turn[c].id = i

CInv ==
  /\ ChannelTypeOK
  /\ Within
  /\ Apart
  /\ Opening
  /\ Resumes
  /\ Missed
  /\ Recorded
  /\ Owned

LEMMA ChannelInitInv == ChannelInit => CInv
  BY DEF ChannelInit, CInv, ChannelTypeOK, Within, Apart, Opening, Resumes,
     Missed, Recorded, Owned, Turn, NoTurn, Callers, NoId

\* The sets of ids the end of a turn, of a conversation or of a process refers to.
LEMMA IdSets ==
  ASSUME CInv
  PROVE  /\ InFlight \subseteq Nat
         /\ Resuming \subseteq Nat
         /\ \A c \in Callers : turn[c].on => turn[c].id \in InFlight
         /\ \A c \in Callers : turn[c].on /\ turn[c].resumed => turn[c].id \in Resuming
         /\ up => Retiring \subseteq 0..minted
         /\ Retiring \subseteq Nat
  <1>1. \A c \in Callers : turn[c].id \in Nat
    BY DEF CInv, ChannelTypeOK, Turn
  <1> QED BY <1>1 DEF CInv, Within, Apart, ChannelTypeOK, InFlight, Resuming,
     Retiring, Callers

\* The record of a turn that opens a session of its own, and of one that
\* resumes the thread of the conversation.
Opened  == Begun(minted + 1, FALSE)
Resumed == Begun(current, TRUE)

\* A session is opened while the thread on record has no file.
LEMMA OpenInv ==
  ASSUME CInv, NEW c \in Callers,
         c = "conversation" => row \notin files,
         c = "conversation" /\ turn[c].on => turn[c].id \notin files,
         c = "job" => ~turn[c].on,
         turn' = [turn EXCEPT ![c] = Opened],
         minted' = minted + 1,
         UNCHANGED <<up, row, current, generation, files, handed, retired, leftover>>
  PROVE  CInv'
  <1> USE DEF CInv, Callers, NoId
  <1>a. /\ Opened \in Turn /\ Opened.on /\ ~Opened.resumed /\ ~Opened.init
        /\ Opened.id = minted + 1 /\ Opened.gen = generation
        /\ Opened.result = "none"
    BY DEF ChannelTypeOK, Opened, Begun, Turn
  <1>b. /\ turn'[c] = Opened
         /\ \A d \in Callers : d # c => turn'[d] = turn[d]
    BY DEF ChannelTypeOK
  <1> HIDE DEF Opened
  <1>1. ChannelTypeOK'
    BY <1>a, <1>b DEF ChannelTypeOK, Within, Turn
  <1> USE DEF ChannelTypeOK, Within, Apart, Opening, Resumes, Missed, Recorded,
     Owned
  <1>2. Within'
    BY <1>a, <1>b
  <1>3. Apart'
    BY <1>a, <1>b
  <1>4. Opening'
    BY <1>a, <1>b
  <1>5. Resumes'
    BY <1>a, <1>b
  <1>6. Missed'
    BY <1>a, <1>b
  <1>7. Recorded'
    BY <1>a, <1>b
  <1>8. Owned'
    BY <1>a, <1>b
  <1> QED BY <1>1, <1>2, <1>3, <1>4, <1>5, <1>6, <1>7, <1>8

\* The thread on record is resumed.
LEMMA ResumeInv ==
  ASSUME CInv, up, isResumable(current), ~turn["conversation"].on,
         turn' = [turn EXCEPT !["conversation"] = Resumed],
         UNCHANGED <<up, row, current, generation, files, minted, handed, retired,
                     leftover>>
  PROVE  CInv'
  <1> USE DEF CInv, Callers, NoId
  <1>a. /\ Resumed \in Turn /\ Resumed.on /\ Resumed.resumed
        /\ Resumed.id = current /\ Resumed.result = "none"
    BY DEF ChannelTypeOK, Resumed, Begun, Turn
  <1>b. /\ turn'["conversation"] = Resumed
         /\ turn'["job"] = turn["job"]
         /\ current = row /\ row \in files /\ row \notin retired
    BY DEF ChannelTypeOK, Apart, Recorded, isResumable
  <1> HIDE DEF Resumed
  <1>1. ChannelTypeOK'
    BY <1>a, <1>b DEF ChannelTypeOK, Within, Turn
  <1> USE DEF ChannelTypeOK, Within, Apart, Opening, Resumes, Missed, Recorded,
     Owned
  <1>2. Within'
    BY <1>a, <1>b
  <1>3. Apart'
    BY <1>a, <1>b
  <1>4. Opening'
    BY <1>a, <1>b
  <1>5. Resumes'
    BY <1>a, <1>b
  <1>6. Missed'
    BY <1>a, <1>b
  <1>7. Recorded'
    BY <1>a, <1>b
  <1>8. Owned'
    BY <1>a, <1>b
  <1> QED BY <1>1, <1>2, <1>3, <1>4, <1>5, <1>6, <1>7, <1>8

\* An invocation opens a session, or resumes the thread on record.
LEMMA InvokeInv ==
  ASSUME CInv, NEW c \in Callers, invoke(c)
  PROVE  CInv'
  <1>1. CASE c = "conversation" /\ isResumable(current)
    <2>1. turn' = [turn EXCEPT !["conversation"] = Resumed] /\ minted' = minted
      BY <1>1 DEF invoke, invokeOnce, Resumed
    <2> QED BY <1>1, <2>1, ResumeInv DEF invoke
  <1>2. CASE ~(c = "conversation" /\ isResumable(current))
    <2>1. turn' = [turn EXCEPT ![c] = Opened] /\ minted' = minted + 1
      BY <1>2 DEF invoke, invokeOnce, Opened
    <2>2. c = "conversation" => row \notin files
      BY <1>2 DEF invoke, CInv, Apart, Within, isResumable, NoId
    <2> QED BY <2>1, <2>2, OpenInv DEF invoke, Callers
  <1> QED BY <1>1, <1>2

\* A process writes its session file.
LEMMA WritesInv ==
  ASSUME CInv, NEW c \in Callers, Writes(c)
  PROVE  CInv'
  <1> USE DEF CInv, Callers, NoId
  <1>1. ChannelTypeOK'
    BY DEF ChannelTypeOK, Within, Turn, NoTurn, Writes, Process
  <1> USE DEF ChannelTypeOK, Within, Apart, Opening, Resumes, Missed, Recorded,
     Owned, Turn, NoTurn, Writes, Process
  <1>2. Within'
    OBVIOUS
  <1>3. Apart'
    OBVIOUS
  <1>4. Opening'
    OBVIOUS
  <1>5. Resumes'
    OBVIOUS
  <1>6. Missed'
    OBVIOUS
  <1>7. Recorded'
    OBVIOUS
  <1>8. Owned'
    OBVIOUS
  <1> QED BY <1>1, <1>2, <1>3, <1>4, <1>5, <1>6, <1>7, <1>8

\* The line `init` is read.
LEMMA InitLineInv ==
  ASSUME CInv, NEW c \in Callers, onInit(c)
  PROVE  CInv'
  <1> USE DEF CInv, Callers, NoId
  <1>a. PICK r \in Turn :
          /\ turn' = [turn EXCEPT ![c] = r]
          /\ r.on = turn[c].on /\ r.id = turn[c].id /\ r.resumed = turn[c].resumed
          /\ r.gen = turn[c].gen /\ r.result = turn[c].result
    <2>1. PICK why \in {"no", "timeout", "abort", "a1"} :
            turn' = [turn EXCEPT ![c] =
              [turn[c] EXCEPT !.init = TRUE, !.killed = why]]
      BY DEF onInit, ChannelTypeOK, Turn
    <2>2. [turn[c] EXCEPT !.init = TRUE, !.killed = why] \in Turn
      BY DEF ChannelTypeOK, Turn
    <2> QED BY <2>1, <2>2 DEF ChannelTypeOK, Turn
  <1>b. /\ turn'[c] = r
         /\ \A d \in Callers : d # c => turn'[d] = turn[d]
         /\ turn[c].result = "none"
         /\ UNCHANGED <<up, row, current, generation, files, minted, handed,
                        retired, leftover>>
    BY <1>a DEF ChannelTypeOK, onInit, Process
  <1>1. ChannelTypeOK'
    BY <1>a, <1>b DEF ChannelTypeOK, Within, Turn
  <1> USE DEF ChannelTypeOK, Within, Apart, Opening, Resumes, Missed, Recorded,
     Owned
  <1>2. Within'
    BY <1>a, <1>b
  <1>3. Apart'
    BY <1>a, <1>b
  <1>4. Opening'
    BY <1>a, <1>b
  <1>5. Resumes'
    BY <1>a, <1>b
  <1>6. Missed'
    BY <1>a, <1>b
  <1>7. Recorded'
    BY <1>a, <1>b
  <1>8. Owned'
    BY <1>a, <1>b
  <1> QED BY <1>1, <1>2, <1>3, <1>4, <1>5, <1>6, <1>7, <1>8

\* The line `result` is read.
LEMMA ResultInv ==
  ASSUME CInv, NEW c \in Callers, onResult(c)
  PROVE  CInv'
  <1> USE DEF CInv, Callers, NoId
  <1>1. ChannelTypeOK'
    BY DEF ChannelTypeOK, Within, Turn, NoTurn, onResult, Process
  <1> USE DEF ChannelTypeOK, Within, Apart, Opening, Resumes, Missed, Recorded,
     Owned, Turn, NoTurn, onResult, Process
  <1>2. Within'
    OBVIOUS
  <1>3. Apart'
    OBVIOUS
  <1>4. Opening'
    OBVIOUS
  <1>5. Resumes'
    OBVIOUS
  <1>6. Missed'
    OBVIOUS
  <1>7. Recorded'
    OBVIOUS
  <1>8. Owned'
    OBVIOUS
  <1> QED BY <1>1, <1>2, <1>3, <1>4, <1>5, <1>6, <1>7, <1>8

\* The file of a resumption is not there.
LEMMA MissingInv ==
  ASSUME CInv, NEW c \in Callers, Missing(c)
  PROVE  CInv'
  <1> USE DEF CInv, Callers, NoId
  <1>1. ChannelTypeOK'
    BY DEF ChannelTypeOK, Within, Turn, NoTurn, Missing, Process
  <1> USE DEF ChannelTypeOK, Within, Apart, Opening, Resumes, Missed, Recorded,
     Owned, Turn, NoTurn, Missing, Process
  <1>2. Within'
    OBVIOUS
  <1>3. Apart'
    OBVIOUS
  <1>4. Opening'
    OBVIOUS
  <1>5. Resumes'
    OBVIOUS
  <1>6. Missed'
    OBVIOUS
  <1>7. Recorded'
    OBVIOUS
  <1>8. Owned'
    OBVIOUS
  <1> QED BY <1>1, <1>2, <1>3, <1>4, <1>5, <1>6, <1>7, <1>8

\* The deadline kills a turn.
LEMMA TimeoutInv ==
  ASSUME CInv, NEW c \in Callers, Timeout(c)
  PROVE  CInv'
  <1> USE DEF CInv, Callers, NoId
  <1>1. ChannelTypeOK'
    BY DEF ChannelTypeOK, Within, Turn, NoTurn, Timeout, Kill, Process
  <1> USE DEF ChannelTypeOK, Within, Apart, Opening, Resumes, Missed, Recorded,
     Owned, Turn, NoTurn, Timeout, Kill, Process
  <1>2. Within'
    OBVIOUS
  <1>3. Apart'
    OBVIOUS
  <1>4. Opening'
    OBVIOUS
  <1>5. Resumes'
    OBVIOUS
  <1>6. Missed'
    OBVIOUS
  <1>7. Recorded'
    OBVIOUS
  <1>8. Owned'
    OBVIOUS
  <1> QED BY <1>1, <1>2, <1>3, <1>4, <1>5, <1>6, <1>7, <1>8

\* The caller gives a turn up.
LEMMA AbortInv ==
  ASSUME CInv, NEW c \in Callers, onAbort(c)
  PROVE  CInv'
  <1> USE DEF CInv, Callers, NoId
  <1>1. ChannelTypeOK'
    BY DEF ChannelTypeOK, Within, Turn, NoTurn, onAbort, Kill, Process
  <1> USE DEF ChannelTypeOK, Within, Apart, Opening, Resumes, Missed, Recorded,
     Owned, Turn, NoTurn, onAbort, Kill, Process
  <1>2. Within'
    OBVIOUS
  <1>3. Apart'
    OBVIOUS
  <1>4. Opening'
    OBVIOUS
  <1>5. Resumes'
    OBVIOUS
  <1>6. Missed'
    OBVIOUS
  <1>7. Recorded'
    OBVIOUS
  <1>8. Owned'
    OBVIOUS
  <1> QED BY <1>1, <1>2, <1>3, <1>4, <1>5, <1>6, <1>7, <1>8

\* A turn is over: its file, if it had begun one, is owned or gone.
LEMMA OverInv ==
  ASSUME CInv, NEW c \in Callers, turn[c].on, up,
         turn' = [turn EXCEPT ![c] = NoTurn],
         files' \subseteq files,
         handed \subseteq handed', handed' \subseteq Nat,
         turn[c].id \in files' =>
           turn[c].id = row' \/ turn[c].id \in leftover \/ turn[c].id \in handed',
         current' = row',
         row' = row \/ /\ row' = turn[c].id
                       /\ ~turn[c].resumed
                       /\ c = "conversation"
                       /\ turn[c].gen = generation,
         UNCHANGED <<up, generation, minted, retired, leftover>>
  PROVE  CInv'
  <1> USE DEF CInv, Callers, NoId
  <1>a. NoTurn \in Turn /\ ~NoTurn.on
    BY DEF NoTurn, Turn
  <1>b. /\ turn'[c] = NoTurn
         /\ \A d \in Callers : d # c => turn'[d] = turn[d]
    BY DEF ChannelTypeOK
  <1>1. ChannelTypeOK'
    BY <1>a, <1>b DEF ChannelTypeOK, Within, Turn
  <1> USE DEF ChannelTypeOK, Within, Apart, Opening, Resumes, Missed, Recorded,
     Owned
  <1>2. Within'
    BY <1>a, <1>b
  <1>3. Apart'
    BY <1>a, <1>b
  <1>4. Opening'
    BY <1>a, <1>b
  <1>5. Resumes'
    BY <1>a, <1>b
  <1>6. Missed'
    BY <1>a, <1>b
  <1>7. Recorded'
    BY <1>a, <1>b
  <1>8. Owned'
    BY <1>a, <1>b
  <1> QED BY <1>1, <1>2, <1>3, <1>4, <1>5, <1>6, <1>7, <1>8

\* The process ends by 'close': a resumption that found no file opens a
\* session, every other turn is over.
LEMMA CloseInv ==
  ASSUME CInv, NEW c \in Callers, onClose(c)
  PROVE  CInv'
  <1>1. CASE turn[c].result = "missing" /\ turn[c].killed = "no"
    <2>1. /\ turn[c].on
          /\ turn[c].resumed
          /\ c = "conversation"
          /\ turn[c].id \notin files
          /\ turn[c].id = row \/ row = NoId
      BY <1>1 DEF onClose, CInv, Missed, Resumes, Callers
    <2>2. row \notin files
      BY <2>1 DEF CInv, Within, NoId
    <2>3. UNCHANGED <<up, row, current, generation, files, handed, retired, leftover>>
      BY <1>1, <2>1 DEF onClose, settleFreshThread
    <2>4. turn' = [turn EXCEPT ![c] = Opened] /\ minted' = minted + 1
      BY <1>1, <2>3 DEF onClose, invokeOnce, Opened
    <2> QED BY <2>1, <2>2, <2>3, <2>4, OpenInv DEF Callers
  <1>2. CASE ~(turn[c].result = "missing" /\ turn[c].killed = "no")
    <2>1. /\ turn[c].on /\ up
          /\ turn' = [turn EXCEPT ![c] = NoTurn]
          /\ UNCHANGED <<up, generation, minted, retired, leftover>>
      BY <1>2 DEF onClose
    <2>2. handed \subseteq handed' /\ handed' \subseteq Nat
      BY DEF onClose, CInv, ChannelTypeOK, Turn
    <2>3. CASE turn[c].resumed
      BY <2>1, <2>2, <2>3, OverInv DEF onClose, settleFreshThread, CInv,
         Resumes, Apart
    <2>4. CASE ~turn[c].resumed /\ Keeps(c, TRUE)
      BY <2>1, <2>2, <2>4, OverInv DEF onClose, settleFreshThread, Keeps,
         persistSessionId
    <2>5. CASE ~turn[c].resumed /\ ~Keeps(c, TRUE)
      <3>1. UNCHANGED <<current, row>> /\ current = row
        BY <2>1, <2>5 DEF onClose, settleFreshThread, CInv, Apart
      <3>2. CASE c = "job" /\ Resolved(c)
        BY <2>1, <2>2, <2>5, <3>1, <3>2, OverInv DEF onClose, settleFreshThread
      <3>3. CASE ~(c = "job" /\ Resolved(c))
        <4>1. files' = files \ {turn[c].id}
          BY <2>5, <3>3 DEF onClose, settleFreshThread, purgeSessionFile
        <4> QED BY <2>1, <2>2, <3>1, <4>1, OverInv
      <3> QED BY <3>2, <3>3
    <2> QED BY <2>3, <2>4, <2>5
  <1> QED BY <1>1, <1>2

\* The process ends by 'error': nothing fresh stays.
LEMMA ErrorInv ==
  ASSUME CInv, NEW c \in Callers, onError(c)
  PROVE  CInv'
  <1>1. /\ turn[c].on /\ up
        /\ turn' = [turn EXCEPT ![c] = NoTurn]
        /\ UNCHANGED <<up, generation, minted, retired, leftover, handed>>
        /\ handed \subseteq Nat
        /\ current = row
    BY DEF onError, CInv, ChannelTypeOK, Apart
  <1>2. UNCHANGED <<current, row>>
    BY DEF onError, settleFreshThread, Keeps
  <1>3. CASE turn[c].resumed
    BY <1>1, <1>2, <1>3, OverInv DEF onError, settleFreshThread, CInv, Resumes
  <1>4. CASE ~turn[c].resumed
    <2>1. files' = files \ {turn[c].id}
      BY <1>4 DEF onError, settleFreshThread, Keeps, purgeSessionFile
    <2> QED BY <1>1, <1>2, <2>1, OverInv
  <1> QED BY <1>3, <1>4

\* The conversation is closed.
LEMMA RotateInv ==
  ASSUME CInv, rotate
  PROVE  CInv'
  <1> USE DEF CInv, Callers, NoId
  <1>a. /\ InFlight \subseteq Nat /\ Resuming \subseteq Nat /\ Retiring \subseteq Nat
        /\ \A c \in Callers : turn[c].on => turn[c].id \in InFlight
        /\ \A c \in Callers : turn[c].on /\ turn[c].resumed => turn[c].id \in Resuming
        /\ up => Retiring \subseteq 0..minted
    BY IdSets
  <1>1. ChannelTypeOK'
    BY <1>a DEF ChannelTypeOK, Within, Turn, NoTurn, rotate, persistSessionId,
       purgeSessionFile
  <1> USE DEF ChannelTypeOK, Within, Apart, Opening, Resumes, Missed, Recorded,
     Owned, Turn, NoTurn, rotate, persistSessionId, purgeSessionFile
  <1>2. Within'
    BY <1>a
  <1>3. Apart'
    BY <1>a
  <1>4. Opening'
    BY <1>a
  <1>5. Resumes'
    BY <1>a
  <1>6. Missed'
    BY <1>a
  <1>7. Recorded'
    BY <1>a
  <1>8. Owned'
    BY <1>a
  <1> QED BY <1>1, <1>2, <1>3, <1>4, <1>5, <1>6, <1>7, <1>8

\* Every turn in flight is killed.
LEMMA StopInv ==
  ASSUME CInv, stopChannel
  PROVE  CInv'
  <1> USE DEF CInv, Callers, NoId
  <1>1. ChannelTypeOK'
    BY DEF ChannelTypeOK, Within, Turn, NoTurn, stopChannel
  <1> USE DEF ChannelTypeOK, Within, Apart, Opening, Resumes, Missed, Recorded,
     Owned, Turn, NoTurn, stopChannel
  <1>2. Within'
    OBVIOUS
  <1>3. Apart'
    OBVIOUS
  <1>4. Opening'
    OBVIOUS
  <1>5. Resumes'
    OBVIOUS
  <1>6. Missed'
    OBVIOUS
  <1>7. Recorded'
    OBVIOUS
  <1>8. Owned'
    OBVIOUS
  <1> QED BY <1>1, <1>2, <1>3, <1>4, <1>5, <1>6, <1>7, <1>8

\* The process ends.
LEMMA EndInv ==
  ASSUME CInv, EndOfLife
  PROVE  CInv'
  <1> USE DEF CInv, Callers, NoId
  <1>a. /\ InFlight \subseteq Nat /\ Resuming \subseteq Nat /\ Retiring \subseteq Nat
        /\ \A c \in Callers : turn[c].on => turn[c].id \in InFlight
        /\ \A c \in Callers : turn[c].on /\ turn[c].resumed => turn[c].id \in Resuming
        /\ up => Retiring \subseteq 0..minted
    BY IdSets
  <1>1. ChannelTypeOK'
    BY <1>a DEF ChannelTypeOK, Within, Turn, NoTurn, EndOfLife, Lost
  <1> USE DEF ChannelTypeOK, Within, Apart, Opening, Resumes, Missed, Recorded,
     Owned, Turn, NoTurn, EndOfLife, Lost
  <1>2. Within'
    BY <1>a
  <1>3. Apart'
    BY <1>a
  <1>4. Opening'
    BY <1>a
  <1>5. Resumes'
    BY <1>a
  <1>6. Missed'
    BY <1>a
  <1>7. Recorded'
    BY <1>a
  <1>8. Owned'
    BY <1>a
  <1> QED BY <1>1, <1>2, <1>3, <1>4, <1>5, <1>6, <1>7, <1>8

\* The process ends inside a rotation.
LEMMA CutInv ==
  ASSUME CInv, RotateCut
  PROVE  CInv'
  <1> USE DEF CInv, Callers, NoId
  <1>a. /\ InFlight \subseteq Nat /\ Resuming \subseteq Nat /\ Retiring \subseteq Nat
        /\ \A c \in Callers : turn[c].on => turn[c].id \in InFlight
        /\ \A c \in Callers : turn[c].on /\ turn[c].resumed => turn[c].id \in Resuming
        /\ up => Retiring \subseteq 0..minted
    BY IdSets
  <1>1. ChannelTypeOK'
    BY <1>a DEF ChannelTypeOK, Within, Turn, NoTurn, RotateCut, Lost,
       purgeSessionFile
  <1> USE DEF ChannelTypeOK, Within, Apart, Opening, Resumes, Missed, Recorded,
     Owned, Turn, NoTurn, RotateCut, Lost, purgeSessionFile
  <1>2. Within'
    BY <1>a
  <1>3. Apart'
    BY <1>a
  <1>4. Opening'
    BY <1>a
  <1>5. Resumes'
    BY <1>a
  <1>6. Missed'
    BY <1>a
  <1>7. Recorded'
    BY <1>a
  <1>8. Owned'
    BY <1>a
  <1> QED BY <1>1, <1>2, <1>3, <1>4, <1>5, <1>6, <1>7, <1>8

\* The thread is read back.
LEMMA BootInv ==
  ASSUME CInv, Boot
  PROVE  CInv'
  <1> USE DEF CInv, Callers, NoId
  <1>1. ChannelTypeOK'
    BY DEF ChannelTypeOK, Within, Turn, NoTurn, Boot
  <1> USE DEF ChannelTypeOK, Within, Apart, Opening, Resumes, Missed, Recorded,
     Owned, Turn, NoTurn, Boot
  <1>2. Within'
    OBVIOUS
  <1>3. Apart'
    OBVIOUS
  <1>4. Opening'
    OBVIOUS
  <1>5. Resumes'
    OBVIOUS
  <1>6. Missed'
    OBVIOUS
  <1>7. Recorded'
    OBVIOUS
  <1>8. Owned'
    OBVIOUS
  <1> QED BY <1>1, <1>2, <1>3, <1>4, <1>5, <1>6, <1>7, <1>8

\* A job purges what it was handed.
LEMMA PurgeInv ==
  ASSUME CInv, NEW id \in handed, CallerPurges(id)
  PROVE  CInv'
  <1> USE DEF CInv, Callers, NoId
  <1>1. ChannelTypeOK'
    BY DEF ChannelTypeOK, Within, Turn, NoTurn, CallerPurges, purgeSessionFile
  <1> USE DEF ChannelTypeOK, Within, Apart, Opening, Resumes, Missed, Recorded,
     Owned, Turn, NoTurn, CallerPurges, purgeSessionFile
  <1>2. Within'
    OBVIOUS
  <1>3. Apart'
    OBVIOUS
  <1>4. Opening'
    OBVIOUS
  <1>5. Resumes'
    OBVIOUS
  <1>6. Missed'
    OBVIOUS
  <1>7. Recorded'
    OBVIOUS
  <1>8. Owned'
    OBVIOUS
  <1> QED BY <1>1, <1>2, <1>3, <1>4, <1>5, <1>6, <1>7, <1>8

\* The file of the thread disappears.
LEMMA VanishInv ==
  ASSUME CInv, FileVanishes
  PROVE  CInv'
  <1> USE DEF CInv, Callers, NoId
  <1>1. ChannelTypeOK'
    BY DEF ChannelTypeOK, Within, Turn, NoTurn, FileVanishes
  <1> USE DEF ChannelTypeOK, Within, Apart, Opening, Resumes, Missed, Recorded,
     Owned, Turn, NoTurn, FileVanishes
  <1>2. Within'
    OBVIOUS
  <1>3. Apart'
    OBVIOUS
  <1>4. Opening'
    OBVIOUS
  <1>5. Resumes'
    OBVIOUS
  <1>6. Missed'
    OBVIOUS
  <1>7. Recorded'
    OBVIOUS
  <1>8. Owned'
    OBVIOUS
  <1> QED BY <1>1, <1>2, <1>3, <1>4, <1>5, <1>6, <1>7, <1>8

THEOREM ClaudeInvariance == ChannelSpec => []CInv
  <1>1. CInv /\ [ChannelNext]_channelVars => CInv'
    <2>1. CInv /\ UNCHANGED channelVars => CInv'
      BY DEF CInv, ChannelTypeOK, Within, Apart, Opening, Resumes, Missed,
         Recorded, Owned, channelVars
    <2>2. CInv /\ ChannelNext => CInv'
      BY InvokeInv, WritesInv, InitLineInv, ResultInv, MissingInv, TimeoutInv,
         AbortInv, CloseInv, ErrorInv, RotateInv, StopInv, EndInv, CutInv,
         BootInv, PurgeInv, VanishInv DEF ChannelNext, TurnEnds
    <2> QED BY <2>1, <2>2
  <1> QED BY ChannelInitInv, <1>1, PTL DEF ChannelSpec

\* Every variable keeps to its type: ids, generations and the record of a turn.
THEOREM ClaudeTypeCorrect == ChannelSpec => []ChannelTypeOK
  <1>1. CInv => ChannelTypeOK
    BY DEF CInv
  <1> QED BY <1>1, ClaudeInvariance, PTL

\* Whatever ended the turns, each session file belongs to the thread on record,
\* a turn in flight or a job that was handed its id (F-99-2; index.ts:326-351).
THEOREM FilesOwned == ChannelSpec => []NoOrphan
  <1>1. CInv => NoOrphan
    BY DEF CInv, Owned, NoOrphan, InFlight
  <1> QED BY <1>1, ClaudeInvariance, PTL

\* A closed conversation is never the thread the next turn resumes (m2, m3).
THEOREM ClosedForGood == ChannelSpec => []RotationIsFinal
  <1>1. CInv => RotationIsFinal
    BY DEF CInv, Apart, Recorded, RotationIsFinal, isResumable
  <1> QED BY <1>1, ClaudeInvariance, PTL
================================================================================
