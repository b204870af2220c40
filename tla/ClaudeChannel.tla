---------------------------- MODULE ClaudeChannel ----------------------------
(***************************************************************************)
(* The Claude channel (src/src/orchestrator/claude/index.ts).              *)
(*                                                                         *)
(* Every turn is one process of the command-line client, which keeps the   *)
(* verbatim of its session in a file named by an id the channel chose.     *)
(* The conversation (durable turns) resumes the thread the base records;   *)
(* an autonomous job (durable: false) gets a session of its own, which it  *)
(* purges itself once it was handed the id.  What can go wrong is a file   *)
(* of verbatim nobody will ever delete, and a thread the user closed that  *)
(* comes back through a turn that was in flight.                           *)
(*                                                                         *)
(* A turn is its process: the lines it prints (init, result) are read one  *)
(* by one, also after a kill, until 'close' or 'error' ends it.            *)
(*                                                                         *)
(* Abstractions: ids are numbers in the order they are drawn; the texts,   *)
(* the deltas, the throttle, the arguments and the audit are left out.     *)
(* The update of the base succeeds; secours_tainted, which nothing in the  *)
(* repository sets, is 0; a process whose orchestrator died, or for which  *)
(* 'error' was emitted, writes no more; the conversation asks one question *)
(* at a time.                                                              *)
(***************************************************************************)
EXTENDS Naturals, FiniteSets

CONSTANTS
  MaxIds,        \* bound: session ids drawn in a behaviour
  MaxRotations   \* bound: rotations in the life of a process

ASSUME ConstantsAssumption == MaxIds \in Nat /\ MaxRotations \in Nat

VARIABLES
  up,          \* is the orchestrator process alive
  row,         \* session_state.claude_session_id on disk
  current,     \* this.currentId
  generation,  \* this.generation
  files,       \* the ids whose session file is on disk
  minted,      \* the last id drawn
  turn,        \* the invocation in flight of each caller
  handed,      \* ids returned to a job that has not purged them yet
  retired,     \* ids of the conversations a rotation closed
  leftover     \* ids whose turn was cut by a crash, or by the rotation of the
               \* thread it was resuming: the channel cannot purge after them

channelVars == <<up, row, current, generation, files, minted, turn, handed, retired,
                 leftover>>

NoId    == 0
Callers == {"conversation", "job"}
Turn    == [on : BOOLEAN, id : Nat, resumed : BOOLEAN, gen : Nat,
            init : BOOLEAN, result : {"none", "ok", "missing"},
            killed : {"no", "timeout", "abort", "a1"}]
NoTurn  == [on |-> FALSE, id |-> NoId, resumed |-> FALSE, gen |-> 0,
            init |-> FALSE, result |-> "none", killed |-> "no"]

InFlight == {turn[c].id : c \in {d \in Callers : turn[d].on}}
Resuming == {turn[c].id : c \in {d \in Callers : turn[d].on /\ turn[d].resumed}}

ChannelTypeOK ==
  /\ up \in BOOLEAN
  /\ row \in Nat
  /\ current \in Nat
  /\ generation \in Nat
  /\ files \subseteq Nat
  /\ minted \in Nat
  /\ turn \in [Callers -> Turn]
  /\ handed \subseteq Nat
  /\ retired \subseteq Nat
  /\ leftover \subseteq Nat

ChannelInit ==
  /\ up = TRUE
  /\ row = NoId
  /\ current = NoId
  /\ generation = 0
  /\ files = {}
  /\ minted = 0
  /\ turn = [c \in Callers |-> NoTurn]
  /\ handed = {}
  /\ retired = {}
  /\ leftover = {}

-----------------------------------------------------------------------------
(* A turn begins.                                                          *)

isResumable(id) == id # NoId /\ id \in files

\* The bound on ids keeps one for the fresh retry of a resumption.
Room == minted + Cardinality(Resuming) < MaxIds

\* A turn whose process was just spawned; the generation is read here.
Begun(id, resumed) ==
  [on |-> TRUE, id |-> id, resumed |-> resumed, gen |-> generation,
   init |-> FALSE, result |-> "none", killed |-> "no"]

\* invokeOnce: resume the thread of the conversation if its file is there,
\* else open a fresh session.
invokeOnce(c, resume) ==
  IF c = "conversation" /\ resume /\ isResumable(current)
  THEN /\ turn' = [turn EXCEPT ![c] = Begun(current, TRUE)]
       /\ UNCHANGED minted
  ELSE /\ turn' = [turn EXCEPT ![c] = Begun(minted + 1, FALSE)]
       /\ minted' = minted + 1

invoke(c) ==
  /\ up
  /\ ~turn[c].on
  /\ Room
  /\ invokeOnce(c, TRUE)
  /\ UNCHANGED <<up, row, current, generation, files, handed, retired, leftover>>

-----------------------------------------------------------------------------
(* What its process does, and what the channel reads of it.                *)

Process(c) ==
  /\ up
  /\ turn[c].on
  /\ UNCHANGED <<up, row, current, generation, minted, handed, retired, leftover>>

\* The session file is written: a new one at any time, a resumed one once the
\* client has loaded it (it rewrites a file that was purged meanwhile).
Writes(c) ==
  /\ Process(c)
  /\ turn[c].resumed => turn[c].init
  /\ files' = files \cup {turn[c].id}
  /\ UNCHANGED turn

\* onInit: the session exists.  An authentication that is not OAuth kills the
\* turn, unless it was killed for another reason already.
onInit(c) ==
  /\ Process(c)
  /\ ~turn[c].init
  /\ turn[c].result = "none"
  /\ turn[c].resumed => turn[c].id \in files
  /\ \E paid \in BOOLEAN :
       turn' = [turn EXCEPT ![c] =
         [@ EXCEPT !.init = TRUE,
                   !.killed = IF paid /\ turn[c].killed = "no" THEN "a1"
                              ELSE turn[c].killed]]
  /\ UNCHANGED files

\* onResult, of a turn or of a client that stopped at once on an error.
onResult(c) ==
  /\ Process(c)
  /\ turn[c].result = "none"
  /\ turn' = [turn EXCEPT ![c] = [@ EXCEPT !.result = "ok"]]
  /\ UNCHANGED files

\* The file went between isResumable and the client: "no conversation found".
Missing(c) ==
  /\ Process(c)
  /\ turn[c].resumed
  /\ ~turn[c].init
  /\ turn[c].result = "none"
  /\ turn[c].id \notin files
  /\ turn' = [turn EXCEPT ![c] = [@ EXCEPT !.result = "missing"]]
  /\ UNCHANGED files

\* The first cause of a kill is kept.
Kill(c, why) ==
  turn' = [turn EXCEPT ![c] = [@ EXCEPT !.killed = why]]

\* Bug: the deadline is dropped once the client has answered.
TimeoutUntilInit(c) ==
  /\ Process(c)
  /\ turn[c].killed = "no"
  /\ ~turn[c].init
  /\ Kill(c, "timeout")
  /\ UNCHANGED files

\* The deadline of the turn.
Timeout(c) ==
  /\ Process(c)
  /\ turn[c].killed = "no"
  /\ Kill(c, "timeout")
  /\ UNCHANGED files

\* The signal of the caller.
onAbort(c) ==
  /\ Process(c)
  /\ turn[c].killed = "no"
  /\ Kill(c, "abort")
  /\ UNCHANGED files

-----------------------------------------------------------------------------
(* A turn ends.                                                            *)

\* purgeSessionFile and persistSessionId.
purgeSessionFile(id) == files' = files \ {id}
persistSessionId(id) == current' = id /\ row' = id

\* invoke resolves: the caller of a job is handed its id.
Resolved(c) == turn[c].killed = "no" /\ turn[c].result # "none"

\* Bug: the generation is not compared (before m2).
KeepsAnyGeneration(c, cleanClose) ==
  /\ c = "conversation"
  /\ cleanClose
  /\ turn[c].init
  /\ turn[c].result # "none"
  /\ turn[c].killed # "a1"

\* A fresh durable turn that came to its result, even if a late kill fell on
\* it, becomes the thread of the conversation; never after a rotation, never
\* when the provider is a paid one.
Keeps(c, cleanClose) ==
  /\ c = "conversation"
  /\ cleanClose
  /\ turn[c].init
  /\ turn[c].result # "none"
  /\ turn[c].killed # "a1"
  /\ turn[c].gen = generation

\* settleFreshThread: a resumed thread is left alone, a fresh one is kept,
\* handed to its caller, or purged.
settleFreshThread(c, cleanClose) ==
  IF turn[c].resumed THEN UNCHANGED <<files, current, row>>
  ELSE IF Keeps(c, cleanClose)
       THEN persistSessionId(turn[c].id) /\ UNCHANGED files
       ELSE /\ IF c = "job" /\ cleanClose /\ Resolved(c)
               THEN UNCHANGED files
               ELSE purgeSessionFile(turn[c].id)
            /\ UNCHANGED <<current, row>>

\* 'close': settle the thread; a resumption that found no file is tried once
\* more at once, in a fresh session.
onClose(c) ==
  /\ up
  /\ turn[c].on
  /\ settleFreshThread(c, TRUE)
  /\ handed' = IF c = "job" /\ Resolved(c) THEN handed \cup {turn[c].id} ELSE handed
  /\ IF turn[c].result = "missing" /\ turn[c].killed = "no"
     THEN invokeOnce(c, FALSE)
     ELSE /\ turn' = [turn EXCEPT ![c] = NoTurn]
          /\ UNCHANGED minted
  /\ UNCHANGED <<up, generation, retired, leftover>>

\* Bug: the file is not settled when 'error' comes instead of 'close'.
onErrorForgets(c) ==
  /\ up
  /\ turn[c].on
  /\ turn' = [turn EXCEPT ![c] = NoTurn]
  /\ UNCHANGED <<up, row, current, generation, files, minted, handed, retired,
                 leftover>>

\* 'error' instead of 'close': nothing fresh is kept.
onError(c) ==
  /\ up
  /\ turn[c].on
  /\ settleFreshThread(c, FALSE)
  /\ turn' = [turn EXCEPT ![c] = NoTurn]
  /\ UNCHANGED <<up, generation, minted, handed, retired, leftover>>

-----------------------------------------------------------------------------
(* The conversation closed by its user, and the life of the process.       *)

\* The threads a rotation closes: the current one and the one being opened.
Retiring == {current} \cup (IF turn["conversation"].on
                            THEN {turn["conversation"].id} ELSE {})

\* rotate: invalidate the turns in flight, purge, then forget.
rotate ==
  /\ up
  /\ generation < MaxRotations
  /\ generation' = generation + 1
  /\ purgeSessionFile(current)
  /\ persistSessionId(NoId)
  /\ retired' = retired \cup Retiring
  /\ leftover' = leftover \cup Resuming
  /\ UNCHANGED <<up, minted, turn, handed>>

\* stopChannel: every turn in flight is told why, then killed.
stopChannel ==
  /\ up
  /\ turn' = [c \in Callers |->
       IF turn[c].on /\ turn[c].killed = "no"
       THEN [turn[c] EXCEPT !.killed = "abort"] ELSE turn[c]]
  /\ UNCHANGED <<up, row, current, generation, files, minted, handed, retired,
                 leftover>>

\* What the end of the process leaves: the row, the files, and the sessions
\* its turns were opening.
Lost ==
  /\ up' = FALSE
  /\ current' = NoId
  /\ generation' = 0
  /\ turn' = [c \in Callers |-> NoTurn]
  /\ leftover' = leftover \cup InFlight
  /\ UNCHANGED <<row, minted, handed>>

\* The process ends at any moment.
EndOfLife ==
  /\ up
  /\ Lost
  /\ UNCHANGED <<files, retired>>

\* It ends inside rotate, between the purge and the update of the base.
RotateCut ==
  /\ up
  /\ generation < MaxRotations
  /\ purgeSessionFile(current)
  /\ retired' = retired \cup Retiring
  /\ Lost

\* The constructor reads the thread back.
Boot ==
  /\ ~up
  /\ up' = TRUE
  /\ current' = row
  /\ UNCHANGED <<row, generation, files, minted, turn, handed, retired, leftover>>

\* A job purges the session it was handed.
CallerPurges(id) ==
  /\ up
  /\ id \in handed
  /\ handed' = handed \ {id}
  /\ purgeSessionFile(id)
  /\ UNCHANGED <<up, row, current, generation, minted, turn, retired, leftover>>

\* The file of the thread disappears: the client's own purge, a volume lost.
FileVanishes ==
  /\ current \in files
  /\ files' = files \ {current}
  /\ UNCHANGED <<up, row, current, generation, minted, turn, handed, retired,
                 leftover>>

-----------------------------------------------------------------------------
TurnEnds(c) == onClose(c) \/ onError(c)

ChannelNext ==
  \/ \E c \in Callers :
       \/ invoke(c) \/ Writes(c) \/ onInit(c) \/ onResult(c) \/ Missing(c)
       \/ Timeout(c) \/ onAbort(c) \/ TurnEnds(c)
  \/ \E id \in handed : CallerPurges(id)
  \/ rotate \/ stopChannel
  \/ EndOfLife \/ RotateCut \/ Boot
  \/ FileVanishes

ChannelSpec == ChannelInit /\ [][ChannelNext]_channelVars

\* The deadline of a turn fires and a killed process ends; the client, its
\* callers and the user are under no obligation.
ChannelFairness ==
  \A c \in Callers : /\ WF_channelVars(Timeout(c))
                     /\ WF_channelVars(turn[c].killed # "no" /\ TurnEnds(c))

ChannelFairSpec == ChannelSpec /\ ChannelFairness

-----------------------------------------------------------------------------
\* No verbatim without an owner: each session file on disk belongs to the
\* thread the base records, to a turn in flight, or to a job that was handed
\* its id, whatever ended the turns (F-99-2; index.ts:326-351).  The sessions
\* a crash cut short, and the one a resumed turn may write again after its
\* rotation, are the leftover the channel cannot reach.
NoOrphan ==
  files \subseteq {row} \cup InFlight \cup handed \cup leftover

\* A conversation the user closed never comes back: neither a turn that was
\* in flight, nor a crash in the middle of the rotation, makes its thread one
\* that the next turn resumes (m2, m3; index.ts:214-217, 441-447).
RotationIsFinal ==
  up /\ isResumable(current) => current \notin retired

\* An invocation ends, whatever its process does: by its answer or its
\* deadline, its single retry included (index.ts:264-275, 323).
EveryTurnEnds == \A c \in Callers : turn[c].on ~> ~turn[c].on
=============================================================================
