---------------------------- MODULE Conversation ----------------------------
(***************************************************************************)
(* The conversation router (voice/router.ts) with its listening states     *)
(* (voice/states.ts) and the porter's grid (voice/portier.ts), between the *)
(* ears, the mouth and the brain it drives. The router is one event loop:  *)
(* a handler runs to its end, and what it awaited goes on (Resume) before  *)
(* the next event. Commands take effect when sent; events of the ears are  *)
(* delivered in order, late; timers fire at any moment they may, so the    *)
(* length of the tail after an interaction (bargeInProgress) and the point *)
(* where a thought is taken up again (cutAt) are left out, as is the text  *)
(* given to the brain (openerForBrain).                                    *)
(***************************************************************************)
EXTENDS Integers, Sequences

CONSTANTS
  Texts,        \* the classes of transcripts the porter tells apart
  MaxSaid,      \* bound on what Yohann says
  MaxHeard,     \* bound on the events of the ears on their way
  MaxRespawns,  \* bound on the rebuilds of the pipeline
  MouthDies,    \* the engine of the mouth may die
  BrainStalls   \* the brain may stall in the first sentence past the deadline

None == 0       \* no thought, no wake, no final
Kinds == {"rest", "hello", "goodnight", "goodbye", "recovery", "presence", "whole", "think", "voice"}
Fixed == {"hello", "goodnight", "goodbye", "recovery", "presence"}

ASSUME ConversationAssumption ==
  /\ Texts \subseteq {"opener", "night", "closing", "wait", "talk", "void"}
  /\ MaxSaid \in Nat /\ MaxHeard \in Nat /\ MaxRespawns \in Nat
  /\ MouthDies \in BOOLEAN /\ BrainStalls \in BOOLEAN

VARIABLES
  busy,         \* the gate
  task,         \* the interaction in progress and what it awaits
  turn,         \* its number; a thought has the number of its turn
  idle,         \* the timer of scheduleIdle is armed
  greet,        \* the wake whose opener is awaited (pendingGreet)
  final,        \* the last transcript: what was said, its class, consumed
  mode,         \* the listening state
  gate,         \* listenMode, as the ears apply it
  bargeArmed, armedUtt, thought, held,
  inFlight,     \* the utterances whose end is awaited
  writing,      \* the thoughts the brain has not finished
  mouth, train, playing,  \* the mouth: alive, its utterances, the first one sounds
  armed, heard, said,     \* the ears: in a conversation, events sent; what was said
  respawns

router == <<busy, task, turn, idle, greet, final, mode, gate, bargeArmed, armedUtt, thought, held, inFlight>>
world  == <<writing, mouth, train, playing, armed, heard, said, respawns>>
vars   == <<router, world>>

Utterances == Nat \X {"fixed", "hmm", "filler", "answer"}

Tasks  == [kind : Kinds, open : BOOLEAN, masks : SUBSET {"hmm", "filler"}, astray : BOOLEAN]
Finals == [of : Nat, text : Texts \union {"void"}, used : BOOLEAN]
Events == [type : {"wake", "final", "turn", "timeout"}, of : Nat \ {None}, text : Texts \union {"void"}]

TypeOK ==
  /\ busy \in BOOLEAN /\ idle \in BOOLEAN /\ bargeArmed \in BOOLEAN
  /\ playing \in BOOLEAN /\ armed \in BOOLEAN
  /\ turn \in Nat /\ greet \in Nat /\ thought \in Nat /\ held \in Nat
  /\ said \in Nat /\ respawns \in Nat
  /\ task \in Tasks /\ final \in Finals
  /\ mode \in {"veille", "ecoute", "pause"}
  /\ gate \in {"resume", "arm", "mute"}
  /\ armedUtt \in Utterances \union {<<>>}
  /\ inFlight \subseteq Utterances /\ writing \subseteq Nat
  /\ mouth \in {"alive", "dead"} /\ train \in Seq(Utterances)
  /\ heard \in Seq(Events)

\* An interaction: for an answer, its utterance is open and what masked the
\* wait; for a greeting, the words it answers are not those of its wake.
Task(k) == [kind |-> k, open |-> FALSE, masks |-> {}, astray |-> FALSE]
NoTask  == Task("rest")
Consumed == [final EXCEPT !.used = TRUE, !.of = None]
Heard(e) == [of |-> IF busy THEN None ELSE e.of, text |-> e.text, used |-> busy]
NoFinal == [of |-> None, text |-> "void", used |-> TRUE]

Init ==
  /\ busy = FALSE /\ task = NoTask /\ turn = 0 /\ idle = FALSE /\ greet = None /\ final = NoFinal
  /\ mode = "veille" /\ gate = "resume"
  /\ bargeArmed = FALSE /\ armedUtt = <<>> /\ thought = None /\ held = None /\ inFlight = {}
  /\ writing = {} /\ mouth = "alive" /\ train = <<>> /\ playing = FALSE
  /\ armed = FALSE /\ heard = <<>> /\ said = 0 /\ respawns = 0
-----------------------------------------------------------------------------
(* The porter's grid. *)
MatchOpening(t) == t \in {"opener", "night"}
IsGoodnight(t)  == t = "night"
MatchClosing(t) == t \in {"night", "closing"}
MatchPause(t)   == t = "wait"
IsHallucination(t) == t = "void"

(* The listening states: a transition tells the ears, and sleep forgets   *)
(* the thought put aside.                                                 *)
To(m) ==
  /\ mode' = m
  /\ armed' = IF m = mode THEN armed ELSE m = "ecoute"
Kept(m, h) == IF m = "veille" /\ mode # "veille" THEN None ELSE h

(* The mouth takes an utterance at the end of its train. *)
Begin(u) ==
  /\ inFlight' = inFlight \union {u}
  /\ train' = IF mouth = "alive" THEN Append(train, u) ELSE train

(* What an interaction waits for is settled. *)
Awaited == {u \in inFlight : u[1] = turn}
Runnable ==
  \/ task.kind \in Fixed \union {"voice"} /\ Awaited = {}
  \/ task.kind = "think" /\ turn \notin writing
Quiet == ~Runnable

PlayFixed(t) ==
  /\ busy' = TRUE /\ turn' = turn + 1 /\ task' = t
  /\ Begin(<<turn + 1, "fixed">>)

ScheduleIdle == task' = NoTask /\ idle' = TRUE

SettleAll(us) ==
  /\ inFlight' = inFlight \ us
  /\ IF armedUtt \in us /\ armedUtt \in inFlight
       THEN armedUtt' = <<>> /\ bargeArmed' = FALSE /\ thought' = None
       ELSE UNCHANGED <<armedUtt, bargeArmed, thought>>
-----------------------------------------------------------------------------
(* Events of the ears. *)
Receive(type) == heard # <<>> /\ Head(heard).type = type /\ heard' = Tail(heard)

HandleOpener(t, w, f) ==
  PlayFixed([Task(IF IsGoodnight(t) THEN "goodnight" ELSE "hello") EXCEPT !.astray = f \notin {None, w}])

\* onWake in a pause: the thought put aside is taken up again.
ResumeHeld ==
  /\ held # None /\ mode = "pause" /\ ~busy
  /\ Receive("wake")
  /\ final' = Consumed
  /\ PlayFixed(Task("presence"))
  /\ To("ecoute") /\ held' = None
  /\ UNCHANGED <<idle, greet, gate, bargeArmed, armedUtt, thought, writing, mouth, playing, said, respawns>>

Wake ==
  /\ held = None \/ mode # "pause"
  /\ Receive("wake")
  /\ held' = None
  /\ \/ busy /\ UNCHANGED <<busy, task, turn, greet, final, inFlight, train>>
     \/ /\ ~busy /\ ~final.used
        /\ final' = Consumed
        /\ HandleOpener(final.text, Head(heard).of, final.of)
        /\ UNCHANGED greet
     \/ /\ ~busy /\ final.used
        /\ busy' = TRUE /\ greet' = Head(heard).of
        /\ UNCHANGED <<task, turn, final, inFlight, train>>
  /\ UNCHANGED <<idle, mode, gate, bargeArmed, armedUtt, thought, writing, mouth, playing, armed, said, respawns>>

WakeIgnored ==
  /\ held # None /\ mode = "pause" /\ busy
  /\ Receive("wake")
  /\ UNCHANGED <<router, writing, mouth, train, playing, armed, said, respawns>>

\* Bug: the opener that comes leaves the fallback armed.
FinalLeavesTheTimer ==
  /\ Receive("final")
  /\ final' = Heard(Head(heard))
  /\ IF greet # None
       THEN HandleOpener(Head(heard).text, greet, Head(heard).of)
       ELSE UNCHANGED <<busy, task, turn, inFlight, train>>
  /\ UNCHANGED <<greet, idle, mode, gate, bargeArmed, armedUtt, thought, held, writing, mouth, playing, armed, said, respawns>>

Final ==
  /\ Receive("final")
  /\ final' = Heard(Head(heard))
  /\ IF greet # None
       THEN HandleOpener(Head(heard).text, greet, Head(heard).of) /\ greet' = None
       ELSE UNCHANGED <<busy, task, turn, greet, inFlight, train>>
  /\ UNCHANGED <<idle, mode, gate, bargeArmed, armedUtt, thought, held, writing, mouth, playing, armed, said, respawns>>

GreetFallback ==
  /\ greet # None /\ greet' = None
  /\ HandleOpener("void", greet, None)
  /\ UNCHANGED <<idle, final, mode, gate, bargeArmed, armedUtt, thought, held, writing, mouth, playing, armed, heard, said, respawns>>

Timeout ==
  /\ Receive("timeout")
  /\ To("veille") /\ held' = Kept("veille", held)
  /\ UNCHANGED <<busy, task, turn, idle, greet, final, gate, bargeArmed, armedUtt, thought, inFlight, writing, mouth, train, playing, said, respawns>>
-----------------------------------------------------------------------------
(* The end of a turn. *)
IgnoredTurn ==
  /\ UNCHANGED <<busy, task, turn, idle, mode, armed, thought, held, inFlight, writing, train>>

HandlePause ==
  /\ busy' = TRUE /\ ScheduleIdle
  /\ IF mode = "ecoute" THEN To("pause") ELSE UNCHANGED <<mode, armed>>
  /\ UNCHANGED <<turn, thought, held, inFlight, writing, train>>

Goodbye ==
  /\ PlayFixed(Task("goodbye")) /\ held' = None
  /\ UNCHANGED <<idle, mode, armed, thought, writing>>

Respond ==
  /\ busy' = TRUE /\ turn' = turn + 1 /\ task' = Task("think")
  /\ thought' = turn + 1 /\ writing' = writing \union {turn + 1} /\ held' = None
  /\ UNCHANGED <<idle, mode, armed, inFlight, train>>

AcceptedTurn(t) ==
  CASE IsHallucination(t) -> IgnoredTurn
    [] held # None /\ MatchPause(t) -> HandlePause
    [] MatchClosing(t) -> Goodbye
    [] OTHER -> Respond

\* Bug: a pause does not shut the turns out.
TurnEndWakesThePause ==
  /\ Receive("turn")
  /\ IF busy
       THEN IgnoredTurn /\ UNCHANGED final
       ELSE AcceptedTurn(final.text) /\ final' = Consumed
  /\ UNCHANGED <<greet, gate, bargeArmed, armedUtt, mouth, playing, said, respawns>>

TurnEnd ==
  /\ Receive("turn")
  /\ IF mode = "pause" \/ busy
       THEN IgnoredTurn /\ UNCHANGED final
       ELSE AcceptedTurn(final.text) /\ final' = Consumed
  /\ UNCHANGED <<greet, gate, bargeArmed, armedUtt, mouth, playing, said, respawns>>
-----------------------------------------------------------------------------
(* The brain writes one answer at a time, in the order of the questions.   *)
Thinks(n) == n \in writing /\ \A m \in writing : n <= m

\* The first words of the answer in progress open its utterance.
FirstDelta ==
  /\ task.kind = "think" /\ ~task.open /\ Thinks(turn)
  /\ task' = [task EXCEPT !.open = TRUE]
  /\ armedUtt' = <<turn, "answer">> /\ Begin(<<turn, "answer">>)
  /\ UNCHANGED <<busy, turn, idle, greet, final, mode, gate, bargeArmed, thought, held, writing, mouth, playing, armed, heard, said, respawns>>

BrainDone ==
  /\ \E n \in writing : Thinks(n) /\ writing' = writing \ {n}
  /\ UNCHANGED <<router, mouth, train, playing, armed, heard, said, respawns>>

\* The timers of a slow brain: a clip, which the mouth may not have, then a phrase.
Masks(m) ==
  /\ task.kind = "think" /\ ~task.open /\ m \notin task.masks
  /\ task' = [task EXCEPT !.masks = @ \union {m}]
  /\ UNCHANGED <<busy, turn, idle, greet, final, mode, gate, bargeArmed, armedUtt, thought, held, writing, mouth, playing, armed, heard, said, respawns>>

Hmm ==
  /\ Masks("hmm")
  /\ inFlight' = inFlight \union {<<turn, "hmm">>}
  /\ \/ mouth = "alive" /\ train' = Append(train, <<turn, "hmm">>)
     \/ UNCHANGED train

Filler == Masks("filler") /\ Begin(<<turn, "filler">>)

\* What the interaction does once what it awaited is there.
AnswerWritten ==
  /\ task.kind = "think" /\ task.open
  /\ task' = [task EXCEPT !.kind = "voice"]
  /\ UNCHANGED <<inFlight, train, mode, armed, held, thought, idle>>

NothingSaid ==     \* an error, or an empty answer: she says so
  /\ task.kind = "think" /\ ~task.open
  /\ task' = [task EXCEPT !.kind = "voice"] /\ Begin(<<turn, "fixed">>)
  /\ UNCHANGED <<mode, armed, held, thought, idle>>

Answered ==
  /\ task.kind = "voice"
  /\ ScheduleIdle /\ thought' = IF thought = turn THEN None ELSE thought
  /\ UNCHANGED <<inFlight, train, mode, armed, held>>

Greeted ==
  /\ task.kind = "hello"
  /\ To("ecoute") /\ ScheduleIdle
  /\ UNCHANGED <<inFlight, train, held, thought>>

Parted ==
  /\ task.kind \in {"goodnight", "goodbye"}
  /\ To("veille") /\ held' = Kept("veille", held) /\ ScheduleIdle
  /\ UNCHANGED <<inFlight, train, thought>>

Recovered ==
  /\ task.kind = "recovery" /\ ScheduleIdle
  /\ UNCHANGED <<inFlight, train, mode, armed, held, thought>>

Present ==
  /\ task.kind = "presence" /\ task' = [task EXCEPT !.kind = "whole"]
  /\ UNCHANGED <<inFlight, train, mode, armed, held, thought, idle>>

Resume ==
  /\ Runnable
  /\ AnswerWritten \/ NothingSaid \/ Answered \/ Greeted \/ Parted \/ Recovered \/ Present
  /\ UNCHANGED <<busy, turn, greet, final, gate, bargeArmed, armedUtt, writing, mouth, playing, heard, said, respawns>>

\* resumeHeld, once the thought is whole or the wait is over: the rest of it, if any.
TakeUp ==
  /\ task.kind = "whole"
  /\ \/ /\ task' = Task("voice") /\ armedUtt' = <<turn, "answer">> /\ thought' = turn
        /\ Begin(<<turn, "answer">>) /\ UNCHANGED idle
     \/ ScheduleIdle /\ UNCHANGED <<armedUtt, thought, inFlight, train>>
  /\ UNCHANGED <<busy, turn, greet, final, mode, gate, bargeArmed, held, writing, mouth, playing, armed, heard, said, respawns>>

\* The timer of scheduleIdle.
Idle ==
  /\ idle /\ idle' = FALSE /\ busy' = FALSE /\ gate' = "resume"
  /\ UNCHANGED <<task, turn, greet, final, mode, bargeArmed, armedUtt, thought, held, inFlight, world>>
-----------------------------------------------------------------------------
(* The mouth. *)
TtsStart ==
  /\ train # <<>> /\ ~playing /\ playing' = TRUE
  /\ IF Head(train) = armedUtt
       THEN gate' = "arm" /\ bargeArmed' = TRUE
       ELSE gate' = "mute" /\ UNCHANGED bargeArmed
  /\ UNCHANGED <<busy, task, turn, idle, greet, final, mode, armedUtt, thought, held, inFlight, writing, mouth, train, armed, heard, said, respawns>>

Ended(u) == u[2] = "answer" => u[1] \notin writing

TtsDone ==
  /\ playing /\ Ended(Head(train))
  /\ playing' = FALSE /\ train' = Tail(train)
  /\ SettleAll({Head(train)})
  /\ UNCHANGED <<busy, task, turn, idle, greet, final, mode, gate, held, writing, mouth, armed, heard, said, respawns>>

MouthStops ==
  /\ MouthDies /\ mouth = "alive" /\ mouth' = "dead"
  /\ train' = <<>> /\ playing' = FALSE
  /\ UNCHANGED <<router, writing, armed, heard, said, respawns>>

Sounding == {train[i] : i \in DOMAIN train}
Stalled(u) == BrainStalls /\ u[2] = "answer" /\ u[1] \in writing /\ ~(playing /\ u = Head(train))

\* Bug: only the first sound of an answer has a deadline.
DeadlineOfAnswers ==
  /\ \E u \in inFlight : u[2] = "answer" /\ (u \notin Sounding \/ Stalled(u)) /\ SettleAll({u})
  /\ UNCHANGED <<busy, task, turn, idle, greet, final, mode, gate, held, world>>

\* The deadlines (no first sound, a missing clip, no end): what the mouth will never settle.
Deadline ==
  /\ \E u \in inFlight : (u \notin Sounding \/ Stalled(u)) /\ SettleAll({u})
  /\ UNCHANGED <<busy, task, turn, idle, greet, final, mode, gate, held, world>>

\* Bug: the voice is not purged.
BargeLeavesTheVoice ==
  /\ gate = "arm" /\ bargeArmed
  /\ held' = IF thought # None THEN thought ELSE held
  /\ bargeArmed' = FALSE /\ inFlight' = {} /\ armedUtt' = <<>> /\ thought' = None
  /\ task' = [task EXCEPT !.kind = "voice"] /\ gate' = "resume"
  /\ UNCHANGED <<busy, turn, idle, greet, final, mode, writing, mouth, train, playing, armed, heard, said, respawns>>

\* Yohann speaks over a thought: it is cut and put aside, the voice purged.
BargeIn ==
  /\ gate = "arm" /\ bargeArmed
  /\ held' = IF thought # None THEN thought ELSE held
  /\ bargeArmed' = FALSE /\ inFlight' = {} /\ armedUtt' = <<>> /\ thought' = None
  /\ task' = [task EXCEPT !.kind = "voice"] /\ gate' = "resume"
  /\ train' = <<>> /\ playing' = FALSE
  /\ UNCHANGED <<busy, turn, idle, greet, final, mode, writing, mouth, armed, heard, said, respawns>>
-----------------------------------------------------------------------------
(* The ears. *)
Event(type, t) == [type |-> type, of |-> said + 1, text |-> t]

\* A sentence is transcribed: a wake if she sleeps and is called, before its
\* transcript (fast reading) or after; the end of a turn in a conversation.
Speak(t) ==
  /\ gate = "resume" /\ said < MaxSaid /\ Len(heard) <= MaxHeard
  /\ said' = said + 1
  /\ IF armed
       THEN /\ heard' = heard \o <<Event("final", t), Event("turn", t)>>
            /\ armed' = ~MatchClosing(t)
       ELSE IF MatchOpening(t)
         THEN /\ \/ heard' = heard \o <<Event("wake", t), Event("final", t)>>
                 \/ heard' = heard \o <<Event("final", t), Event("wake", t)>>
              /\ armed' = ~IsGoodnight(t)
         ELSE heard' = Append(heard, Event("final", t)) /\ UNCHANGED armed
  /\ UNCHANGED <<router, writing, mouth, train, playing, respawns>>

\* The guard of the ears: nothing was said for long.
Guard ==
  /\ armed /\ gate = "resume" /\ heard = <<>>
  /\ armed' = FALSE /\ heard' = <<Event("timeout", "void")>>
  /\ UNCHANGED <<router, writing, mouth, train, playing, said, respawns>>

\* A sidecar has respawned: the pipeline is rebuilt and the state handed over.
Rebuild(lost) ==
  /\ respawns < MaxRespawns /\ respawns' = respawns + 1
  /\ heard' = <<>> /\ mouth' = (IF lost = "mouth" THEN "alive" ELSE mouth) /\ playing' = FALSE
  /\ writing' = IF task.kind = "think" THEN writing \ {turn} ELSE writing
  /\ held' = IF mode = "veille" THEN None ELSE held
  /\ armed' = (mode = "ecoute" \/ (mode = "veille" /\ lost = "mouth" /\ armed))
  /\ idle' = FALSE /\ greet' = None /\ final' = NoFinal /\ gate' = "resume"
  /\ bargeArmed' = FALSE /\ armedUtt' = <<>> /\ thought' = None
  /\ IF mode = "ecoute"
       THEN /\ busy' = TRUE /\ turn' = turn + 1 /\ task' = Task("recovery")
            /\ inFlight' = {<<turn + 1, "fixed">>}
            /\ train' = IF mouth' = "alive" THEN <<<<turn + 1, "fixed">>>> ELSE <<>>
       ELSE busy' = FALSE /\ task' = NoTask /\ inFlight' = {} /\ train' = <<>> /\ UNCHANGED turn
  /\ UNCHANGED <<mode, said>>
-----------------------------------------------------------------------------
EarsEvent == ResumeHeld \/ Wake \/ WakeIgnored \/ Final \/ Timeout \/ TurnEnd

Next ==
  \/ Resume
  \/ /\ Quiet
     /\ \/ EarsEvent \/ GreetFallback
        \/ FirstDelta \/ BrainDone \/ Hmm \/ Filler \/ TakeUp \/ Idle
        \/ TtsStart \/ TtsDone \/ MouthStops \/ Deadline \/ BargeIn
        \/ Guard
        \/ \E t \in Texts : Speak(t)
        \/ \E lost \in {"ears", "mouth"} : Rebuild(lost)

Spec == Init /\ [][Next]_vars

(* The loop turns: as long as a timer runs, the mouth has something to say *)
(* or the brain to write, one of them goes on.                             *)
Progress ==
  \/ Resume
  \/ Quiet /\ (GreetFallback \/ Idle \/ TakeUp \/ BrainDone \/ Deadline \/ TtsStart \/ TtsDone)

FairSpec == Spec /\ WF_vars(Progress)
-----------------------------------------------------------------------------
(* One interaction at a time: the gate is shut exactly while one is being  *)
(* begun, carried out or left behind, and nothing of an earlier one is     *)
(* still awaited (busy of router.ts, "un-tour-a-la-fois").                 *)
Doing == {s \in {"greet", "task", "idle"} :
            \/ s = "greet" /\ greet # None
            \/ s = "task" /\ task.kind # "rest"
            \/ s = "idle" /\ idle}
OneAtATime ==
  /\ \A s, r \in Doing : s = r
  /\ busy <=> Doing # {}
  /\ \A u \in inFlight : u[1] = turn /\ task.kind # "rest"

(* She never hears herself: while her voice sounds the transcription is    *)
(* gated, whatever cut, deadline or rebuild came before (gate b2).         *)
NeverHearsHerself == playing => gate # "resume"

(* She is never deaf at rest: with no interaction and no voice, the ears   *)
(* listen (the F-A deadline: "jamais deaf a l'infini").                    *)
NeverDeafAtRest == ~busy /\ ~playing => gate = "resume"

(* The gate of the ears follows her voice, both ways.                      *)
GateFollowsTheVoice == NeverHearsHerself /\ NeverDeafAtRest

(* A pause always has its thought: from "attends" until she is called back *)
(* nothing said, finished or rebuilt in between loses what was put aside   *)
(* ("reprise ssi PAUSE").                                                  *)
PauseKeepsTheThought == mode = "pause" => held # None

(* The gate always reopens: no dead mouth, missing clip or slow brain      *)
(* leaves her shut for ever (deadlines, runInteraction).                   *)
GateReopens == busy ~> ~busy

(* She greets on the words that woke her: a wake is never paired with the  *)
(* transcript of another sentence (onFinal, MAJEUR-1).                     *)
GreetsOnItsOpener == ~task.astray
=============================================================================
