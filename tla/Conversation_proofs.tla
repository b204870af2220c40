------------------------ MODULE Conversation_proofs ------------------------
(***************************************************************************)
(* Proofs about the conversation router, for any sentences, any number of  *)
(* events on their way and any number of rebuilds. Three invariants are    *)
(* built one on the other: the types with PlaysItsTrain (what sounds is in *)
(* the mouth), Control (one interaction, whose utterances alone are        *)
(* awaited), and, when the brain does not stall, the voice: all the mouth  *)
(* holds is awaited, so that she never speaks with the gate open.          *)
(***************************************************************************)
EXTENDS Conversation, TLAPS

LEMMA KindTypes == /\ {"hello", "goodnight", "goodbye", "recovery", "presence", "rest", "think", "voice", "whole"} \subseteq Kinds
                   /\ Fixed \subseteq Kinds
  BY DEF Kinds, Fixed

LEMMA TaskTypes == \A k \in Kinds : Task(k) \in Tasks /\ Task(k).kind = k
  BY DEF Tasks, Task

LEMMA TaskChange ==
  ASSUME NEW t \in Tasks, NEW k \in Kinds, NEW m \in {"hmm", "filler"}
  PROVE  /\ [t EXCEPT !.kind = k] \in Tasks /\ [t EXCEPT !.kind = k].kind = k
         /\ [t EXCEPT !.open = TRUE] \in Tasks
         /\ [t EXCEPT !.masks = @ \union {m}] \in Tasks
  BY DEF Tasks

LEMMA BeginTypes ==
  ASSUME TypeOK, NEW u \in Utterances, Begin(u)
  PROVE  /\ inFlight' \subseteq Utterances /\ inFlight' = inFlight \union {u}
         /\ train' \in Seq(Utterances) /\ (train' = train \/ train' = Append(train, u))
  BY DEF TypeOK, Begin

LEMMA Utts == \A n \in Nat : \A k \in {"fixed", "hmm", "filler", "answer"} : <<n, k>> \in Utterances
  BY DEF Utterances

LEMMA PlayTypes ==
  ASSUME TypeOK, NEW t, PlayFixed(t)
  PROVE  /\ busy' = TRUE /\ turn' = turn + 1 /\ turn' \in Nat /\ task' = t
         /\ inFlight' = inFlight \union {<<turn + 1, "fixed">>} /\ inFlight' \subseteq Utterances
         /\ train' \in Seq(Utterances) /\ (train' = train \/ train' = Append(train, <<turn + 1, "fixed">>))
<1>1. turn \in Nat /\ turn + 1 \in Nat
  BY DEF TypeOK
<1>2. <<turn + 1, "fixed">> \in Utterances
  BY <1>1, Utts
<1> QED
  BY <1>1, <1>2, BeginTypes DEF PlayFixed

LEMMA OpenerTypes ==
  ASSUME NEW t, NEW w, NEW f, HandleOpener(t, w, f), TypeOK
  PROVE  /\ busy' = TRUE /\ turn' = turn + 1 /\ turn' \in Nat
         /\ inFlight' = inFlight \union {<<turn + 1, "fixed">>} /\ inFlight' \subseteq Utterances
         /\ train' \in Seq(Utterances) /\ (train' = train \/ train' = Append(train, <<turn + 1, "fixed">>))
         /\ task' \in Tasks /\ task'.kind \in {"hello", "goodnight"}
<1> DEFINE k == IF IsGoodnight(t) THEN "goodnight" ELSE "hello"
           b == f \notin {None, w}
<1>1. k \in {"hello", "goodnight"} /\ k \in Kinds
  BY DEF Kinds
<1>2. b \in BOOLEAN
  OBVIOUS
<1>3. PlayFixed([Task(k) EXCEPT !.astray = b])
  BY DEF HandleOpener
<1>. HIDE DEF k, b
<1>4. Task(k) \in Tasks /\ Task(k).kind = k
  BY <1>1, TaskTypes
<1>5. [Task(k) EXCEPT !.astray = b] \in Tasks /\ [Task(k) EXCEPT !.astray = b].kind = k
  BY <1>2, <1>4 DEF Tasks
<1> QED
  BY <1>1, <1>3, <1>5, PlayTypes

LEMMA AcceptedCases ==
  ASSUME NEW t, AcceptedTurn(t)
  PROVE  \/ IgnoredTurn
         \/ held # None /\ HandlePause
         \/ Goodbye
         \/ Respond
  BY DEF AcceptedTurn

LEMMA TurnCases ==
  ASSUME TurnEnd
  PROVE  /\ \/ IgnoredTurn
            \/ mode # "pause" /\ ~busy /\ ((held # None /\ HandlePause) \/ Goodbye \/ Respond)
         /\ final' = final \/ final' = Consumed
         /\ heard # <<>> /\ heard' = Tail(heard)
         /\ UNCHANGED <<greet, gate, bargeArmed, armedUtt, mouth, playing, said, respawns>>
  BY AcceptedCases DEF TurnEnd, Receive

LEMMA FinalTypes ==
  ASSUME TypeOK
  PROVE  /\ Consumed \in Finals /\ NoFinal \in Finals
         /\ \A e \in Events : Heard(e) \in Finals
<1>1. Consumed \in Finals /\ NoFinal \in Finals
  BY DEF TypeOK, Consumed, NoFinal, Finals, None
<1>2. ASSUME NEW e \in Events PROVE Heard(e) \in Finals
  <2>1. (IF busy THEN None ELSE e.of) \in Nat /\ e.text \in Texts \union {"void"} /\ busy \in BOOLEAN
    BY DEF TypeOK, Events, None
  <2> QED
    BY <2>1 DEF Heard, Finals
<1> QED
  BY <1>1, <1>2

LEMMA HeardTypes == ASSUME TypeOK, heard # <<>> PROVE Head(heard) \in Events /\ Tail(heard) \in Seq(Events)
  BY DEF TypeOK
LEMMA HeadTypes == ASSUME TypeOK, heard # <<>> PROVE Head(heard).of \in Nat \ {None}
<1>1. Head(heard) \in Events
  BY HeardTypes
<1> QED
  BY <1>1 DEF Events

LEMMA Trains ==
  ASSUME TypeOK, NEW u \in Utterances
  PROVE  Append(train, u) \in Seq(Utterances) /\ <<u>> \in Seq(Utterances)
<1>1. train \in Seq(Utterances)
  BY DEF TypeOK
<1> QED
  BY <1>1

LEMMA TurnTask ==
  ASSUME TypeOK, TurnEnd
  PROVE  \/ UNCHANGED <<busy, turn, task, inFlight, train, writing>> /\ IgnoredTurn
         \/ ~busy /\ mode # "pause" /\ held # None /\ HandlePause
         \/ ~busy /\ mode # "pause" /\ PlayFixed(Task("goodbye")) /\ Goodbye
         \/ ~busy /\ mode # "pause" /\ Respond
  BY TurnCases DEF Goodbye, IgnoredTurn

LEMMA EventTypes == ASSUME TypeOK, NEW t \in Texts \union {"void"}, NEW k \in {"wake", "final", "turn", "timeout"}
  PROVE Event(k, t) \in Events
  BY DEF Event, Events, TypeOK, None
-----------------------------------------------------------------------------
(* Types, one group of variables at a time. *)
FlagsT == busy \in BOOLEAN /\ idle \in BOOLEAN /\ bargeArmed \in BOOLEAN /\ playing \in BOOLEAN /\ armed \in BOOLEAN /\ mode \in {"veille", "ecoute", "pause"} /\ gate \in {"resume", "arm", "mute"} /\ mouth \in {"alive", "dead"}
NumbersT == turn \in Nat /\ greet \in Nat /\ thought \in Nat /\ held \in Nat /\ said \in Nat /\ respawns \in Nat
TaskT == task \in Tasks
FinalT == final \in Finals
UttsT == armedUtt \in Utterances \union {<<>>} /\ inFlight \subseteq Utterances /\ writing \subseteq Nat /\ train \in Seq(Utterances)
HeardT == heard \in Seq(Events)
\* What sounds is the head of the train of the mouth.
PlaysItsTrain == playing => train # <<>>
LEMMA FinalNumbers == ASSUME TypeOK, Final PROVE NumbersT'
<1> USE ConversationAssumption DEF ConversationAssumption, NumbersT, TypeOK
<1>1. CASE greet # None
  <2>1. HandleOpener(Head(heard).text, greet, Head(heard).of)
    BY <1>1 DEF Final
  <2>2. turn' \in Nat
    BY <2>1, OpenerTypes
  <2>3. greet' = 0 /\ UNCHANGED <<thought, held, said, respawns>>
    BY <1>1 DEF Final, None
  <2> QED
    BY <2>2, <2>3
<1>2. CASE greet = None
  BY <1>2 DEF Final
<1> QED
  BY <1>1, <1>2
LEMMA TurnNumbers == ASSUME TypeOK, TurnEnd PROVE NumbersT'
<1> USE ConversationAssumption DEF ConversationAssumption, NumbersT, TypeOK
<1>1. UNCHANGED <<greet, said, respawns>>
  BY TurnCases
<1>2. CASE IgnoredTurn \/ HandlePause
  BY <1>1, <1>2 DEF IgnoredTurn, HandlePause
<1>3. CASE PlayFixed(Task("goodbye")) /\ Goodbye
  <2>1. held' = 0 /\ thought' = thought
    BY <1>3 DEF Goodbye, None
  <2>2. turn' \in Nat
    BY <1>3, PlayTypes
  <2> QED
    BY <1>1, <2>1, <2>2
<1>4. CASE Respond
  BY <1>1, <1>4 DEF Respond, None
<1> QED
  BY <1>2, <1>3, <1>4, TurnTask
LEMMA ResumeHeldTask == ASSUME TypeOK, ResumeHeld PROVE TaskT'
<1> USE DEF TaskT
<1>1. PlayFixed(Task("presence"))
  BY DEF ResumeHeld
<1>2. task' = Task("presence")
  BY <1>1, PlayTypes
<1> QED
  BY <1>2, TaskTypes, KindTypes
LEMMA TurnEndTask == ASSUME TypeOK, TurnEnd PROVE TaskT'
<1> USE DEF TaskT
<1>1. task' \in {task, Task("rest"), Task("goodbye"), Task("think")}
  BY TurnTask, PlayTypes DEF HandlePause, Respond, ScheduleIdle, NoTask
<1> QED
  BY <1>1, TaskTypes, KindTypes DEF TypeOK
LEMMA ResumeTask == ASSUME TypeOK, Resume PROVE TaskT'
<1> USE DEF TaskT
<1>1. \/ task' = Task("rest") \/ task' = [task EXCEPT !.kind = "voice"]
     \/ task' = [task EXCEPT !.kind = "whole"]
  BY DEF Resume, AnswerWritten, NothingSaid, Answered, Greeted, Parted, Recovered, Present, ScheduleIdle, NoTask
<1>2. Task("rest") \in Tasks
  BY TaskTypes, KindTypes
<1>3. [task EXCEPT !.kind = "voice"] \in Tasks /\ [task EXCEPT !.kind = "whole"] \in Tasks
  BY TaskChange, KindTypes DEF TypeOK
<1> QED
  BY <1>1, <1>2, <1>3
LEMMA TurnEndUtts == ASSUME TypeOK, TurnEnd PROVE UttsT'
<1> USE DEF UttsT, TypeOK
<1>1. inFlight' \subseteq Utterances /\ train' \in Seq(Utterances)
  BY TurnTask, PlayTypes DEF IgnoredTurn, HandlePause, Respond
<1>2. writing' = writing \/ writing' = writing \union {turn + 1}
  BY TurnTask DEF IgnoredTurn, HandlePause, Respond, Goodbye
<1>3. writing' \subseteq Nat
  <2>1. turn + 1 \in Nat
    OBVIOUS
  <2> QED
    BY <1>2, <2>1
<1>4. armedUtt' = armedUtt
  BY TurnCases
<1> QED
  BY <1>1, <1>3, <1>4
LEMMA HmmUtts == ASSUME TypeOK, Hmm PROVE UttsT'
<1> USE DEF UttsT, TypeOK
<1>1. <<turn, "hmm">> \in Utterances
  BY Utts
<1>2. train' = train \/ train' = Append(train, <<turn, "hmm">>)
  BY DEF Hmm
<1>3. train' \in Seq(Utterances) /\ inFlight' \subseteq Utterances
  <2>1. train' \in Seq(Utterances)
    BY <1>1, <1>2, Trains
  <2>2. inFlight' = inFlight \union {<<turn, "hmm">>}
    BY DEF Hmm
  <2> QED
    BY <1>1, <2>1, <2>2
<1>4. armedUtt' = armedUtt /\ writing' = writing
  BY DEF Hmm, Masks
<1> QED
  BY <1>3, <1>4
LEMMA TtsDoneUtts == ASSUME TypeOK, PlaysItsTrain, TtsDone PROVE UttsT'
<1> USE DEF UttsT, TypeOK
<1>1. train' \in Seq(Utterances)
  BY DEF TtsDone, PlaysItsTrain
<1> QED
  BY <1>1 DEF TtsDone, SettleAll
LEMMA RebuildUtts == ASSUME TypeOK, PlaysItsTrain, NEW lost \in {"ears", "mouth"}, Rebuild(lost) PROVE UttsT'
<1> DEFINE u == <<turn + 1, "fixed">>
<1>1. turn + 1 \in Nat
  BY DEF TypeOK
<1>2. u \in Utterances
  BY <1>1, Utts
<1>3. inFlight' \subseteq {u} /\ train' \in {<<>>, <<u>>} /\ armedUtt' = <<>> /\ writing' \subseteq writing
  BY DEF Rebuild
<1> HIDE DEF u
<1>4. train' \in Seq(Utterances)
  <2>1. <<u>> \in Seq(Utterances)
    BY <1>2, Trains
  <2>2. <<>> \in Seq(Utterances)
    OBVIOUS
  <2>3. train' = <<>> \/ train' = <<u>>
    BY <1>3
  <2> QED
    BY <2>1, <2>2, <2>3
<1>5. inFlight' \subseteq Utterances /\ writing' \subseteq Nat
  BY <1>2, <1>3 DEF TypeOK
<1> QED
  BY <1>3, <1>4, <1>5 DEF UttsT

LEMMA SpeakHeard == ASSUME TypeOK, PlaysItsTrain, NEW t \in Texts, Speak(t) PROVE HeardT'
<1> USE DEF HeardT, TypeOK
<1>1. Event("wake", t) \in Events /\ Event("final", t) \in Events /\ Event("turn", t) \in Events
  BY EventTypes
<1>2. \A e1, e2 \in Events : heard \o <<e1, e2>> \in Seq(Events) /\ Append(heard, e1) \in Seq(Events)
  OBVIOUS
<1>3. \/ heard' = heard \o <<Event("final", t), Event("turn", t)>>
     \/ heard' = heard \o <<Event("wake", t), Event("final", t)>>
     \/ heard' = heard \o <<Event("final", t), Event("wake", t)>>
     \/ heard' = Append(heard, Event("final", t))
  BY DEF Speak
<1> QED
  BY <1>1, <1>2, <1>3
LEMMA FlagsS == ASSUME TypeOK, PlaysItsTrain, [Next]_vars PROVE FlagsT'
<1> USE ConversationAssumption DEF ConversationAssumption, FlagsT, TypeOK
<1>1. CASE ResumeHeld
  BY <1>1, OpenerTypes, PlayTypes DEF ResumeHeld, Receive, To
<1>2. CASE Wake
  BY <1>2, OpenerTypes, PlayTypes DEF Wake, Receive
<1>3. CASE WakeIgnored
  BY <1>3, OpenerTypes, PlayTypes DEF WakeIgnored, Receive, router
<1>4. CASE Final
  BY <1>4, OpenerTypes, PlayTypes DEF Final, Receive
<1>5. CASE GreetFallback
  BY <1>5, OpenerTypes, PlayTypes DEF GreetFallback
<1>6. CASE Timeout
  BY <1>6, OpenerTypes, PlayTypes DEF Timeout, Receive, To, Kept
<1>7. CASE TurnEnd
  BY <1>7, TurnCases, OpenerTypes, PlayTypes DEF IgnoredTurn, HandlePause, Goodbye, Respond, ScheduleIdle, NoTask, To
<1>8. CASE FirstDelta
  BY <1>8, OpenerTypes, PlayTypes DEF FirstDelta, Thinks
<1>9. CASE BrainDone
  BY <1>9, OpenerTypes, PlayTypes DEF BrainDone, router
<1>10. CASE Hmm
  BY <1>10, OpenerTypes, PlayTypes DEF Hmm, Masks
<1>11. CASE Filler
  BY <1>11, OpenerTypes, PlayTypes DEF Filler, Masks
<1>12. CASE Resume
  BY <1>12, OpenerTypes, PlayTypes DEF Resume, AnswerWritten, NothingSaid, Answered, Greeted, Parted, Recovered, Present, ScheduleIdle, NoTask, To, Kept
<1>13. CASE TakeUp
  BY <1>13, OpenerTypes, PlayTypes DEF TakeUp, ScheduleIdle, NoTask
<1>14. CASE Idle
  BY <1>14, OpenerTypes, PlayTypes DEF Idle, world
<1>15. CASE TtsStart
  BY <1>15, OpenerTypes, PlayTypes DEF TtsStart
<1>16. CASE TtsDone
  BY <1>16, OpenerTypes, PlayTypes DEF TtsDone, SettleAll
<1>17. CASE MouthStops
  BY <1>17, OpenerTypes, PlayTypes DEF MouthStops, router
<1>18. CASE Deadline
  BY <1>18, OpenerTypes, PlayTypes DEF Deadline, SettleAll, world
<1>19. CASE BargeIn
  BY <1>19, OpenerTypes, PlayTypes DEF BargeIn
<1>20. CASE Guard
  BY <1>20, OpenerTypes, PlayTypes DEF Guard, router
<1>21. ASSUME NEW t \in Texts, Speak(t) PROVE FlagsT'
  BY <1>21, OpenerTypes, PlayTypes DEF Speak, router
<1>22. ASSUME NEW lost \in {"ears", "mouth"}, Rebuild(lost) PROVE FlagsT'
  BY <1>22, OpenerTypes, PlayTypes DEF Rebuild, NoTask
<1>23. CASE UNCHANGED vars
  BY <1>23 DEF vars, router, world
<1> QED
  BY <1>1, <1>2, <1>3, <1>4, <1>5, <1>6, <1>7, <1>8, <1>9, <1>10, <1>11, <1>12, <1>13, <1>14, <1>15, <1>16, <1>17, <1>18, <1>19, <1>20, <1>21, <1>22, <1>23 DEF Next, EarsEvent
LEMMA NumbersS == ASSUME TypeOK, PlaysItsTrain, [Next]_vars PROVE NumbersT'
<1> USE ConversationAssumption DEF ConversationAssumption, NumbersT, TypeOK
<1>1. CASE ResumeHeld
  BY <1>1, OpenerTypes, PlayTypes, HeadTypes, PlayTypes DEF ResumeHeld, Receive, To, None
<1>2. CASE Wake
  BY <1>2, OpenerTypes, PlayTypes, HeadTypes, PlayTypes DEF Wake, Receive, None
<1>3. CASE WakeIgnored
  BY <1>3, OpenerTypes, PlayTypes, HeadTypes, PlayTypes DEF WakeIgnored, Receive, router, None
<1>4. CASE Final
  BY <1>4, FinalNumbers
<1>5. CASE GreetFallback
  BY <1>5, OpenerTypes, PlayTypes, HeadTypes, PlayTypes DEF GreetFallback, None
<1>6. CASE Timeout
  BY <1>6, OpenerTypes, PlayTypes, HeadTypes, PlayTypes DEF Timeout, Receive, To, Kept, None
<1>7. CASE TurnEnd
  BY <1>7, TurnNumbers, TurnCases
<1>8. CASE FirstDelta
  BY <1>8, OpenerTypes, PlayTypes, HeadTypes, PlayTypes DEF FirstDelta, Thinks, None
<1>9. CASE BrainDone
  BY <1>9, OpenerTypes, PlayTypes, HeadTypes, PlayTypes DEF BrainDone, router, None
<1>10. CASE Hmm
  BY <1>10, OpenerTypes, PlayTypes, HeadTypes, PlayTypes DEF Hmm, Masks, None
<1>11. CASE Filler
  BY <1>11, OpenerTypes, PlayTypes, HeadTypes, PlayTypes DEF Filler, Masks, None
<1>12. CASE Resume
  BY <1>12, OpenerTypes, PlayTypes, HeadTypes, PlayTypes DEF Resume, AnswerWritten, NothingSaid, Answered, Greeted, Parted, Recovered, Present, ScheduleIdle, NoTask, To, Kept, None
<1>13. CASE TakeUp
  BY <1>13, OpenerTypes, PlayTypes, HeadTypes, PlayTypes DEF TakeUp, ScheduleIdle, NoTask, None
<1>14. CASE Idle
  BY <1>14, OpenerTypes, PlayTypes, HeadTypes, PlayTypes DEF Idle, world, None
<1>15. CASE TtsStart
  BY <1>15, OpenerTypes, PlayTypes, HeadTypes, PlayTypes DEF TtsStart, None
<1>16. CASE TtsDone
  BY <1>16, OpenerTypes, PlayTypes, HeadTypes, PlayTypes DEF TtsDone, SettleAll, None
<1>17. CASE MouthStops
  BY <1>17, OpenerTypes, PlayTypes, HeadTypes, PlayTypes DEF MouthStops, router, None
<1>18. CASE Deadline
  BY <1>18, OpenerTypes, PlayTypes, HeadTypes, PlayTypes DEF Deadline, SettleAll, world, None
<1>19. CASE BargeIn
  BY <1>19, OpenerTypes, PlayTypes, HeadTypes, PlayTypes DEF BargeIn, None
<1>20. CASE Guard
  BY <1>20, OpenerTypes, PlayTypes, HeadTypes, PlayTypes DEF Guard, router, None
<1>21. ASSUME NEW t \in Texts, Speak(t) PROVE NumbersT'
  BY <1>21, OpenerTypes, PlayTypes, HeadTypes, PlayTypes DEF Speak, router, None
<1>22. ASSUME NEW lost \in {"ears", "mouth"}, Rebuild(lost) PROVE NumbersT'
  BY <1>22, OpenerTypes, PlayTypes, HeadTypes, PlayTypes DEF Rebuild, NoTask, None
<1>23. CASE UNCHANGED vars
  BY <1>23 DEF vars, router, world, None
<1> QED
  BY <1>1, <1>2, <1>3, <1>4, <1>5, <1>6, <1>7, <1>8, <1>9, <1>10, <1>11, <1>12, <1>13, <1>14, <1>15, <1>16, <1>17, <1>18, <1>19, <1>20, <1>21, <1>22, <1>23 DEF Next, EarsEvent
LEMMA TaskS == ASSUME TypeOK, PlaysItsTrain, [Next]_vars PROVE TaskT'
<1> USE DEF TaskT, TypeOK
<1>1. CASE ResumeHeld
  BY <1>1, ResumeHeldTask
<1>2. CASE Wake
  BY <1>2, TaskTypes, KindTypes, TaskChange, PlayTypes, OpenerTypes, PlayTypes DEF Wake, Receive
<1>3. CASE WakeIgnored
  BY <1>3, TaskTypes, KindTypes, TaskChange, PlayTypes, OpenerTypes, PlayTypes DEF WakeIgnored, Receive, router
<1>4. CASE Final
  BY <1>4, TaskTypes, KindTypes, TaskChange, PlayTypes, OpenerTypes, PlayTypes DEF Final, Receive
<1>5. CASE GreetFallback
  BY <1>5, TaskTypes, KindTypes, TaskChange, PlayTypes, OpenerTypes, PlayTypes DEF GreetFallback
<1>6. CASE Timeout
  BY <1>6, TaskTypes, KindTypes, TaskChange, PlayTypes, OpenerTypes, PlayTypes DEF Timeout, Receive, To, Kept
<1>7. CASE TurnEnd
  BY <1>7, TurnEndTask, TurnCases
<1>8. CASE FirstDelta
  BY <1>8, TaskTypes, KindTypes, TaskChange, PlayTypes, OpenerTypes, PlayTypes DEF FirstDelta, Thinks
<1>9. CASE BrainDone
  BY <1>9, TaskTypes, KindTypes, TaskChange, PlayTypes, OpenerTypes, PlayTypes DEF BrainDone, router
<1>10. CASE Hmm
  BY <1>10, TaskTypes, KindTypes, TaskChange, PlayTypes, OpenerTypes, PlayTypes DEF Hmm, Masks
<1>11. CASE Filler
  BY <1>11, TaskTypes, KindTypes, TaskChange, PlayTypes, OpenerTypes, PlayTypes DEF Filler, Masks
<1>12. CASE Resume
  BY <1>12, ResumeTask
<1>13. CASE TakeUp
  BY <1>13, TaskTypes, KindTypes, TaskChange, PlayTypes, OpenerTypes, PlayTypes DEF TakeUp, ScheduleIdle, NoTask
<1>14. CASE Idle
  BY <1>14, TaskTypes, KindTypes, TaskChange, PlayTypes, OpenerTypes, PlayTypes DEF Idle, world
<1>15. CASE TtsStart
  BY <1>15, TaskTypes, KindTypes, TaskChange, PlayTypes, OpenerTypes, PlayTypes DEF TtsStart
<1>16. CASE TtsDone
  BY <1>16, TaskTypes, KindTypes, TaskChange, PlayTypes, OpenerTypes, PlayTypes DEF TtsDone, SettleAll
<1>17. CASE MouthStops
  BY <1>17, TaskTypes, KindTypes, TaskChange, PlayTypes, OpenerTypes, PlayTypes DEF MouthStops, router
<1>18. CASE Deadline
  BY <1>18, TaskTypes, KindTypes, TaskChange, PlayTypes, OpenerTypes, PlayTypes DEF Deadline, SettleAll, world
<1>19. CASE BargeIn
  BY <1>19, TaskTypes, KindTypes, TaskChange, PlayTypes, OpenerTypes, PlayTypes DEF BargeIn
<1>20. CASE Guard
  BY <1>20, TaskTypes, KindTypes, TaskChange, PlayTypes, OpenerTypes, PlayTypes DEF Guard, router
<1>21. ASSUME NEW t \in Texts, Speak(t) PROVE TaskT'
  BY <1>21, TaskTypes, KindTypes, TaskChange, PlayTypes, OpenerTypes, PlayTypes DEF Speak, router
<1>22. ASSUME NEW lost \in {"ears", "mouth"}, Rebuild(lost) PROVE TaskT'
  BY <1>22, TaskTypes, KindTypes, TaskChange, PlayTypes, OpenerTypes, PlayTypes DEF Rebuild, NoTask
<1>23. CASE UNCHANGED vars
  BY <1>23 DEF vars, router, world
<1> QED
  BY <1>1, <1>2, <1>3, <1>4, <1>5, <1>6, <1>7, <1>8, <1>9, <1>10, <1>11, <1>12, <1>13, <1>14, <1>15, <1>16, <1>17, <1>18, <1>19, <1>20, <1>21, <1>22, <1>23 DEF Next, EarsEvent
LEMMA FinalS == ASSUME TypeOK, PlaysItsTrain, [Next]_vars PROVE FinalT'
<1> USE DEF FinalT, TypeOK
<1>1. CASE ResumeHeld
  BY <1>1, FinalTypes, HeardTypes DEF ResumeHeld, Receive, To
<1>2. CASE Wake
  BY <1>2, FinalTypes, HeardTypes DEF Wake, Receive
<1>3. CASE WakeIgnored
  BY <1>3, FinalTypes, HeardTypes DEF WakeIgnored, Receive, router
<1>4. CASE Final
  BY <1>4, FinalTypes, HeardTypes DEF Final, Receive
<1>5. CASE GreetFallback
  BY <1>5, FinalTypes, HeardTypes DEF GreetFallback
<1>6. CASE Timeout
  BY <1>6, FinalTypes, HeardTypes DEF Timeout, Receive, To, Kept
<1>7. CASE TurnEnd
  BY <1>7, TurnCases, FinalTypes, HeardTypes DEF IgnoredTurn, HandlePause, Goodbye, Respond, ScheduleIdle, NoTask, To
<1>8. CASE FirstDelta
  BY <1>8, FinalTypes, HeardTypes DEF FirstDelta, Thinks
<1>9. CASE BrainDone
  BY <1>9, FinalTypes, HeardTypes DEF BrainDone, router
<1>10. CASE Hmm
  BY <1>10, FinalTypes, HeardTypes DEF Hmm, Masks
<1>11. CASE Filler
  BY <1>11, FinalTypes, HeardTypes DEF Filler, Masks
<1>12. CASE Resume
  BY <1>12, FinalTypes, HeardTypes DEF Resume, AnswerWritten, NothingSaid, Answered, Greeted, Parted, Recovered, Present, ScheduleIdle, NoTask, To, Kept
<1>13. CASE TakeUp
  BY <1>13, FinalTypes, HeardTypes DEF TakeUp, ScheduleIdle, NoTask
<1>14. CASE Idle
  BY <1>14, FinalTypes, HeardTypes DEF Idle, world
<1>15. CASE TtsStart
  BY <1>15, FinalTypes, HeardTypes DEF TtsStart
<1>16. CASE TtsDone
  BY <1>16, FinalTypes, HeardTypes DEF TtsDone, SettleAll
<1>17. CASE MouthStops
  BY <1>17, FinalTypes, HeardTypes DEF MouthStops, router
<1>18. CASE Deadline
  BY <1>18, FinalTypes, HeardTypes DEF Deadline, SettleAll, world
<1>19. CASE BargeIn
  BY <1>19, FinalTypes, HeardTypes DEF BargeIn
<1>20. CASE Guard
  BY <1>20, FinalTypes, HeardTypes DEF Guard, router
<1>21. ASSUME NEW t \in Texts, Speak(t) PROVE FinalT'
  BY <1>21, FinalTypes, HeardTypes DEF Speak, router
<1>22. ASSUME NEW lost \in {"ears", "mouth"}, Rebuild(lost) PROVE FinalT'
  BY <1>22, FinalTypes, HeardTypes DEF Rebuild, NoTask
<1>23. CASE UNCHANGED vars
  BY <1>23 DEF vars, router, world
<1> QED
  BY <1>1, <1>2, <1>3, <1>4, <1>5, <1>6, <1>7, <1>8, <1>9, <1>10, <1>11, <1>12, <1>13, <1>14, <1>15, <1>16, <1>17, <1>18, <1>19, <1>20, <1>21, <1>22, <1>23 DEF Next, EarsEvent
LEMMA UttsS == ASSUME TypeOK, PlaysItsTrain, [Next]_vars PROVE UttsT'
<1> USE DEF UttsT, TypeOK
<1>1. CASE ResumeHeld
  BY <1>1, Utts, BeginTypes, PlayTypes, OpenerTypes, PlayTypes DEF ResumeHeld, Receive, To
<1>2. CASE Wake
  BY <1>2, Utts, BeginTypes, PlayTypes, OpenerTypes, PlayTypes DEF Wake, Receive
<1>3. CASE WakeIgnored
  BY <1>3, Utts, BeginTypes, PlayTypes, OpenerTypes, PlayTypes DEF WakeIgnored, Receive, router
<1>4. CASE Final
  BY <1>4, Utts, BeginTypes, PlayTypes, OpenerTypes, PlayTypes DEF Final, Receive
<1>5. CASE GreetFallback
  BY <1>5, Utts, BeginTypes, PlayTypes, OpenerTypes, PlayTypes DEF GreetFallback
<1>6. CASE Timeout
  BY <1>6, Utts, BeginTypes, PlayTypes, OpenerTypes, PlayTypes DEF Timeout, Receive, To, Kept
<1>7. CASE TurnEnd
  BY <1>7, TurnEndUtts, TurnCases
<1>8. CASE FirstDelta
  BY <1>8, Utts, BeginTypes, PlayTypes, OpenerTypes, PlayTypes DEF FirstDelta, Thinks
<1>9. CASE BrainDone
  BY <1>9, Utts, BeginTypes, PlayTypes, OpenerTypes, PlayTypes DEF BrainDone, router
<1>10. CASE Hmm
  BY <1>10, HmmUtts
<1>11. CASE Filler
  BY <1>11, Utts, BeginTypes, PlayTypes, OpenerTypes, PlayTypes DEF Filler, Masks
<1>12. CASE Resume
  BY <1>12, Utts, BeginTypes, PlayTypes, OpenerTypes, PlayTypes DEF Resume, AnswerWritten, NothingSaid, Answered, Greeted, Parted, Recovered, Present, ScheduleIdle, NoTask, To, Kept
<1>13. CASE TakeUp
  BY <1>13, Utts, BeginTypes, PlayTypes, OpenerTypes, PlayTypes DEF TakeUp, ScheduleIdle, NoTask
<1>14. CASE Idle
  BY <1>14, Utts, BeginTypes, PlayTypes, OpenerTypes, PlayTypes DEF Idle, world
<1>15. CASE TtsStart
  BY <1>15, Utts, BeginTypes, PlayTypes, OpenerTypes, PlayTypes DEF TtsStart
<1>16. CASE TtsDone
  BY <1>16, TtsDoneUtts
<1>17. CASE MouthStops
  BY <1>17, Utts, BeginTypes, PlayTypes, OpenerTypes, PlayTypes DEF MouthStops, router
<1>18. CASE Deadline
  BY <1>18, Utts, BeginTypes, PlayTypes, OpenerTypes, PlayTypes DEF Deadline, SettleAll, world
<1>19. CASE BargeIn
  BY <1>19, Utts, BeginTypes, PlayTypes, OpenerTypes, PlayTypes DEF BargeIn
<1>20. CASE Guard
  BY <1>20, Utts, BeginTypes, PlayTypes, OpenerTypes, PlayTypes DEF Guard, router
<1>21. ASSUME NEW t \in Texts, Speak(t) PROVE UttsT'
  BY <1>21, Utts, BeginTypes, PlayTypes, OpenerTypes, PlayTypes DEF Speak, router
<1>22. ASSUME NEW lost \in {"ears", "mouth"}, Rebuild(lost) PROVE UttsT'
  BY <1>22, RebuildUtts
<1>23. CASE UNCHANGED vars
  BY <1>23 DEF vars, router, world
<1> QED
  BY <1>1, <1>2, <1>3, <1>4, <1>5, <1>6, <1>7, <1>8, <1>9, <1>10, <1>11, <1>12, <1>13, <1>14, <1>15, <1>16, <1>17, <1>18, <1>19, <1>20, <1>21, <1>22, <1>23 DEF Next, EarsEvent
LEMMA HeardS == ASSUME TypeOK, PlaysItsTrain, [Next]_vars PROVE HeardT'
<1> USE DEF HeardT, TypeOK
<1>1. CASE ResumeHeld
  BY <1>1, HeardTypes, EventTypes, Trains DEF ResumeHeld, Receive, To, None
<1>2. CASE Wake
  BY <1>2, HeardTypes, EventTypes, Trains DEF Wake, Receive, None
<1>3. CASE WakeIgnored
  BY <1>3, HeardTypes, EventTypes, Trains DEF WakeIgnored, Receive, router, None
<1>4. CASE Final
  BY <1>4, HeardTypes, EventTypes, Trains DEF Final, Receive, None
<1>5. CASE GreetFallback
  BY <1>5, HeardTypes, EventTypes, Trains DEF GreetFallback, None
<1>6. CASE Timeout
  BY <1>6, HeardTypes, EventTypes, Trains DEF Timeout, Receive, To, Kept, None
<1>7. CASE TurnEnd
  BY <1>7, TurnCases, HeardTypes, EventTypes, Trains DEF IgnoredTurn, HandlePause, Goodbye, Respond, ScheduleIdle, NoTask, To, None
<1>8. CASE FirstDelta
  BY <1>8, HeardTypes, EventTypes, Trains DEF FirstDelta, Thinks, None
<1>9. CASE BrainDone
  BY <1>9, HeardTypes, EventTypes, Trains DEF BrainDone, router, None
<1>10. CASE Hmm
  BY <1>10, HeardTypes, EventTypes, Trains DEF Hmm, Masks, None
<1>11. CASE Filler
  BY <1>11, HeardTypes, EventTypes, Trains DEF Filler, Masks, None
<1>12. CASE Resume
  BY <1>12, HeardTypes, EventTypes, Trains DEF Resume, AnswerWritten, NothingSaid, Answered, Greeted, Parted, Recovered, Present, ScheduleIdle, NoTask, To, Kept, None
<1>13. CASE TakeUp
  BY <1>13, HeardTypes, EventTypes, Trains DEF TakeUp, ScheduleIdle, NoTask, None
<1>14. CASE Idle
  BY <1>14, HeardTypes, EventTypes, Trains DEF Idle, world, None
<1>15. CASE TtsStart
  BY <1>15, HeardTypes, EventTypes, Trains DEF TtsStart, None
<1>16. CASE TtsDone
  BY <1>16, HeardTypes, EventTypes, Trains DEF TtsDone, SettleAll, None
<1>17. CASE MouthStops
  BY <1>17, HeardTypes, EventTypes, Trains DEF MouthStops, router, None
<1>18. CASE Deadline
  BY <1>18, HeardTypes, EventTypes, Trains DEF Deadline, SettleAll, world, None
<1>19. CASE BargeIn
  BY <1>19, HeardTypes, EventTypes, Trains DEF BargeIn, None
<1>20. CASE Guard
  BY <1>20, EventTypes DEF Guard
<1>21. ASSUME NEW t \in Texts, Speak(t) PROVE HeardT'
  BY <1>21, SpeakHeard
<1>22. ASSUME NEW lost \in {"ears", "mouth"}, Rebuild(lost) PROVE HeardT'
  BY <1>22, HeardTypes, EventTypes, Trains DEF Rebuild, NoTask, None
<1>23. CASE UNCHANGED vars
  BY <1>23 DEF vars, router, world, None
<1> QED
  BY <1>1, <1>2, <1>3, <1>4, <1>5, <1>6, <1>7, <1>8, <1>9, <1>10, <1>11, <1>12, <1>13, <1>14, <1>15, <1>16, <1>17, <1>18, <1>19, <1>20, <1>21, <1>22, <1>23 DEF Next, EarsEvent
-----------------------------------------------------------------------------
(* What each handler does to the gate, the interaction and the mouth. *)
\* An interaction that begins by a fixed phrase.
Starts(K) ==
  /\ busy' = TRUE /\ turn' = turn + 1 /\ turn' \in Nat /\ task' \in Tasks /\ task'.kind \in K
  /\ inFlight' = inFlight \union {<<turn + 1, "fixed">>}
  /\ train' = train \/ train' = Append(train, <<turn + 1, "fixed">>)

LEMMA OpenerStarts ==
  ASSUME TypeOK, NEW t, NEW w, NEW f, HandleOpener(t, w, f)
  PROVE  Starts({"hello", "goodnight"})
  BY OpenerTypes DEF Starts

LEMMA TaskKinds ==
  /\ Task("rest") \in Tasks /\ Task("rest").kind = "rest"
  /\ Task("think") \in Tasks /\ Task("think").kind = "think"
  /\ Task("voice") \in Tasks /\ Task("voice").kind = "voice"
  /\ Task("goodbye") \in Tasks /\ Task("goodbye").kind = "goodbye"
  /\ Task("presence") \in Tasks /\ Task("presence").kind = "presence"
  /\ Task("recovery") \in Tasks /\ Task("recovery").kind = "recovery"
  BY TaskTypes, KindTypes

LEMMA ResumeHeldEffect ==
  ASSUME TypeOK, ResumeHeld
  PROVE  /\ ~busy /\ Starts({"presence"})
         /\ UNCHANGED <<idle, greet, gate, bargeArmed, armedUtt, thought, writing, mouth, playing>>
<1>1. PlayFixed(Task("presence"))
  BY DEF ResumeHeld
<1>2. Starts({"presence"})
  BY <1>1, PlayTypes, TaskKinds DEF Starts
<1> QED
  BY <1>2 DEF ResumeHeld

LEMMA WakeEffect ==
  ASSUME TypeOK, Wake
  PROVE  /\ \/ UNCHANGED <<busy, task, turn, greet, inFlight, train>>
            \/ ~busy /\ Starts({"hello", "goodnight"}) /\ greet' = greet
            \/ ~busy /\ busy' = TRUE /\ greet' # None /\ UNCHANGED <<task, turn, inFlight, train>>
         /\ UNCHANGED <<idle, mode, gate, bargeArmed, armedUtt, thought, writing, mouth, playing>>
<1>1. heard # <<>>
  BY DEF Wake, Receive
<1>2. CASE busy
  BY <1>2 DEF Wake
<1>3. CASE ~busy /\ ~final.used
  BY <1>3, OpenerStarts DEF Wake
<1>4. CASE ~busy /\ final.used
  BY <1>1, <1>4, HeadTypes DEF Wake
<1> QED
  BY <1>2, <1>3, <1>4

LEMMA FinalEffect ==
  ASSUME TypeOK, Final
  PROVE  /\ \/ greet = None /\ UNCHANGED <<busy, task, turn, greet, inFlight, train>>
            \/ greet # None /\ greet' = None /\ Starts({"hello", "goodnight"})
         /\ UNCHANGED <<idle, mode, gate, bargeArmed, armedUtt, thought, held, writing, mouth, playing>>
<1>1. CASE greet = None
  BY <1>1 DEF Final
<1>2. CASE greet # None
  BY <1>2, OpenerStarts DEF Final
<1> QED
  BY <1>1, <1>2

LEMMA GreetFallbackEffect ==
  ASSUME TypeOK, GreetFallback
  PROVE  /\ greet # None /\ greet' = None /\ Starts({"hello", "goodnight"})
         /\ UNCHANGED <<idle, mode, gate, bargeArmed, armedUtt, thought, held, writing, mouth, playing>>
  BY OpenerStarts DEF GreetFallback

LEMMA TurnEndEffect ==
  ASSUME TypeOK, TurnEnd
  PROVE  /\ \/ UNCHANGED <<busy, task, turn, idle, mode, thought, held, inFlight, train, writing>>
            \/ /\ ~busy /\ mode # "pause" /\ held # None /\ busy' = TRUE /\ task'.kind = "rest" /\ task' \in Tasks /\ idle' = TRUE
               /\ mode' \in {mode, "pause"} /\ UNCHANGED <<turn, thought, held, inFlight, writing, train>>
            \/ /\ ~busy /\ mode # "pause" /\ Starts({"goodbye"}) /\ UNCHANGED <<idle, mode, thought, writing>>
            \/ /\ ~busy /\ mode # "pause" /\ busy' = TRUE /\ turn' = turn + 1 /\ task'.kind = "think" /\ task' = Task("think")
               /\ writing' = writing \union {turn + 1} /\ UNCHANGED <<idle, mode, inFlight, train>>
         /\ UNCHANGED <<greet, gate, bargeArmed, armedUtt, mouth, playing>>
<1>1. UNCHANGED <<greet, gate, bargeArmed, armedUtt, mouth, playing>>
  BY TurnCases
<1>2. CASE IgnoredTurn
  BY <1>1, <1>2 DEF IgnoredTurn
<1>3. CASE ~busy /\ mode # "pause" /\ held # None /\ HandlePause
  BY <1>1, <1>3, TaskKinds DEF HandlePause, ScheduleIdle, NoTask, To
<1>4. CASE ~busy /\ mode # "pause" /\ PlayFixed(Task("goodbye")) /\ Goodbye
  <2>1. Starts({"goodbye"})
    BY <1>4, PlayTypes, TaskKinds DEF Starts
  <2>2. UNCHANGED <<idle, mode, thought, writing>>
    BY <1>4 DEF Goodbye
  <2> QED
    BY <1>1, <1>4, <2>1, <2>2
<1>5. CASE ~busy /\ mode # "pause" /\ Respond
  BY <1>1, <1>5, TaskKinds DEF Respond
<1> QED
  BY <1>2, <1>3, <1>4, <1>5, TurnTask

LEMMA ResumeEffect ==
  ASSUME TypeOK, Resume
  PROVE  /\ \/ /\ task.kind = "think" /\ turn \notin writing /\ task'.kind = "voice"
               /\ task' = [task EXCEPT !.kind = "voice"] /\ UNCHANGED <<idle, mode, held, thought>>
               /\ \/ task.open /\ UNCHANGED <<inFlight, train>>
                  \/ ~task.open /\ Begin(<<turn, "fixed">>)
            \/ /\ task.kind = "presence" /\ Awaited = {} /\ task'.kind = "whole"
               /\ task' = [task EXCEPT !.kind = "whole"] /\ UNCHANGED <<idle, inFlight, train, mode, held, thought>>
            \/ /\ task.kind \in {"voice", "hello", "goodnight", "goodbye", "recovery"} /\ Awaited = {}
               /\ task'.kind = "rest" /\ task' = NoTask /\ idle' = TRUE /\ UNCHANGED <<inFlight, train>>
         /\ UNCHANGED <<busy, turn, greet, gate, bargeArmed, armedUtt, writing, mouth, playing>>
<1>1. UNCHANGED <<busy, turn, greet, gate, bargeArmed, armedUtt, writing, mouth, playing>>
  BY DEF Resume
<1>2. task \in Tasks
  BY DEF TypeOK
<1>3. CASE AnswerWritten \/ NothingSaid
  <2>1. task.kind = "think" /\ turn \notin writing /\ task' = [task EXCEPT !.kind = "voice"]
    BY <1>3 DEF Resume, Runnable, AnswerWritten, NothingSaid, Fixed
  <2>2. task'.kind = "voice"
    BY <2>1, <1>2, TaskChange, KindTypes
  <2>3. /\ UNCHANGED <<idle, mode, held, thought>>
        /\ \/ task.open /\ UNCHANGED <<inFlight, train>>
           \/ ~task.open /\ Begin(<<turn, "fixed">>)
    BY <1>3 DEF AnswerWritten, NothingSaid
  <2> QED
    BY <1>1, <2>1, <2>2, <2>3
<1>4. CASE Present
  <2>1. task.kind = "presence" /\ Awaited = {} /\ task' = [task EXCEPT !.kind = "whole"]
    BY <1>4 DEF Resume, Runnable, Present, Fixed
  <2>2. task'.kind = "whole"
    BY <2>1, <1>2, TaskChange, KindTypes
  <2> QED
    BY <1>1, <1>4, <2>1, <2>2 DEF Present
<1>5. CASE Answered \/ Greeted \/ Parted \/ Recovered
  <2>1. task.kind \in {"voice", "hello", "goodnight", "goodbye", "recovery"} /\ Awaited = {}
    BY <1>5 DEF Resume, Runnable, Answered, Greeted, Parted, Recovered, Fixed
  <2>2. task' = NoTask /\ idle' = TRUE /\ UNCHANGED <<inFlight, train>>
    BY <1>5 DEF Answered, Greeted, Parted, Recovered, ScheduleIdle
  <2>3. task'.kind = "rest"
    BY <2>2, TaskKinds DEF NoTask
  <2> QED
    BY <1>1, <2>1, <2>2, <2>3
<1> QED
  BY <1>3, <1>4, <1>5 DEF Resume

\* What grows the train leaves it with something to say.
LEMMA Grown ==
  ASSUME TypeOK, NEW u \in Utterances
  PROVE  Append(train, u) # <<>>
<1>1. train \in Seq(Utterances) /\ Len(train) \in Nat
  BY DEF TypeOK
<1>2. Len(Append(train, u)) = Len(train) + 1 /\ Len(<<>>) = 0
  BY <1>1
<1> QED
  BY <1>1, <1>2

LEMMA PlaysS == ASSUME TypeOK, PlaysItsTrain, [Next]_vars PROVE PlaysItsTrain'
<1> USE DEF PlaysItsTrain, TypeOK
<1>1. CASE ResumeHeld
  BY <1>1, ResumeHeldEffect, Grown, Utts DEF Starts, Begin
<1>2. CASE Wake
  BY <1>2, WakeEffect, Grown, Utts DEF Starts, Begin
<1>3. CASE WakeIgnored
  BY <1>3, Grown, Utts DEF WakeIgnored, Receive, router, Begin
<1>4. CASE Final
  BY <1>4, FinalEffect, Grown, Utts DEF Starts, Begin
<1>5. CASE GreetFallback
  BY <1>5, GreetFallbackEffect, Grown, Utts DEF Starts, Begin
<1>6. CASE Timeout
  BY <1>6, Grown, Utts DEF Timeout, Receive, To, Kept, Begin
<1>7. CASE TurnEnd
  BY <1>7, TurnEndEffect, Grown, Utts DEF Starts, Begin
<1>8. CASE FirstDelta
  BY <1>8, Grown, Utts DEF FirstDelta, Thinks, Begin
<1>9. CASE BrainDone
  BY <1>9, Grown, Utts DEF BrainDone, router, Begin
<1>10. CASE Hmm
  BY <1>10, Grown, Utts DEF Hmm, Masks, Begin
<1>11. CASE Filler
  BY <1>11, Grown, Utts DEF Filler, Masks, Begin
<1>12. CASE Resume
  BY <1>12, ResumeEffect, Grown, Utts DEF Starts, Begin
<1>13. CASE TakeUp
  BY <1>13, Grown, Utts DEF TakeUp, ScheduleIdle, NoTask, Begin
<1>14. CASE Idle
  BY <1>14, Grown, Utts DEF Idle, world, Begin
<1>15. CASE TtsStart
  BY <1>15, Grown, Utts DEF TtsStart, Begin
<1>16. CASE TtsDone
  BY <1>16, Grown, Utts DEF TtsDone, SettleAll, Begin
<1>17. CASE MouthStops
  BY <1>17, Grown, Utts DEF MouthStops, router, Begin
<1>18. CASE Deadline
  BY <1>18, Grown, Utts DEF Deadline, SettleAll, world, Begin
<1>19. CASE BargeIn
  BY <1>19, Grown, Utts DEF BargeIn, Begin
<1>20. CASE Guard
  BY <1>20, Grown, Utts DEF Guard, router, Begin
<1>21. ASSUME NEW t \in Texts, Speak(t) PROVE PlaysItsTrain'
  BY <1>21, Grown, Utts DEF Speak, router, Begin
<1>22. ASSUME NEW lost \in {"ears", "mouth"}, Rebuild(lost) PROVE PlaysItsTrain'
  BY <1>22, Grown, Utts DEF Rebuild, NoTask, Begin
<1>23. CASE UNCHANGED vars
  BY <1>23 DEF vars, router, world, Begin
<1> QED
  BY <1>1, <1>2, <1>3, <1>4, <1>5, <1>6, <1>7, <1>8, <1>9, <1>10, <1>11, <1>12, <1>13, <1>14, <1>15, <1>16, <1>17, <1>18, <1>19, <1>20, <1>21, <1>22, <1>23 DEF Next, EarsEvent
-----------------------------------------------------------------------------
(* Control: one interaction at a time, and what it awaits is its own. *)
\* The opener awaited, the task and the idle timer exclude each other; busy is their union.
Exclusive ==
  /\ greet # None => task.kind = "rest" /\ ~idle
  /\ task.kind # "rest" => ~idle
  /\ busy <=> (greet # None \/ task.kind # "rest" \/ idle)
\* Only utterances of the interaction in progress are awaited.
OnlyThisTurn == \A u \in inFlight : u[1] = turn /\ task.kind # "rest"
\* Before the held thought is taken up, the mouth has said all it was asked.
WholeIsQuiet == task.kind = "whole" => inFlight = {}
\* The utterance that may be cut is awaited, and only it arms the barge-in.
ArmedAwaited == /\ armedUtt # <<>> => armedUtt \in inFlight
                /\ bargeArmed => armedUtt # <<>>
Control == Exclusive /\ OnlyThisTurn /\ WholeIsQuiet /\ ArmedAwaited


LEMMA AtRest == ASSUME Control, ~busy PROVE task.kind = "rest" /\ ~idle /\ greet = None /\ inFlight = {} /\ armedUtt = <<>> /\ ~bargeArmed
  BY DEF Control, Exclusive, OnlyThisTurn, ArmedAwaited
LEMMA Greeting == ASSUME Control, greet # None PROVE busy /\ task.kind = "rest" /\ ~idle /\ inFlight = {} /\ armedUtt = <<>> /\ ~bargeArmed
  BY DEF Control, Exclusive, OnlyThisTurn, ArmedAwaited
LEMMA Numbered == ASSUME Control, TypeOK, Awaited = {} PROVE inFlight = {}
  BY DEF Control, OnlyThisTurn, Awaited

LEMMA ExclS == ASSUME TypeOK, Control, [Next]_vars PROVE Exclusive'
<1> USE DEF Control, Exclusive
<1>1. CASE ResumeHeld
  BY <1>1, ResumeHeldEffect, AtRest, Greeting, Numbered DEF Starts
<1>2. CASE Wake
  <2>0. UNCHANGED <<idle, bargeArmed, armedUtt>>
    BY <1>2, WakeEffect
  <2>1. CASE UNCHANGED <<busy, task, turn, greet, inFlight, train>>
    BY <2>1, <2>0, AtRest, Greeting, Numbered DEF Control, Exclusive, Starts
  <2>2. CASE ~busy /\ Starts({"hello", "goodnight"}) /\ greet' = greet
    BY <2>2, <2>0, AtRest, Greeting, Numbered DEF Control, Exclusive, Starts
  <2>3. CASE ~busy /\ busy' = TRUE /\ greet' # None /\ UNCHANGED <<task, turn, inFlight, train>>
    BY <2>3, <2>0, AtRest, Greeting, Numbered DEF Control, Exclusive, Starts
  <2> QED
    BY <1>2, <2>1, <2>2, <2>3, WakeEffect
<1>3. CASE WakeIgnored
  BY <1>3, TaskKinds, TaskChange, KindTypes DEF WakeIgnored, Receive, router, None, TypeOK
<1>4. CASE Final
  <2>0. UNCHANGED <<idle, bargeArmed, armedUtt>>
    BY <1>4, FinalEffect
  <2>1. CASE greet = None /\ UNCHANGED <<busy, task, turn, greet, inFlight, train>>
    BY <2>1, <2>0, AtRest, Greeting, Numbered DEF Control, Exclusive, Starts
  <2>2. CASE greet # None /\ greet' = None /\ Starts({"hello", "goodnight"})
    BY <2>2, <2>0, AtRest, Greeting, Numbered DEF Control, Exclusive, Starts
  <2> QED
    BY <1>4, <2>1, <2>2, FinalEffect
<1>5. CASE GreetFallback
  BY <1>5, GreetFallbackEffect, AtRest, Greeting, Numbered DEF Starts
<1>6. CASE Timeout
  BY <1>6, TaskKinds, TaskChange, KindTypes DEF Timeout, Receive, To, Kept, None, TypeOK
<1>7. CASE TurnEnd
  <2>0. UNCHANGED <<greet, bargeArmed, armedUtt>>
    BY <1>7, TurnEndEffect
  <2>1. CASE UNCHANGED <<busy, task, turn, idle, mode, thought, held, inFlight, train, writing>>
    BY <2>1, <2>0, AtRest, Greeting, Numbered DEF Control, Exclusive, Starts
  <2>2. CASE ~busy /\ busy' = TRUE /\ task'.kind = "rest" /\ idle' = TRUE /\ UNCHANGED <<turn, inFlight>>
    BY <2>2, <2>0, AtRest, Greeting, Numbered DEF Control, Exclusive, Starts
  <2>3. CASE ~busy /\ Starts({"goodbye"}) /\ UNCHANGED idle
    BY <2>3, <2>0, AtRest, Greeting, Numbered DEF Control, Exclusive, Starts
  <2>4. CASE ~busy /\ busy' = TRUE /\ turn' = turn + 1 /\ task'.kind = "think" /\ UNCHANGED <<idle, inFlight>>
    BY <2>4, <2>0, AtRest, Greeting, Numbered DEF Control, Exclusive, Starts
  <2> QED
    BY <1>7, <2>1, <2>2, <2>3, <2>4, TurnEndEffect
<1>8. CASE FirstDelta
  BY <1>8, TaskKinds, TaskChange, KindTypes DEF FirstDelta, Thinks, None, TypeOK
<1>9. CASE BrainDone
  BY <1>9, TaskKinds, TaskChange, KindTypes DEF BrainDone, router, None, TypeOK
<1>10. CASE Hmm
  BY <1>10, TaskKinds, TaskChange, KindTypes DEF Hmm, Masks, None, TypeOK
<1>11. CASE Filler
  BY <1>11, TaskKinds, TaskChange, KindTypes DEF Filler, Masks, None, TypeOK
<1>12. CASE Resume
  <2>0. UNCHANGED <<busy, turn, greet, bargeArmed, armedUtt>>
    BY <1>12, ResumeEffect
  <2>1. CASE task.kind = "think" /\ task'.kind = "voice" /\ idle' = idle /\ UNCHANGED inFlight
    BY <2>1, <2>0, AtRest, Greeting, Numbered DEF Control, Exclusive, Starts
  <2>2. CASE task.kind = "think" /\ task'.kind = "voice" /\ idle' = idle /\ inFlight' = inFlight \union {<<turn, "fixed">>}
    BY <2>2, <2>0, AtRest, Greeting, Numbered DEF Control, Exclusive, Starts
  <2>3. CASE task.kind = "presence" /\ Awaited = {} /\ task'.kind = "whole" /\ UNCHANGED <<idle, inFlight>>
    BY <2>3, <2>0, AtRest, Greeting, Numbered DEF Control, Exclusive, Starts
  <2>4. CASE task.kind \in {"voice", "hello", "goodnight", "goodbye", "recovery"} /\ Awaited = {} /\ task'.kind = "rest" /\ idle' = TRUE /\ UNCHANGED inFlight
    BY <2>4, <2>0, AtRest, Greeting, Numbered DEF Control, Exclusive, Starts
  <2> QED
    BY <1>12, <2>1, <2>2, <2>3, <2>4, ResumeEffect DEF Begin
<1>13. CASE TakeUp
  BY <1>13, TaskKinds, TaskChange, KindTypes DEF TakeUp, ScheduleIdle, NoTask, None, TypeOK
<1>14. CASE Idle
  BY <1>14, TaskKinds, TaskChange, KindTypes DEF Idle, world, None, TypeOK
<1>15. CASE TtsStart
  BY <1>15, TaskKinds, TaskChange, KindTypes DEF TtsStart, None, TypeOK
<1>16. CASE TtsDone
  BY <1>16, TaskKinds, TaskChange, KindTypes DEF TtsDone, SettleAll, None, TypeOK
<1>17. CASE MouthStops
  BY <1>17, TaskKinds, TaskChange, KindTypes DEF MouthStops, router, None, TypeOK
<1>18. CASE Deadline
  BY <1>18, TaskKinds, TaskChange, KindTypes DEF Deadline, SettleAll, world, None, TypeOK
<1>19. CASE BargeIn
  <2>1. task'.kind = "voice" /\ UNCHANGED <<busy, idle, greet>>
    BY <1>19, TaskChange, KindTypes DEF BargeIn, TypeOK
  <2>2. task.kind # "rest"
    BY <1>19 DEF BargeIn, Control, ArmedAwaited, OnlyThisTurn
  <2> QED
    BY <2>1, <2>2 DEF Control, Exclusive
<1>20. CASE Guard
  BY <1>20, TaskKinds, TaskChange, KindTypes DEF Guard, router, None, TypeOK
<1>21. ASSUME NEW t \in Texts, Speak(t) PROVE Exclusive'
  BY <1>21, TaskKinds, TaskChange, KindTypes DEF Speak, router, None, TypeOK
<1>22. ASSUME NEW lost \in {"ears", "mouth"}, Rebuild(lost) PROVE Exclusive'
  BY <1>22, TaskKinds, TaskChange, KindTypes DEF Rebuild, NoTask, None, TypeOK
<1>23. CASE UNCHANGED vars
  BY <1>23 DEF vars, router, world, None, TypeOK
<1> QED
  BY <1>1, <1>2, <1>3, <1>4, <1>5, <1>6, <1>7, <1>8, <1>9, <1>10, <1>11, <1>12, <1>13, <1>14, <1>15, <1>16, <1>17, <1>18, <1>19, <1>20, <1>21, <1>22, <1>23 DEF Next, EarsEvent
LEMMA OnlyS == ASSUME TypeOK, Control, [Next]_vars PROVE OnlyThisTurn'
<1> USE DEF Control, OnlyThisTurn
<1>1. CASE ResumeHeld
  BY <1>1, ResumeHeldEffect, AtRest, Greeting, Numbered DEF Starts, Begin
<1>2. CASE Wake
  <2>0. UNCHANGED <<idle, bargeArmed, armedUtt>>
    BY <1>2, WakeEffect
  <2>1. CASE UNCHANGED <<busy, task, turn, greet, inFlight, train>>
    BY <2>1, <2>0, AtRest, Greeting, Numbered DEF Control, OnlyThisTurn, Starts
  <2>2. CASE ~busy /\ Starts({"hello", "goodnight"}) /\ greet' = greet
    BY <2>2, <2>0, AtRest, Greeting, Numbered DEF Control, OnlyThisTurn, Starts
  <2>3. CASE ~busy /\ busy' = TRUE /\ greet' # None /\ UNCHANGED <<task, turn, inFlight, train>>
    BY <2>3, <2>0, AtRest, Greeting, Numbered DEF Control, OnlyThisTurn, Starts
  <2> QED
    BY <1>2, <2>1, <2>2, <2>3, WakeEffect
<1>3. CASE WakeIgnored
  BY <1>3, TaskKinds, TaskChange, KindTypes DEF WakeIgnored, Receive, router, Runnable, Awaited, Begin, Fixed, TypeOK
<1>4. CASE Final
  <2>0. UNCHANGED <<idle, bargeArmed, armedUtt>>
    BY <1>4, FinalEffect
  <2>1. CASE greet = None /\ UNCHANGED <<busy, task, turn, greet, inFlight, train>>
    BY <2>1, <2>0, AtRest, Greeting, Numbered DEF Control, OnlyThisTurn, Starts
  <2>2. CASE greet # None /\ greet' = None /\ Starts({"hello", "goodnight"})
    BY <2>2, <2>0, AtRest, Greeting, Numbered DEF Control, OnlyThisTurn, Starts
  <2> QED
    BY <1>4, <2>1, <2>2, FinalEffect
<1>5. CASE GreetFallback
  BY <1>5, GreetFallbackEffect, AtRest, Greeting, Numbered DEF Starts, Begin
<1>6. CASE Timeout
  BY <1>6, TaskKinds, TaskChange, KindTypes DEF Timeout, Receive, To, Kept, Runnable, Awaited, Begin, Fixed, TypeOK
<1>7. CASE TurnEnd
  <2>0. UNCHANGED <<greet, bargeArmed, armedUtt>>
    BY <1>7, TurnEndEffect
  <2>1. CASE UNCHANGED <<busy, task, turn, idle, mode, thought, held, inFlight, train, writing>>
    BY <2>1, <2>0, AtRest, Greeting, Numbered DEF Control, OnlyThisTurn, Starts
  <2>2. CASE ~busy /\ busy' = TRUE /\ task'.kind = "rest" /\ idle' = TRUE /\ UNCHANGED <<turn, inFlight>>
    BY <2>2, <2>0, AtRest, Greeting, Numbered DEF Control, OnlyThisTurn, Starts
  <2>3. CASE ~busy /\ Starts({"goodbye"}) /\ UNCHANGED idle
    BY <2>3, <2>0, AtRest, Greeting, Numbered DEF Control, OnlyThisTurn, Starts
  <2>4. CASE ~busy /\ busy' = TRUE /\ turn' = turn + 1 /\ task'.kind = "think" /\ UNCHANGED <<idle, inFlight>>
    BY <2>4, <2>0, AtRest, Greeting, Numbered DEF Control, OnlyThisTurn, Starts
  <2> QED
    BY <1>7, <2>1, <2>2, <2>3, <2>4, TurnEndEffect
<1>8. CASE FirstDelta
  BY <1>8, TaskKinds, TaskChange, KindTypes DEF FirstDelta, Thinks, Runnable, Awaited, Begin, Fixed, TypeOK
<1>9. CASE BrainDone
  BY <1>9, TaskKinds, TaskChange, KindTypes DEF BrainDone, router, Runnable, Awaited, Begin, Fixed, TypeOK
<1>10. CASE Hmm
  BY <1>10, TaskKinds, TaskChange, KindTypes DEF Hmm, Masks, Runnable, Awaited, Begin, Fixed, TypeOK
<1>11. CASE Filler
  BY <1>11, TaskKinds, TaskChange, KindTypes DEF Filler, Masks, Runnable, Awaited, Begin, Fixed, TypeOK
<1>12. CASE Resume
  <2>0. UNCHANGED <<busy, turn, greet, bargeArmed, armedUtt>>
    BY <1>12, ResumeEffect
  <2>1. CASE task.kind = "think" /\ task'.kind = "voice" /\ idle' = idle /\ UNCHANGED inFlight
    BY <2>1, <2>0, AtRest, Greeting, Numbered DEF Control, OnlyThisTurn, Starts
  <2>2. CASE task.kind = "think" /\ task'.kind = "voice" /\ idle' = idle /\ inFlight' = inFlight \union {<<turn, "fixed">>}
    BY <2>2, <2>0, AtRest, Greeting, Numbered DEF Control, OnlyThisTurn, Starts
  <2>3. CASE task.kind = "presence" /\ Awaited = {} /\ task'.kind = "whole" /\ UNCHANGED <<idle, inFlight>>
    BY <2>3, <2>0, AtRest, Greeting, Numbered DEF Control, OnlyThisTurn, Starts
  <2>4. CASE task.kind \in {"voice", "hello", "goodnight", "goodbye", "recovery"} /\ Awaited = {} /\ task'.kind = "rest" /\ idle' = TRUE /\ UNCHANGED inFlight
    BY <2>4, <2>0, AtRest, Greeting, Numbered DEF Control, OnlyThisTurn, Starts
  <2> QED
    BY <1>12, <2>1, <2>2, <2>3, <2>4, ResumeEffect DEF Begin
<1>13. CASE TakeUp
  <2>1. inFlight = {} /\ turn' = turn
    BY <1>13 DEF TakeUp, Control, WholeIsQuiet
  <2>2. CASE inFlight' = {<<turn, "answer">>} /\ task' = Task("voice")
    BY <2>1, <2>2, TaskKinds DEF OnlyThisTurn
  <2>3. CASE inFlight' = {}
    BY <2>3 DEF OnlyThisTurn
  <2> QED
    BY <1>13, <2>1, <2>2, <2>3 DEF TakeUp, Begin
<1>14. CASE Idle
  BY <1>14, TaskKinds, TaskChange, KindTypes DEF Idle, world, Runnable, Awaited, Begin, Fixed, TypeOK
<1>15. CASE TtsStart
  BY <1>15, TaskKinds, TaskChange, KindTypes DEF TtsStart, Runnable, Awaited, Begin, Fixed, TypeOK
<1>16. CASE TtsDone
  BY <1>16, TaskKinds, TaskChange, KindTypes DEF TtsDone, SettleAll, Runnable, Awaited, Begin, Fixed, TypeOK
<1>17. CASE MouthStops
  BY <1>17, TaskKinds, TaskChange, KindTypes DEF MouthStops, router, Runnable, Awaited, Begin, Fixed, TypeOK
<1>18. CASE Deadline
  BY <1>18, TaskKinds, TaskChange, KindTypes DEF Deadline, SettleAll, world, Runnable, Awaited, Begin, Fixed, TypeOK
<1>19. CASE BargeIn
  BY <1>19, TaskKinds, TaskChange, KindTypes DEF BargeIn, Runnable, Awaited, Begin, Fixed, TypeOK
<1>20. CASE Guard
  BY <1>20, TaskKinds, TaskChange, KindTypes DEF Guard, router, Runnable, Awaited, Begin, Fixed, TypeOK
<1>21. ASSUME NEW t \in Texts, Speak(t) PROVE OnlyThisTurn'
  BY <1>21, TaskKinds, TaskChange, KindTypes DEF Speak, router, Runnable, Awaited, Begin, Fixed, TypeOK
<1>22. ASSUME NEW lost \in {"ears", "mouth"}, Rebuild(lost) PROVE OnlyThisTurn'
  BY <1>22, TaskKinds, TaskChange, KindTypes DEF Rebuild, NoTask, Runnable, Awaited, Begin, Fixed, TypeOK
<1>23. CASE UNCHANGED vars
  BY <1>23 DEF vars, router, world, Runnable, Awaited, Begin, Fixed, TypeOK
<1> QED
  BY <1>1, <1>2, <1>3, <1>4, <1>5, <1>6, <1>7, <1>8, <1>9, <1>10, <1>11, <1>12, <1>13, <1>14, <1>15, <1>16, <1>17, <1>18, <1>19, <1>20, <1>21, <1>22, <1>23 DEF Next, EarsEvent
LEMMA ArmedS == ASSUME TypeOK, Control, [Next]_vars PROVE ArmedAwaited'
<1> USE DEF Control, ArmedAwaited
<1>1. CASE ResumeHeld
  BY <1>1, ResumeHeldEffect, AtRest, Greeting, Numbered DEF Starts, Begin
<1>2. CASE Wake
  <2>0. UNCHANGED <<idle, bargeArmed, armedUtt>>
    BY <1>2, WakeEffect
  <2>1. CASE UNCHANGED <<busy, task, turn, greet, inFlight, train>>
    BY <2>1, <2>0, AtRest, Greeting, Numbered DEF Control, ArmedAwaited, Starts
  <2>2. CASE ~busy /\ Starts({"hello", "goodnight"}) /\ greet' = greet
    BY <2>2, <2>0, AtRest, Greeting, Numbered DEF Control, ArmedAwaited, Starts
  <2>3. CASE ~busy /\ busy' = TRUE /\ greet' # None /\ UNCHANGED <<task, turn, inFlight, train>>
    BY <2>3, <2>0, AtRest, Greeting, Numbered DEF Control, ArmedAwaited, Starts
  <2> QED
    BY <1>2, <2>1, <2>2, <2>3, WakeEffect
<1>3. CASE WakeIgnored
  BY <1>3, TaskKinds, TaskChange, KindTypes DEF WakeIgnored, Receive, router, Begin, TypeOK
<1>4. CASE Final
  <2>0. UNCHANGED <<idle, bargeArmed, armedUtt>>
    BY <1>4, FinalEffect
  <2>1. CASE greet = None /\ UNCHANGED <<busy, task, turn, greet, inFlight, train>>
    BY <2>1, <2>0, AtRest, Greeting, Numbered DEF Control, ArmedAwaited, Starts
  <2>2. CASE greet # None /\ greet' = None /\ Starts({"hello", "goodnight"})
    BY <2>2, <2>0, AtRest, Greeting, Numbered DEF Control, ArmedAwaited, Starts
  <2> QED
    BY <1>4, <2>1, <2>2, FinalEffect
<1>5. CASE GreetFallback
  BY <1>5, GreetFallbackEffect, AtRest, Greeting, Numbered DEF Starts, Begin
<1>6. CASE Timeout
  BY <1>6, TaskKinds, TaskChange, KindTypes DEF Timeout, Receive, To, Kept, Begin, TypeOK
<1>7. CASE TurnEnd
  <2>0. UNCHANGED <<greet, bargeArmed, armedUtt>>
    BY <1>7, TurnEndEffect
  <2>1. CASE UNCHANGED <<busy, task, turn, idle, mode, thought, held, inFlight, train, writing>>
    BY <2>1, <2>0, AtRest, Greeting, Numbered DEF Control, ArmedAwaited, Starts
  <2>2. CASE ~busy /\ busy' = TRUE /\ task'.kind = "rest" /\ idle' = TRUE /\ UNCHANGED <<turn, inFlight>>
    BY <2>2, <2>0, AtRest, Greeting, Numbered DEF Control, ArmedAwaited, Starts
  <2>3. CASE ~busy /\ Starts({"goodbye"}) /\ UNCHANGED idle
    BY <2>3, <2>0, AtRest, Greeting, Numbered DEF Control, ArmedAwaited, Starts
  <2>4. CASE ~busy /\ busy' = TRUE /\ turn' = turn + 1 /\ task'.kind = "think" /\ UNCHANGED <<idle, inFlight>>
    BY <2>4, <2>0, AtRest, Greeting, Numbered DEF Control, ArmedAwaited, Starts
  <2> QED
    BY <1>7, <2>1, <2>2, <2>3, <2>4, TurnEndEffect
<1>8. CASE FirstDelta
  BY <1>8, TaskKinds, TaskChange, KindTypes DEF FirstDelta, Thinks, Begin, TypeOK
<1>9. CASE BrainDone
  BY <1>9, TaskKinds, TaskChange, KindTypes DEF BrainDone, router, Begin, TypeOK
<1>10. CASE Hmm
  BY <1>10, TaskKinds, TaskChange, KindTypes DEF Hmm, Masks, Begin, TypeOK
<1>11. CASE Filler
  BY <1>11, TaskKinds, TaskChange, KindTypes DEF Filler, Masks, Begin, TypeOK
<1>12. CASE Resume
  <2>0. UNCHANGED <<busy, turn, greet, bargeArmed, armedUtt>>
    BY <1>12, ResumeEffect
  <2>1. CASE task.kind = "think" /\ task'.kind = "voice" /\ idle' = idle /\ UNCHANGED inFlight
    BY <2>1, <2>0, AtRest, Greeting, Numbered DEF Control, ArmedAwaited, Starts
  <2>2. CASE task.kind = "think" /\ task'.kind = "voice" /\ idle' = idle /\ inFlight' = inFlight \union {<<turn, "fixed">>}
    BY <2>2, <2>0, AtRest, Greeting, Numbered DEF Control, ArmedAwaited, Starts
  <2>3. CASE task.kind = "presence" /\ Awaited = {} /\ task'.kind = "whole" /\ UNCHANGED <<idle, inFlight>>
    BY <2>3, <2>0, AtRest, Greeting, Numbered DEF Control, ArmedAwaited, Starts
  <2>4. CASE task.kind \in {"voice", "hello", "goodnight", "goodbye", "recovery"} /\ Awaited = {} /\ task'.kind = "rest" /\ idle' = TRUE /\ UNCHANGED inFlight
    BY <2>4, <2>0, AtRest, Greeting, Numbered DEF Control, ArmedAwaited, Starts
  <2> QED
    BY <1>12, <2>1, <2>2, <2>3, <2>4, ResumeEffect DEF Begin
<1>13. CASE TakeUp
  <2>1. inFlight = {} /\ bargeArmed' = bargeArmed
    BY <1>13 DEF TakeUp, Control, WholeIsQuiet
  <2>2. armedUtt = <<>> /\ ~bargeArmed
    BY <2>1 DEF Control, ArmedAwaited
  <2>3. CASE inFlight' = {<<turn, "answer">>} /\ armedUtt' = <<turn, "answer">>
    BY <2>1, <2>2, <2>3 DEF ArmedAwaited
  <2>4. CASE armedUtt' = armedUtt
    BY <2>1, <2>2, <2>4 DEF ArmedAwaited
  <2> QED
    BY <1>13, <2>1, <2>3, <2>4 DEF TakeUp, Begin
<1>14. CASE Idle
  BY <1>14, TaskKinds, TaskChange, KindTypes DEF Idle, world, Begin, TypeOK
<1>15. CASE TtsStart
  <2>1. UNCHANGED <<armedUtt, inFlight>>
    BY <1>15 DEF TtsStart
  <2>2. train # <<>> /\ (bargeArmed' = bargeArmed \/ Head(train) = armedUtt)
    BY <1>15 DEF TtsStart
  <2>3. Head(train) \in Utterances
    BY <2>2 DEF TypeOK
  <2>4. <<>> \notin Utterances
    BY DEF Utterances
  <2> QED
    BY <2>1, <2>2, <2>3, <2>4 DEF Control, ArmedAwaited
<1>16. CASE TtsDone
  BY <1>16, TaskKinds, TaskChange, KindTypes DEF TtsDone, SettleAll, Begin, TypeOK
<1>17. CASE MouthStops
  BY <1>17, TaskKinds, TaskChange, KindTypes DEF MouthStops, router, Begin, TypeOK
<1>18. CASE Deadline
  BY <1>18, TaskKinds, TaskChange, KindTypes DEF Deadline, SettleAll, world, Begin, TypeOK
<1>19. CASE BargeIn
  BY <1>19, TaskKinds, TaskChange, KindTypes DEF BargeIn, Begin, TypeOK
<1>20. CASE Guard
  BY <1>20, TaskKinds, TaskChange, KindTypes DEF Guard, router, Begin, TypeOK
<1>21. ASSUME NEW t \in Texts, Speak(t) PROVE ArmedAwaited'
  BY <1>21, TaskKinds, TaskChange, KindTypes DEF Speak, router, Begin, TypeOK
<1>22. ASSUME NEW lost \in {"ears", "mouth"}, Rebuild(lost) PROVE ArmedAwaited'
  BY <1>22, TaskKinds, TaskChange, KindTypes DEF Rebuild, NoTask, Begin, TypeOK
<1>23. CASE UNCHANGED vars
  BY <1>23 DEF vars, router, world, Begin, TypeOK
<1> QED
  BY <1>1, <1>2, <1>3, <1>4, <1>5, <1>6, <1>7, <1>8, <1>9, <1>10, <1>11, <1>12, <1>13, <1>14, <1>15, <1>16, <1>17, <1>18, <1>19, <1>20, <1>21, <1>22, <1>23 DEF Next, EarsEvent
LEMMA WholeS == ASSUME TypeOK, Control, [Next]_vars PROVE WholeIsQuiet'
<1> USE DEF WholeIsQuiet
<1>1. CASE ResumeHeld
  BY <1>1, ResumeHeldEffect, AtRest, Greeting, Numbered DEF Starts, Control, OnlyThisTurn
<1>2. CASE Wake
  BY <1>2, WakeEffect, AtRest, Greeting, Numbered DEF Starts, Control, OnlyThisTurn
<1>3. CASE WakeIgnored
  BY <1>3, TaskKinds, TaskChange, KindTypes DEF WakeIgnored, Receive, router, Runnable, Awaited, Begin, Fixed, TypeOK, Control, Exclusive, OnlyThisTurn, WholeIsQuiet
<1>4. CASE Final
  BY <1>4, FinalEffect, AtRest, Greeting, Numbered DEF Starts, Control, OnlyThisTurn
<1>5. CASE GreetFallback
  BY <1>5, GreetFallbackEffect, AtRest, Greeting, Numbered DEF Starts, Control, OnlyThisTurn
<1>6. CASE Timeout
  BY <1>6, TaskKinds, TaskChange, KindTypes DEF Timeout, Receive, To, Kept, Runnable, Awaited, Begin, Fixed, TypeOK, Control, Exclusive, OnlyThisTurn, WholeIsQuiet
<1>7. CASE TurnEnd
  BY <1>7, TurnEndEffect, AtRest, Greeting, Numbered DEF Starts, Control, OnlyThisTurn
<1>8. CASE FirstDelta
  BY <1>8, TaskKinds, TaskChange, KindTypes DEF FirstDelta, Thinks, Runnable, Awaited, Begin, Fixed, TypeOK, Control, Exclusive, OnlyThisTurn, WholeIsQuiet
<1>9. CASE BrainDone
  BY <1>9, TaskKinds, TaskChange, KindTypes DEF BrainDone, router, Runnable, Awaited, Begin, Fixed, TypeOK, Control, Exclusive, OnlyThisTurn, WholeIsQuiet
<1>10. CASE Hmm
  BY <1>10, TaskKinds, TaskChange, KindTypes DEF Hmm, Masks, Runnable, Awaited, Begin, Fixed, TypeOK, Control, Exclusive, OnlyThisTurn, WholeIsQuiet
<1>11. CASE Filler
  BY <1>11, TaskKinds, TaskChange, KindTypes DEF Filler, Masks, Runnable, Awaited, Begin, Fixed, TypeOK, Control, Exclusive, OnlyThisTurn, WholeIsQuiet
<1>12. CASE Resume
  BY <1>12, ResumeEffect, AtRest, Greeting, Numbered DEF Starts, Control, OnlyThisTurn
<1>13. CASE TakeUp
  BY <1>13, TaskKinds, TaskChange, KindTypes DEF TakeUp, ScheduleIdle, NoTask, Runnable, Awaited, Begin, Fixed, TypeOK, Control, Exclusive, OnlyThisTurn, WholeIsQuiet
<1>14. CASE Idle
  BY <1>14, TaskKinds, TaskChange, KindTypes DEF Idle, world, Runnable, Awaited, Begin, Fixed, TypeOK, Control, Exclusive, OnlyThisTurn, WholeIsQuiet
<1>15. CASE TtsStart
  BY <1>15, TaskKinds, TaskChange, KindTypes DEF TtsStart, Runnable, Awaited, Begin, Fixed, TypeOK, Control, Exclusive, OnlyThisTurn, WholeIsQuiet
<1>16. CASE TtsDone
  BY <1>16, TaskKinds, TaskChange, KindTypes DEF TtsDone, SettleAll, Runnable, Awaited, Begin, Fixed, TypeOK, Control, Exclusive, OnlyThisTurn, WholeIsQuiet
<1>17. CASE MouthStops
  BY <1>17, TaskKinds, TaskChange, KindTypes DEF MouthStops, router, Runnable, Awaited, Begin, Fixed, TypeOK, Control, Exclusive, OnlyThisTurn, WholeIsQuiet
<1>18. CASE Deadline
  BY <1>18, TaskKinds, TaskChange, KindTypes DEF Deadline, SettleAll, world, Runnable, Awaited, Begin, Fixed, TypeOK, Control, Exclusive, OnlyThisTurn, WholeIsQuiet
<1>19. CASE BargeIn
  BY <1>19, TaskKinds, TaskChange, KindTypes DEF BargeIn, Runnable, Awaited, Begin, Fixed, TypeOK, Control, Exclusive, OnlyThisTurn, WholeIsQuiet
<1>20. CASE Guard
  BY <1>20, TaskKinds, TaskChange, KindTypes DEF Guard, router, Runnable, Awaited, Begin, Fixed, TypeOK, Control, Exclusive, OnlyThisTurn, WholeIsQuiet
<1>21. ASSUME NEW t \in Texts, Speak(t) PROVE WholeIsQuiet'
  BY <1>21, TaskKinds, TaskChange, KindTypes DEF Speak, router, Runnable, Awaited, Begin, Fixed, TypeOK, Control, Exclusive, OnlyThisTurn, WholeIsQuiet
<1>22. ASSUME NEW lost \in {"ears", "mouth"}, Rebuild(lost) PROVE WholeIsQuiet'
  BY <1>22, TaskKinds, TaskChange, KindTypes DEF Rebuild, NoTask, Runnable, Awaited, Begin, Fixed, TypeOK, Control, Exclusive, OnlyThisTurn, WholeIsQuiet
<1>23. CASE UNCHANGED vars
  BY <1>23 DEF vars, router, world, Runnable, Awaited, Begin, Fixed, TypeOK, Control, Exclusive, OnlyThisTurn, WholeIsQuiet
<1> QED
  BY <1>1, <1>2, <1>3, <1>4, <1>5, <1>6, <1>7, <1>8, <1>9, <1>10, <1>11, <1>12, <1>13, <1>14, <1>15, <1>16, <1>17, <1>18, <1>19, <1>20, <1>21, <1>22, <1>23 DEF Next, EarsEvent
-----------------------------------------------------------------------------
(* A pause and its thought. *)
LEMMA PauseS == ASSUME TypeOK, PauseKeepsTheThought, [Next]_vars PROVE PauseKeepsTheThought'
<1> USE DEF PauseKeepsTheThought, TypeOK
<1>1. CASE ResumeHeld
  BY <1>1, OpenerTypes, PlayTypes DEF ResumeHeld, Receive, To, None
<1>2. CASE Wake
  BY <1>2, OpenerTypes, PlayTypes DEF Wake, Receive, None
<1>3. CASE WakeIgnored
  BY <1>3, OpenerTypes, PlayTypes DEF WakeIgnored, Receive, router, None
<1>4. CASE Final
  BY <1>4, OpenerTypes, PlayTypes DEF Final, Receive, None
<1>5. CASE GreetFallback
  BY <1>5, OpenerTypes, PlayTypes DEF GreetFallback, None
<1>6. CASE Timeout
  BY <1>6, OpenerTypes, PlayTypes DEF Timeout, Receive, To, Kept, None
<1>7. CASE TurnEnd
  BY <1>7, TurnCases, OpenerTypes, PlayTypes DEF IgnoredTurn, HandlePause, Goodbye, Respond, ScheduleIdle, NoTask, To, None
<1>8. CASE FirstDelta
  BY <1>8, OpenerTypes, PlayTypes DEF FirstDelta, Thinks, None
<1>9. CASE BrainDone
  BY <1>9, OpenerTypes, PlayTypes DEF BrainDone, router, None
<1>10. CASE Hmm
  BY <1>10, OpenerTypes, PlayTypes DEF Hmm, Masks, None
<1>11. CASE Filler
  BY <1>11, OpenerTypes, PlayTypes DEF Filler, Masks, None
<1>12. CASE Resume
  BY <1>12, OpenerTypes, PlayTypes DEF Resume, AnswerWritten, NothingSaid, Answered, Greeted, Parted, Recovered, Present, ScheduleIdle, NoTask, To, Kept, None
<1>13. CASE TakeUp
  BY <1>13, OpenerTypes, PlayTypes DEF TakeUp, ScheduleIdle, NoTask, None
<1>14. CASE Idle
  BY <1>14, OpenerTypes, PlayTypes DEF Idle, world, None
<1>15. CASE TtsStart
  BY <1>15, OpenerTypes, PlayTypes DEF TtsStart, None
<1>16. CASE TtsDone
  BY <1>16, OpenerTypes, PlayTypes DEF TtsDone, SettleAll, None
<1>17. CASE MouthStops
  BY <1>17, OpenerTypes, PlayTypes DEF MouthStops, router, None
<1>18. CASE Deadline
  BY <1>18, OpenerTypes, PlayTypes DEF Deadline, SettleAll, world, None
<1>19. CASE BargeIn
  BY <1>19, OpenerTypes, PlayTypes DEF BargeIn, None
<1>20. CASE Guard
  BY <1>20, OpenerTypes, PlayTypes DEF Guard, router, None
<1>21. ASSUME NEW t \in Texts, Speak(t) PROVE PauseKeepsTheThought'
  BY <1>21, OpenerTypes, PlayTypes DEF Speak, router, None
<1>22. ASSUME NEW lost \in {"ears", "mouth"}, Rebuild(lost) PROVE PauseKeepsTheThought'
  BY <1>22, OpenerTypes, PlayTypes DEF Rebuild, NoTask, None
<1>23. CASE UNCHANGED vars
  BY <1>23 DEF vars, router, world, None
<1> QED
  BY <1>1, <1>2, <1>3, <1>4, <1>5, <1>6, <1>7, <1>8, <1>9, <1>10, <1>11, <1>12, <1>13, <1>14, <1>15, <1>16, <1>17, <1>18, <1>19, <1>20, <1>21, <1>22, <1>23 DEF Next, EarsEvent
-----------------------------------------------------------------------------
(* The voice and the gate of the ears, when the brain does not stall. *)
\* All the mouth holds is awaited, and held once.
Train ==
  /\ \A i \in 1..Len(train) : train[i] \in inFlight
  /\ \A i, j \in 1..Len(train) : train[i] = train[j] => i = j
\* What is awaited was begun by the step of the interaction that begins it.
Fresh == \A u \in inFlight :
  /\ u[2] = "fixed" => task.kind \in Fixed \union {"voice"}
  /\ u[2] = "answer" => task.open \/ task.kind = "voice"
  /\ u[2] \in {"hmm", "filler"} => u[2] \in task.masks \/ task.kind = "voice"
\* The gate of the ears is shut by an interaction only, and while she sounds.
GateInv == /\ gate # "resume" => busy
           /\ playing => gate # "resume"
LEMMA TrainLen == ASSUME TypeOK PROVE train \in Seq(Utterances) /\ Len(train) \in Nat
  BY DEF TypeOK
LEMMA EmptyTrain == ASSUME train' = <<>> PROVE Train'
<1>1. Len(<<>>) = 0
  OBVIOUS
<1> QED
  BY <1>1 DEF Train
LEMMA SilentTrain == ASSUME TypeOK, Train, inFlight = {} PROVE train = <<>>
<1>1. train \in Seq(Utterances) /\ Len(train) \in Nat
  BY TrainLen
<1>2. Len(train) = 0
  BY <1>1 DEF Train
<1> QED
  BY <1>1, <1>2
LEMMA AppendTrain ==
  ASSUME TypeOK, Train, NEW u \in Utterances, u \notin inFlight, inFlight' = inFlight \union {u},
         train' = train \/ train' = Append(train, u)
  PROVE  Train'
<1>1. CASE train' = train
  BY <1>1 DEF Train
<1>2. CASE train' = Append(train, u)
  <2>1. train \in Seq(Utterances) /\ Len(train) \in Nat
    BY TrainLen
  <2>2. /\ Len(train') = Len(train) + 1 /\ train'[Len(train) + 1] = u
        /\ \A i \in 1..Len(train) : train'[i] = train[i]
    BY <1>2, <2>1
  <2>3. \A i \in 1..Len(train') : i \in 1..Len(train) \/ i = Len(train) + 1
    BY <2>1, <2>2
  <2> QED
    BY <2>1, <2>2, <2>3 DEF Train
<1> QED
  BY <1>1, <1>2
LEMMA TailTrain ==
  ASSUME TypeOK, Train, train # <<>>, train' = Tail(train), inFlight' = inFlight \ {Head(train)}
  PROVE  Train'
<1>1. train \in Seq(Utterances) /\ Len(train) \in Nat /\ Len(train) > 0
  BY TrainLen
<1>2. Len(train') = Len(train) - 1 /\ \A i \in 1..Len(train') : train'[i] = train[i + 1]
  BY <1>1
<1>3. Head(train) = train[1]
  BY <1>1
<1>4. \A i \in 1..Len(train') : i + 1 \in 1..Len(train) /\ i + 1 # 1
  BY <1>1, <1>2
<1> QED
  BY <1>1, <1>2, <1>3, <1>4 DEF Train
LEMMA StartsTrain ==
  ASSUME TypeOK, Train, inFlight = {}, NEW K, Starts(K)
  PROVE  Train'
<1> DEFINE u == <<turn + 1, "fixed">>
<1>1. turn + 1 \in Nat
  BY DEF TypeOK
<1>2. u \in Utterances
  BY <1>1, Utts
<1>3. inFlight' = inFlight \union {u} /\ (train' = train \/ train' = Append(train, u)) /\ u \notin inFlight
  BY DEF Starts
<1> HIDE DEF u
<1> QED
  BY <1>2, <1>3, AppendTrain
LEMMA BeginTrain ==
  ASSUME TypeOK, Train, NEW k \in {"fixed", "hmm", "filler", "answer"}, <<turn, k>> \notin inFlight, inFlight' = inFlight \union {<<turn, k>>},
         train' = train \/ train' = Append(train, <<turn, k>>)
  PROVE  Train'
<1> DEFINE u == <<turn, k>>
<1>1. turn \in Nat
  BY DEF TypeOK
<1>2. u \in Utterances
  BY <1>1, Utts
<1>3. inFlight' = inFlight \union {u} /\ (train' = train \/ train' = Append(train, u)) /\ u \notin inFlight
  OBVIOUS
<1> HIDE DEF u
<1> QED
  BY <1>2, <1>3, AppendTrain


LEMMA NotYet ==
  ASSUME Control, Fresh, task.kind = "think"
  PROVE  /\ <<turn, "fixed">> \notin inFlight
         /\ ~task.open => <<turn, "answer">> \notin inFlight
         /\ \A m \in {"hmm", "filler"} : m \notin task.masks => <<turn, m>> \notin inFlight
  BY DEF Fresh, Fixed
LEMMA UnstalledDeadline ==
  ASSUME ~BrainStalls, Deadline
  PROVE  /\ \E u \in inFlight : u \notin Sounding /\ inFlight' = inFlight \ {u}
         /\ UNCHANGED <<task, turn, busy, idle, greet, gate, train, playing>>
  BY DEF Deadline, Stalled, SettleAll, world

LEMMA TrainS == ASSUME TypeOK, Control, PlaysItsTrain, Train, Fresh, GateInv, ~BrainStalls, [Next]_vars PROVE Train'
<1> USE DEF Train
<1>1. CASE ResumeHeld
  <2>1. inFlight = {}
    BY <1>1, ResumeHeldEffect, AtRest
  <2> QED
    BY <1>1, <2>1, ResumeHeldEffect, StartsTrain
<1>2. CASE Wake
  <2>1. CASE UNCHANGED <<train, inFlight>>
    BY <2>1 DEF Train
  <2>2. CASE ~busy /\ Starts({"hello", "goodnight"})
    BY <2>2, AtRest, StartsTrain
  <2> QED
    BY <1>2, <2>1, <2>2, WakeEffect DEF Begin
<1>3. CASE WakeIgnored
  BY <1>3 DEF WakeIgnored, Receive, router
<1>4. CASE Final
  <2>1. CASE UNCHANGED <<train, inFlight>>
    BY <2>1 DEF Train
  <2>2. CASE greet # None /\ Starts({"hello", "goodnight"})
    BY <2>2, Greeting, StartsTrain
  <2> QED
    BY <1>4, <2>1, <2>2, FinalEffect DEF Begin
<1>5. CASE GreetFallback
  <2>1. inFlight = {}
    BY <1>5, GreetFallbackEffect, Greeting
  <2> QED
    BY <1>5, <2>1, GreetFallbackEffect, StartsTrain
<1>6. CASE Timeout
  BY <1>6 DEF Timeout, Receive, To, Kept
<1>7. CASE TurnEnd
  <2>1. CASE UNCHANGED <<train, inFlight>>
    BY <2>1 DEF Train
  <2>2. CASE ~busy /\ Starts({"goodbye"})
    BY <2>2, AtRest, StartsTrain
  <2> QED
    BY <1>7, <2>1, <2>2, TurnEndEffect DEF Begin
<1>8. CASE FirstDelta
  <2>1. <<turn, "answer">> \notin inFlight
    BY <1>8, NotYet DEF FirstDelta
  <2> QED
    BY <1>8, <2>1, BeginTrain DEF FirstDelta, Begin
<1>9. CASE BrainDone
  BY <1>9 DEF BrainDone, router
<1>10. CASE Hmm
  <2>1. <<turn, "hmm">> \notin inFlight
    BY <1>10, NotYet DEF Hmm, Masks
  <2> QED
    BY <1>10, <2>1, BeginTrain DEF Hmm
<1>11. CASE Filler
  <2>1. <<turn, "filler">> \notin inFlight
    BY <1>11, NotYet DEF Filler, Masks
  <2> QED
    BY <1>11, <2>1, BeginTrain DEF Filler, Begin
<1>12. CASE Resume
  <2>1. CASE UNCHANGED <<train, inFlight>>
    BY <2>1 DEF Train
  <2>2. CASE task.kind = "think" /\ inFlight' = inFlight \union {<<turn, "fixed">>} /\ (train' = train \/ train' = Append(train, <<turn, "fixed">>))
    BY <2>2, NotYet, BeginTrain
  <2> QED
    BY <1>12, <2>1, <2>2, ResumeEffect DEF Begin
<1>13. CASE TakeUp
  <2>1. inFlight = {}
    BY <1>13 DEF TakeUp, Control, WholeIsQuiet
  <2>2. CASE UNCHANGED <<train, inFlight>>
    BY <2>2 DEF Train
  <2>3. CASE Begin(<<turn, "answer">>)
    BY <2>1, <2>3, BeginTrain DEF Begin
  <2> QED
    BY <1>13, <2>2, <2>3 DEF TakeUp
<1>14. CASE Idle
  BY <1>14 DEF Idle, world
<1>15. CASE TtsStart
  BY <1>15 DEF TtsStart
<1>16. CASE TtsDone
  <2>1. train # <<>> /\ train' = Tail(train) /\ inFlight' = inFlight \ {Head(train)}
    BY <1>16 DEF TtsDone, SettleAll, PlaysItsTrain
  <2> QED
    BY <2>1, TailTrain
<1>17. CASE MouthStops
  <2>1. train' = <<>>
    BY <1>17 DEF MouthStops
  <2> QED
    BY <2>1, EmptyTrain
<1>18. CASE Deadline
  <2>1. PICK u \in inFlight : u \notin Sounding /\ inFlight' = inFlight \ {u} /\ train' = train
    BY <1>18, UnstalledDeadline
  <2>2. \A i \in 1..Len(train) : train[i] \in Sounding
    BY TrainLen DEF Sounding
  <2> QED
    BY <2>1, <2>2 DEF Train
<1>19. CASE BargeIn
  <2>1. train' = <<>>
    BY <1>19 DEF BargeIn
  <2> QED
    BY <2>1, EmptyTrain
<1>20. CASE Guard
  BY <1>20 DEF Guard, router
<1>21. ASSUME NEW t \in Texts, Speak(t) PROVE Train'
  BY <1>21 DEF Speak, router
<1>22. ASSUME NEW lost \in {"ears", "mouth"}, Rebuild(lost) PROVE Train'
  <2>1. CASE train' = <<>>
    BY <2>1, EmptyTrain
  <2>2. CASE train' = <<<<turn + 1, "fixed">>>> /\ inFlight' = {<<turn + 1, "fixed">>}
    <3> DEFINE u == <<turn + 1, "fixed">>
    <3>1. train' = <<u>> /\ inFlight' = {u}
      BY <2>2
    <3> HIDE DEF u
    <3>2. Len(<<u>>) = 1 /\ <<u>>[1] = u
      OBVIOUS
    <3> QED
      BY <3>1, <3>2 DEF Train
  <2> QED
    BY <1>22, <2>1, <2>2 DEF Rebuild
<1>23. CASE UNCHANGED vars
  BY <1>23 DEF vars, router, world
<1> QED
  BY <1>1, <1>2, <1>3, <1>4, <1>5, <1>6, <1>7, <1>8, <1>9, <1>10, <1>11, <1>12, <1>13, <1>14, <1>15, <1>16, <1>17, <1>18, <1>19, <1>20, <1>21, <1>22, <1>23 DEF Next, EarsEvent
LEMMA FreshKept ==
  ASSUME Fresh, inFlight' \subseteq inFlight, task' = task PROVE Fresh'
  BY DEF Fresh
LEMMA FreshStarts ==
  ASSUME TypeOK, NEW K \in SUBSET (Fixed), inFlight = {}, Starts(K) PROVE Fresh'
<1>1. \A u \in inFlight' : u = <<turn + 1, "fixed">>
  BY DEF Starts
<1>2. task'.kind \in Fixed
  BY DEF Starts
<1> QED
  BY <1>1, <1>2 DEF Fresh
LEMMA FreshVoice ==
  ASSUME TypeOK, task' = [task EXCEPT !.kind = "voice"] PROVE Fresh'
<1>1. task' \in Tasks /\ task'.kind = "voice"
  BY TaskChange, KindTypes DEF TypeOK
<1> QED
  BY <1>1 DEF Fresh
LEMMA FreshNone == ASSUME inFlight' = {} PROVE Fresh'
  BY DEF Fresh
LEMMA Opens ==
  ASSUME TypeOK PROVE [task EXCEPT !.open = TRUE].open = TRUE /\ [task EXCEPT !.open = TRUE].kind = task.kind
                      /\ [task EXCEPT !.open = TRUE].masks = task.masks
  BY DEF TypeOK, Tasks
LEMMA MaskMore ==
  ASSUME TypeOK, NEW m, NEW t, t = [task EXCEPT !.masks = @ \union {m}]
  PROVE  t.masks = task.masks \union {m} /\ t.open = task.open /\ t.kind = task.kind
  BY DEF TypeOK, Tasks
LEMMA FreshMask ==
  ASSUME TypeOK, Fresh, NEW m \in {"hmm", "filler"}, Masks(m), inFlight' = inFlight \union {<<turn, m>>} PROVE Fresh'
<1>1. task'.masks = task.masks \union {m} /\ task'.open = task.open /\ task'.kind = task.kind
  BY MaskMore DEF Masks
<1> QED
  BY <1>1 DEF Fresh


LEMMA FixedKinds == {"hello", "goodnight"} \in SUBSET Fixed /\ {"goodbye"} \in SUBSET Fixed /\ {"presence"} \in SUBSET Fixed
  BY DEF Fixed

LEMMA FreshS == ASSUME TypeOK, Control, PlaysItsTrain, Train, Fresh, GateInv, ~BrainStalls, [Next]_vars PROVE Fresh'
<1>1. CASE ResumeHeld
  <2>1. inFlight = {}
    BY <1>1, ResumeHeldEffect, AtRest
  <2> QED
    BY <1>1, <2>1, ResumeHeldEffect, FreshStarts, FixedKinds
<1>2. CASE Wake
  <2>1. CASE UNCHANGED <<task, inFlight>>
    BY <2>1, FreshKept
  <2>2. CASE ~busy /\ Starts({"hello", "goodnight"})
    BY <2>2, AtRest, FreshStarts, FixedKinds
  <2> QED
    BY <1>2, <2>1, <2>2, WakeEffect DEF Begin
<1>3. CASE WakeIgnored
  BY <1>3, FreshKept DEF WakeIgnored, Receive, router, Fresh
<1>4. CASE Final
  <2>1. CASE UNCHANGED <<task, inFlight>>
    BY <2>1, FreshKept
  <2>2. CASE greet # None /\ Starts({"hello", "goodnight"})
    BY <2>2, Greeting, FreshStarts, FixedKinds
  <2> QED
    BY <1>4, <2>1, <2>2, FinalEffect DEF Begin
<1>5. CASE GreetFallback
  <2>1. inFlight = {}
    BY <1>5, GreetFallbackEffect, Greeting
  <2> QED
    BY <1>5, <2>1, GreetFallbackEffect, FreshStarts, FixedKinds
<1>6. CASE Timeout
  BY <1>6, FreshKept DEF Timeout, Receive, To, Kept, Fresh
<1>7. CASE TurnEnd
  <2>1. CASE UNCHANGED <<task, inFlight>>
    BY <2>1, FreshKept
  <2>2. CASE ~busy /\ inFlight' = inFlight
    BY <2>2, AtRest, FreshNone
  <2>3. CASE ~busy /\ Starts({"goodbye"})
    BY <2>3, AtRest, FreshStarts, FixedKinds
  <2> QED
    BY <1>7, <2>1, <2>2, <2>3, TurnEndEffect DEF Begin
<1>8. CASE FirstDelta
  <2>1. task'.open = TRUE /\ task'.kind = task.kind /\ task'.masks = task.masks
    BY <1>8, Opens DEF FirstDelta
  <2>2. inFlight' = inFlight \union {<<turn, "answer">>}
    BY <1>8 DEF FirstDelta, Begin
  <2> QED
    BY <2>1, <2>2 DEF Fresh
<1>9. CASE BrainDone
  BY <1>9, FreshKept DEF BrainDone, router, Fresh
<1>10. CASE Hmm
  <2> QED
    BY <1>10, FreshMask DEF Hmm
<1>11. CASE Filler
  <2> QED
    BY <1>11, FreshMask DEF Filler, Begin
<1>12. CASE Resume
  <2>1. CASE task' = [task EXCEPT !.kind = "voice"]
    BY <2>1, FreshVoice
  <2>2. CASE Awaited = {} /\ UNCHANGED inFlight
    BY <2>2, Numbered, FreshNone
  <2> QED
    BY <1>12, <2>1, <2>2, ResumeEffect
<1>13. CASE TakeUp
  <2>1. inFlight = {}
    BY <1>13 DEF TakeUp, Control, WholeIsQuiet
  <2>2. CASE inFlight' = inFlight
    BY <2>1, <2>2, FreshNone
  <2>3. CASE task' = Task("voice")
    BY <2>3, TaskKinds DEF Fresh
  <2> QED
    BY <1>13, <2>2, <2>3 DEF TakeUp
<1>14. CASE Idle
  BY <1>14, FreshKept DEF Idle, world, Fresh
<1>15. CASE TtsStart
  BY <1>15, FreshKept DEF TtsStart, Fresh
<1>16. CASE TtsDone
  <2> QED
    BY <1>16, FreshKept DEF TtsDone, SettleAll
<1>17. CASE MouthStops
  BY <1>17, FreshKept DEF MouthStops, router, Fresh
<1>18. CASE Deadline
  <2> QED
    BY <1>18, FreshKept DEF Deadline, SettleAll, world
<1>19. CASE BargeIn
  <2> QED
    BY <1>19, FreshNone DEF BargeIn
<1>20. CASE Guard
  BY <1>20, FreshKept DEF Guard, router, Fresh
<1>21. ASSUME NEW t \in Texts, Speak(t) PROVE Fresh'
  BY <1>21, FreshKept DEF Speak, router, Fresh
<1>22. ASSUME NEW lost \in {"ears", "mouth"}, Rebuild(lost) PROVE Fresh'
  <2>1. CASE inFlight' = {}
    BY <2>1, FreshNone
  <2>2. CASE inFlight' = {<<turn + 1, "fixed">>} /\ task' = Task("recovery")
    BY <2>2, TaskKinds DEF Fresh, Fixed
  <2> QED
    BY <1>22, <2>1, <2>2 DEF Rebuild
<1>23. CASE UNCHANGED vars
  BY <1>23 DEF vars, router, world, Fresh
<1> QED
  BY <1>1, <1>2, <1>3, <1>4, <1>5, <1>6, <1>7, <1>8, <1>9, <1>10, <1>11, <1>12, <1>13, <1>14, <1>15, <1>16, <1>17, <1>18, <1>19, <1>20, <1>21, <1>22, <1>23 DEF Next, EarsEvent

LEMMA Silence == ASSUME TypeOK, Control, PlaysItsTrain, Train, ~busy PROVE train = <<>> /\ ~playing
  BY AtRest, SilentTrain DEF PlaysItsTrain

LEMMA GateS == ASSUME TypeOK, Control, PlaysItsTrain, Train, Fresh, GateInv, ~BrainStalls, [Next]_vars PROVE GateInv'
<1>1. CASE ResumeHeld
  BY <1>1, ResumeHeldEffect DEF Starts, GateInv
<1>2. CASE Wake
  <2>1. UNCHANGED <<gate, playing>>
    BY <1>2, WakeEffect
  <2>2. CASE UNCHANGED busy
    BY <2>1, <2>2 DEF GateInv
  <2>3. CASE busy' = TRUE
    BY <2>1, <2>3 DEF GateInv
  <2> QED
    BY <1>2, <2>2, <2>3, WakeEffect DEF Starts
<1>3. CASE WakeIgnored
  BY <1>3 DEF WakeIgnored, Receive, router, GateInv
<1>4. CASE Final
  <2>1. UNCHANGED <<gate, playing>>
    BY <1>4, FinalEffect
  <2>2. CASE UNCHANGED busy
    BY <2>1, <2>2 DEF GateInv
  <2>3. CASE busy' = TRUE
    BY <2>1, <2>3 DEF GateInv
  <2> QED
    BY <1>4, <2>2, <2>3, FinalEffect DEF Starts
<1>5. CASE GreetFallback
  BY <1>5, GreetFallbackEffect DEF Starts, GateInv
<1>6. CASE Timeout
  BY <1>6 DEF Timeout, Receive, To, Kept, GateInv
<1>7. CASE TurnEnd
  <2>1. UNCHANGED <<gate, playing>>
    BY <1>7, TurnEndEffect
  <2>2. CASE UNCHANGED busy
    BY <2>1, <2>2 DEF GateInv
  <2>3. CASE busy' = TRUE
    BY <2>1, <2>3 DEF GateInv
  <2> QED
    BY <1>7, <2>2, <2>3, TurnEndEffect DEF Starts
<1>8. CASE FirstDelta
  BY <1>8 DEF FirstDelta, Thinks, GateInv
<1>9. CASE BrainDone
  BY <1>9 DEF BrainDone, router, GateInv
<1>10. CASE Hmm
  BY <1>10 DEF Hmm, Masks, GateInv
<1>11. CASE Filler
  BY <1>11 DEF Filler, Masks, GateInv
<1>12. CASE Resume
  BY <1>12, ResumeEffect DEF GateInv
<1>13. CASE TakeUp
  BY <1>13 DEF TakeUp, ScheduleIdle, NoTask, GateInv
<1>14. CASE Idle
  <2>1. inFlight = {}
    BY <1>14 DEF Idle, Control, Exclusive, OnlyThisTurn
  <2>2. ~playing
    BY <2>1, SilentTrain DEF PlaysItsTrain
  <2> QED
    BY <1>14, <2>2 DEF Idle, world, GateInv
<1>15. CASE TtsStart
  <2>1. train \in Seq(Utterances) /\ Len(train) \in Nat
    BY TrainLen
  <2>2. train # <<>> /\ gate' # "resume" /\ busy' = busy
    BY <1>15 DEF TtsStart
  <2>3. busy
    BY <2>2, Silence
  <2> QED
    BY <2>2, <2>3 DEF GateInv
<1>16. CASE TtsDone
  BY <1>16 DEF TtsDone, SettleAll, GateInv
<1>17. CASE MouthStops
  BY <1>17 DEF MouthStops, router, GateInv
<1>18. CASE Deadline
  BY <1>18 DEF Deadline, SettleAll, world, GateInv
<1>19. CASE BargeIn
  BY <1>19 DEF BargeIn, GateInv
<1>20. CASE Guard
  BY <1>20 DEF Guard, router, GateInv
<1>21. ASSUME NEW t \in Texts, Speak(t) PROVE GateInv'
  BY <1>21 DEF Speak, router, GateInv
<1>22. ASSUME NEW lost \in {"ears", "mouth"}, Rebuild(lost) PROVE GateInv'
  BY <1>22 DEF Rebuild, NoTask, GateInv
<1>23. CASE UNCHANGED vars
  BY <1>23 DEF vars, router, world, GateInv
<1> QED
  BY <1>1, <1>2, <1>3, <1>4, <1>5, <1>6, <1>7, <1>8, <1>9, <1>10, <1>11, <1>12, <1>13, <1>14, <1>15, <1>16, <1>17, <1>18, <1>19, <1>20, <1>21, <1>22, <1>23 DEF Next, EarsEvent
-----------------------------------------------------------------------------
(* The invariants. *)
TypeGroups == FlagsT /\ NumbersT /\ TaskT /\ FinalT /\ UttsT /\ HeardT

LEMMA Groups == TypeGroups <=> TypeOK
  BY DEF TypeGroups, FlagsT, NumbersT, TaskT, FinalT, UttsT, HeardT, TypeOK

LEMMA GroupsNext == TypeGroups' <=> TypeOK'
  BY DEF TypeGroups, FlagsT, NumbersT, TaskT, FinalT, UttsT, HeardT, TypeOK

IInv == TypeOK /\ PlaysItsTrain /\ Control /\ PauseKeepsTheThought
VInv == IInv /\ Train /\ Fresh /\ GateInv

LEMMA InitTypes == Init => TypeOK
<1> SUFFICES ASSUME Init PROVE TypeOK
  OBVIOUS
<1>1. task \in Tasks
  BY TaskKinds DEF Init, NoTask
<1>2. final \in Finals
  BY DEF Init, NoFinal, Finals, None
<1>3. FlagsT /\ NumbersT
  BY DEF Init, FlagsT, NumbersT, None
<1>4. UttsT /\ HeardT
  BY DEF Init, UttsT, HeardT
<1> QED
  BY <1>1, <1>2, <1>3, <1>4, Groups DEF TypeGroups, TaskT, FinalT

LEMMA InitIInv == Init => IInv
<1> SUFFICES ASSUME Init PROVE IInv
  OBVIOUS
<1>1. TypeOK
  BY InitTypes
<1>2. PlaysItsTrain /\ PauseKeepsTheThought
  BY DEF Init, PlaysItsTrain, PauseKeepsTheThought
<1>3. task.kind = "rest"
  BY TaskKinds DEF Init, NoTask
<1>4. Control
  BY <1>3 DEF Init, Control, Exclusive, OnlyThisTurn, WholeIsQuiet, ArmedAwaited, None
<1> QED
  BY <1>1, <1>2, <1>4 DEF IInv

LEMMA NextIInv == IInv /\ [Next]_vars => IInv'
<1> SUFFICES ASSUME IInv, [Next]_vars PROVE IInv'
  OBVIOUS
<1> USE DEF IInv
<1>1. TypeOK'
  BY FlagsS, NumbersS, TaskS, FinalS, UttsS, HeardS, GroupsNext DEF TypeGroups
<1>2. PlaysItsTrain'
  BY PlaysS
<1>3. Control'
  <2>1. Exclusive' /\ OnlyThisTurn'
    BY ExclS, OnlyS
  <2>2. WholeIsQuiet' /\ ArmedAwaited'
    BY WholeS, ArmedS
  <2> QED
    BY <2>1, <2>2 DEF Control
<1>4. PauseKeepsTheThought'
  BY PauseS
<1> QED
  BY <1>1, <1>2, <1>3, <1>4

LEMMA InitVInv == Init => VInv
<1> SUFFICES ASSUME Init PROVE VInv
  OBVIOUS
<1>1. IInv
  BY InitIInv
<1>2. inFlight = {} /\ train = <<>> /\ ~playing /\ gate = "resume"
  BY DEF Init
<1>3. Fresh /\ GateInv
  BY <1>2 DEF Fresh, GateInv
<1>4. Train
  <2>1. Len(<<>>) = 0
    OBVIOUS
  <2> QED
    BY <1>2, <2>1 DEF Train
<1> QED
  BY <1>1, <1>3, <1>4 DEF VInv

LEMMA NextVInv == ASSUME ~BrainStalls PROVE VInv /\ [Next]_vars => VInv'
<1> SUFFICES ASSUME VInv, [Next]_vars PROVE VInv'
  OBVIOUS
<1>1. IInv'
  BY NextIInv DEF VInv
<1>2. Train' /\ Fresh' /\ GateInv'
  BY TrainS, FreshS, GateS DEF VInv, IInv
<1> QED
  BY <1>1, <1>2 DEF VInv
-----------------------------------------------------------------------------
(* Every variable of the router and of its surroundings has its type.      *)
THEOREM TypeCorrect == Spec => []TypeOK
<1>1. IInv => TypeOK
  BY DEF IInv
<1> QED
  BY <1>1, InitIInv, NextIInv, PTL DEF Spec

(* One interaction at a time, whatever the ears hear, the timers do, the   *)
(* mouth loses or the brain delays (busy of router.ts): the gate is shut   *)
(* exactly while there is one, and only its utterances are awaited.        *)
THEOREM OneInteraction == Spec => []OneAtATime
<1>1. IInv => OneAtATime
  BY DEF IInv, Control, Exclusive, OnlyThisTurn, OneAtATime, Doing
<1> QED
  BY <1>1, InitIInv, NextIInv, PTL DEF Spec

(* A pause always has its thought (held of router.ts).                     *)
THEOREM PauseKept == Spec => []PauseKeepsTheThought
<1>1. IInv => PauseKeepsTheThought
  BY DEF IInv
<1> QED
  BY <1>1, InitIInv, NextIInv, PTL DEF Spec

(* The gate follows her voice: when the brain stalls no sentence past its  *)
(* deadline, it is shut while she sounds (onTtsStart, settle) and open     *)
(* again once nothing is in progress (scheduleIdle).                       *)
THEOREM GateHeld == ASSUME ~BrainStalls PROVE Spec => []GateFollowsTheVoice
<1>1. VInv => GateFollowsTheVoice
  BY DEF VInv, GateInv, GateFollowsTheVoice, NeverHearsHerself, NeverDeafAtRest
<1> QED
  BY <1>1, InitVInv, NextVInv, PTL DEF Spec
=============================================================================
