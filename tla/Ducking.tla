------------------------------- MODULE Ducking -------------------------------
(***************************************************************************)
(* The policy of the ducking (voice/ducking.ts) over its mixer: the media  *)
(* stay low as long as the conversation is open, and come back after it,   *)
(* by the transition that closes it or by one of three nets (timers).      *)
(* The regime of a table of guests (tablee), which nothing sets, is not    *)
(* modelled.                                                               *)
(***************************************************************************)
EXTENDS DuckMixer

CONSTANT Modes      \* the listening modes the events take

Talking  == {"ecoute", "approbation"}
Sleeping == {"veille", "pause"}

ASSUME ModesAssumption == "veille" \in Modes /\ Modes \subseteq Talking \union Sleeping \union {"dictee"}

VARIABLES
  mode,     \* the listening mode, as last heard of
  ducked,   \* the last intent given to the mixer
  wakeTimer, releaseTimer, idleTimer,
  deaf      \* the ears are lost and she has nothing more to say: no event comes

timers == <<wakeTimer, releaseTimer, idleTimer>>
policy == <<mode, ducked, timers, deaf>>
vars   == <<mixer, policy>>

TypeOK ==
  /\ MixerTypeOK
  /\ mode \in Modes
  /\ {ducked, wakeTimer, releaseTimer, idleTimer, deaf} \subseteq BOOLEAN

PolicyInit ==
  /\ mode = "veille" /\ ducked = FALSE
  /\ wakeTimer = FALSE /\ releaseTimer = FALSE /\ idleTimer = FALSE
  /\ deaf = FALSE

Init == MixerInit /\ PolicyInit

DuckOn ==
  /\ ducked' = TRUE
  /\ IF ducked THEN UNCHANGED mixer ELSE MixerDuck /\ UNCHANGED stopped
RestoreOff ==
  /\ ducked' = FALSE
  /\ IF ducked THEN MixerRestore /\ UNCHANGED stopped ELSE UNCHANGED mixer
-----------------------------------------------------------------------------
Hears == up /\ ~stopped /\ ~deaf

\* onVoiceState: the duck follows the state; dictation disarms it.
\* Bug: the conversation that opens does not arm the last net.
OpensNoNet(m) ==
  /\ m \in Talking
  /\ DuckOn
  /\ wakeTimer' = FALSE /\ releaseTimer' = FALSE /\ UNCHANGED idleTimer

Opens(m) ==
  /\ m \in Talking
  /\ DuckOn
  /\ wakeTimer' = FALSE /\ releaseTimer' = FALSE /\ idleTimer' = TRUE
Closes(m) ==
  /\ m \in Sleeping \union {"dictee"}
  /\ RestoreOff
  /\ wakeTimer' = FALSE /\ releaseTimer' = FALSE /\ idleTimer' = FALSE
VoiceState(m) ==
  /\ Hears /\ m # mode
  /\ mode' = m
  /\ Opens(m) \/ Closes(m)
  /\ UNCHANGED deaf

TouchIdle == idleTimer' = (idleTimer \/ mode \in Talking)

\* onWake and onTtsStart: outside a conversation, the duck has a deadline.
WakeOrVoice ==
  /\ Hears /\ mode # "dictee"
  /\ DuckOn /\ TouchIdle
  /\ releaseTimer' = FALSE
  /\ wakeTimer' = (wakeTimer \/ mode \in Sleeping)
  /\ UNCHANGED <<mode, deaf>>

\* onTtsDone: outside a conversation the restore is deferred, so that the greeting of a
\* wake-up does not blip.
TtsDone ==
  /\ Hears /\ TouchIdle
  /\ releaseTimer' = (releaseTimer \/ (mode \in Sleeping /\ ducked))
  /\ UNCHANGED <<mixer, mode, ducked, wakeTimer, deaf>>

\* onVadStart: a sign of life, never a duck.
VadStart ==
  /\ Hears /\ TouchIdle
  /\ UNCHANGED <<mixer, mode, ducked, wakeTimer, releaseTimer, deaf>>

WakeDeadline ==
  /\ up /\ wakeTimer /\ wakeTimer' = FALSE
  /\ IF mode \in Sleeping THEN RestoreOff ELSE UNCHANGED <<mixer, ducked>>
  /\ UNCHANGED <<mode, releaseTimer, idleTimer, deaf>>

Release ==
  /\ up /\ releaseTimer /\ releaseTimer' = FALSE
  /\ IF ducked /\ mode \in Sleeping THEN RestoreOff /\ wakeTimer' = FALSE
                                    ELSE UNCHANGED <<mixer, ducked, wakeTimer>>
  /\ UNCHANGED <<mode, idleTimer, deaf>>

IdleDeadline ==
  /\ up /\ idleTimer /\ idleTimer' = FALSE
  /\ IF mode \in Talking THEN RestoreOff ELSE UNCHANGED <<mixer, ducked>>
  /\ UNCHANGED <<mode, wakeTimer, releaseTimer, deaf>>

EarsDie ==
  /\ Hears /\ deaf' = TRUE
  /\ UNCHANGED <<mixer, mode, ducked, timers>>
-----------------------------------------------------------------------------
\* stopVoice and teardownStalePipeline: the policy restores, then the mixer stops.
Stop ==
  /\ up /\ ~stopped
  /\ stopped' = TRUE
  /\ Call(IF ducked THEN <<"restore", "stop">> ELSE <<"stop">>, FALSE)
  /\ ducked' = FALSE
  /\ wakeTimer' = FALSE /\ releaseTimer' = FALSE /\ idleTimer' = FALSE
  /\ UNCHANGED <<mode, deaf>>

\* The process ends, before or after the chain has: nothing waits for it.
Ends ==
  /\ up /\ up' = FALSE
  /\ queue' = <<>> /\ op' = NoOp /\ active' = FALSE /\ entries' = {} /\ pending' = {}
  /\ rescan' = FALSE /\ queued' = FALSE /\ stopped' = FALSE
  /\ mode' = "veille" /\ ducked' = FALSE
  /\ wakeTimer' = FALSE /\ releaseTimer' = FALSE /\ idleTimer' = FALSE
  /\ deaf' = FALSE
  /\ UNCHANGED <<windows, file, astray>>

\* ensureVoicePipeline: a policy and a mixer, anew; the mixer begins with the boot net.
Begins ==
  /\ ~up \/ (stopped /\ Idle)
  /\ Start
  /\ mode' = "veille" /\ ducked' = FALSE
  /\ wakeTimer' = FALSE /\ releaseTimer' = FALSE /\ idleTimer' = FALSE
  /\ deaf' = FALSE

Timers == WakeDeadline \/ Release \/ IdleDeadline

Next ==
  \/ (\E a \in Apps : Open(a) \/ Close(a) \/ UserSets(a)) /\ UNCHANGED policy
  \/ \E m \in Modes : VoiceState(m)
  \/ WakeOrVoice \/ TtsDone \/ VadStart \/ Timers \/ EarsDie
  \/ (Chain \/ RescanTick) /\ UNCHANGED policy
  \/ Stop \/ Ends \/ Begins

Spec == Init /\ [][Next]_vars

\* The chain goes on (every operation is bounded) and timers fire; nobody is obliged to
\* speak, to quit or to open anything.
FairSpec ==
  Spec /\ WF_vars(Chain /\ UNCHANGED policy) /\ WF_vars(WakeDeadline) /\ WF_vars(Release) /\ WF_vars(IdleDeadline)
-----------------------------------------------------------------------------
DebtOf(a, E) == \E e \in E : e.name = a /\ e.vol = [set |-> vol[a].set, depth |-> 0]

\* The write-ahead: "écrit AVANT de baisser, effacé APRÈS restauration réussie"
\* (duck-mixer.ts:12).  Whatever closes, fails or crashes, an application below the
\* volume of its user has that volume on the disk.
DebtOnFile == \A a \in Apps \ astray : vol[a].depth > 0 => DebtOf(a, file)

\* The chain ends where the last intent says: once the policy wants the media up and
\* nothing is under way, what is still low is a debt that is known.
IdleIsRestored ==
  up /\ Idle /\ ~ducked =>
    /\ ~active
    /\ \A a \in Apps \ astray : vol[a].depth > 0 => DebtOf(a, pending)

\* "jamais un duck coincé": when the ears die, whatever the mode was, the media come
\* back, or are a debt that is known.
DeafEndsUp == deaf ~> ~up \/ ~deaf \/ (~ducked /\ Idle)
=============================================================================
