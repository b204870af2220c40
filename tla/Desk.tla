-------------------------------- MODULE Desk --------------------------------
(***************************************************************************)
(* What the brain promises the conversation ("un seul guichet", "jamais de *)
(* double-voix"): questions are taken one at a time, in the order they     *)
(* were asked, and each is answered once; the words of an answer come from *)
(* one writer, who was given that very question; an answer that was said   *)
(* was heard, and an apology (secours) follows no words of the answer;     *)
(* once the desk is closed nobody writes any more. It does not promise     *)
(* silence after an answer: belated words of a question may be heard, but  *)
(* never while that question is in service.                                *)
(***************************************************************************)
EXTENDS Naturals

VARIABLES
  asked,    \* how many questions were asked
  at,       \* the question in service, or the last one answered
  open,     \* is it in service
  voice,    \* who wrote what was heard of its answer: <<writer, question>>
  outcome,  \* of the last answer
  late,     \* the questions of which words were heard after their answer
  staff,    \* who is writing, or ready to
  closed

service == <<asked, at, open, voice, outcome, late>>
vars    == <<service, staff, closed>>

Init ==
  /\ asked = 0 /\ at = 0 /\ open = FALSE /\ voice = {} /\ outcome = "cut"
  /\ late = {} /\ staff = {} /\ closed = FALSE

Ask == asked' = asked + 1 /\ UNCHANGED <<at, open, voice, outcome, late>>

Take ==
  /\ ~open /\ at < asked
  /\ open' = TRUE /\ at' = at + 1 /\ voice' = {}
  /\ UNCHANGED <<asked, outcome, late>>

\* A question is turned down: its asker has gone, or the desk is closed.
Refuse ==
  /\ ~open /\ at < asked
  /\ at' = at + 1 /\ voice' = {} /\ outcome' = "cut"
  /\ UNCHANGED <<asked, open, late>>

\* Words are heard, all from one writer, who was given this question.
Heard ==
  /\ voice' # {} /\ voice \subseteq voice'
  /\ \A s, t \in voice' : s = t /\ s[2] = at

Word == open /\ Heard /\ UNCHANGED <<asked, at, open, outcome, late>>

\* The last words may come with the end of the answer.
Answer ==
  /\ open /\ open' = FALSE
  /\ voice' = voice \/ Heard
  /\ \/ outcome' \in {"whole", "broken"} /\ voice' # {}
     \/ outcome' = "secours" /\ voice' = {}
     \/ outcome' = "cut"
  /\ UNCHANGED <<asked, at, late>>

Belated ==
  /\ \E q \in 1..at : (q = at => ~open) /\ late' = late \union {q}
  /\ UNCHANGED <<asked, at, open, voice, outcome>>

Staffing ==
  /\ closed => closed'
  /\ closed' => staff' = {}

Next ==
  /\ Ask \/ Take \/ Refuse \/ Word \/ Answer \/ Belated \/ UNCHANGED service
  /\ Staffing

Spec == Init /\ [][Next]_vars
=============================================================================
