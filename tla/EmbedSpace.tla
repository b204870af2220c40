----------------------------- MODULE EmbedSpace -----------------------------
(***************************************************************************)
(* The writer of the vectors (src/src/orchestrator/memory/embed-space).    *)
(*                                                                         *)
(* The rows to embed are those of a corpus that have no vector: there is   *)
(* no queue to keep, and a crash loses nothing.  A sweep reads a batch of  *)
(* them, awaits the engine, and writes what comes back; while it awaits,   *)
(* rows are erased or rewritten, the space of the table is migrated, the   *)
(* engine dies or comes back as another model, and a second sweep is       *)
(* asked for.  One action is one run of the event loop between two awaits. *)
(*                                                                         *)
(* Abstractions: one corpus (each has its own table and its own chain); a  *)
(* vector is the text it was computed from and the space it lives in; the  *)
(* engine refuses the rows of Poison, whatever their text, and times out   *)
(* exactly when it is down; vectors of a wrong length or not finite, which *)
(* are refused one by one, and the query path, which writes nothing, are   *)
(* left out.                                                               *)
(***************************************************************************)
EXTENDS Naturals, Sequences, FiniteSets, FiniteSetsExt

CONSTANTS
  MaxId,         \* bound: rows ever inserted; ids are 1..MaxId, never reused
  MaxText,       \* bound: texts a row may hold in turn
  Poison,        \* the rows whose content the engine refuses
  Batch,         \* batchSize
  SurfaceAfter,  \* surfaceAfter
  Sweeps,        \* calls of embedPending that may be pending
  Spaces,        \* identities of a vector space
  MaxDowns       \* bound: failures of the engine and migrations

Ids == 1..MaxId

ASSUME ConstantsAssumption ==
  /\ MaxId \in Nat /\ MaxText \in Nat \ {0} /\ MaxDowns \in Nat
  /\ Poison \subseteq Ids
  /\ Batch \in Nat \ {0}
  /\ Cardinality(Poison) < Batch  \* else the refused rows fill every batch
  /\ SurfaceAfter \in Nat \ {0}

VARIABLES
  alive,     \* the rows of the source table
  last,      \* its AUTOINCREMENT
  text,      \* the content of each row, 0 while it is NULL
  vec,       \* vec_<corpus>: the vector of each row
  space,     \* the active line of embed_space_meta
  attempts,  \* embed_failures
  engine,    \* the sidecar: is it up, and the space it computes in
  chain,     \* this.chains: the sweeps in the order they were asked for
  sweep,     \* the sweep under way: where it awaits, its rows, the next alone
  told,      \* rows a health event was emitted for since their last success
  clash,     \* has a vector been written over another
  downs      \* failures and migrations so far

disk   == <<alive, last, text, vec, space, attempts>>
vars   == <<disk, engine, chain, sweep, told, clash, downs>>

NoVector == [text |-> 0, space |-> "none"]
Vector   == [text : 1..MaxText, space : Spaces]
Row      == [id : Ids, text : 1..MaxText]
Idle     == [pc |-> "idle", rows |-> {}]
Stages   == {"idle", "queued", "batch", "probe", "alone"}

TypeOK ==
  /\ alive \subseteq Ids
  /\ last \in 0..MaxId
  /\ text \in [Ids -> 0..MaxText]
  /\ vec \in [Ids -> Vector \cup {NoVector}]
  /\ space \in Spaces
  /\ attempts \in [Ids -> Nat]
  /\ engine \in [up : BOOLEAN, space : Spaces]
  /\ chain \in Seq(Sweeps)
  /\ sweep \in [Sweeps -> [pc : Stages, rows : SUBSET Row]]
  /\ told \subseteq Ids
  /\ clash \in BOOLEAN
  /\ downs \in 0..MaxDowns

Init ==
  /\ alive = {}
  /\ last = 0
  /\ text = [i \in Ids |-> 0]
  /\ vec = [i \in Ids |-> NoVector]
  /\ space \in Spaces
  /\ attempts = [i \in Ids |-> 0]
  /\ engine = [up |-> TRUE, space |-> space]
  /\ chain = <<>>
  /\ sweep = [s \in Sweeps |-> Idle]
  /\ told = {}
  /\ clash = FALSE
  /\ downs = 0

-----------------------------------------------------------------------------
(* What a sweep reads and writes.                                          *)

\* The rows that wait for a vector; no row is ever dead-lettered.
Waiting == {i \in alive : text[i] # 0 /\ vec[i] = NoVector}

\* rowsToEmbed: the first Batch of them, in the order of their ids.
Position(i)  == Cardinality({j \in Waiting : j <= i})
rowsToEmbed  == {[id |-> i, text |-> text[i]] : i \in {j \in Waiting : Position(j) <= Batch}}

\* Bug: the source is not read again after the await (before MINEUR-C).
AcceptsGone(row) == engine.space = space

\* The guards of writeVector: the space of the answer is the one of the table,
\* and the source is still there.
Accepts(row) == engine.space = space /\ row.id \in alive

\* writeVector on some rows, with clearFailure for those written.  A row of
\* another space is refused with a health event.
Write(rows) ==
  LET into == {r \in rows : Accepts(r)}
      ids  == {r.id : r \in into}
      lost == {r.id : r \in {q \in rows : engine.space # space}}
  IN  IF \E i \in ids : vec[i] # NoVector
      THEN /\ clash' = TRUE                  \* UNIQUE: thrown, rolled back
           /\ UNCHANGED <<vec, attempts, told>>
      ELSE /\ vec' = [i \in Ids |-> IF i \in ids
                       THEN [text |-> (CHOOSE r \in into : r.id = i).text,
                             space |-> engine.space]
                       ELSE vec[i]]
           /\ attempts' = [i \in Ids |-> IF i \in ids THEN 0 ELSE attempts[i]]
           /\ told' = (told \ ids) \cup lost
           /\ UNCHANGED clash

\* recordFailure: counted, and told when the count reaches the threshold (the
\* count is not followed past it).
recordFailure(i) ==
  /\ attempts' = [attempts EXCEPT ![i] = Min({attempts[i] + 1, SurfaceAfter + 1})]
  /\ told' = IF attempts[i] + 1 = SurfaceAfter THEN told \cup {i} ELSE told
  /\ UNCHANGED <<vec, clash>>

-----------------------------------------------------------------------------
(* A sweep.                                                                *)

\* embedPending: wait for the sweeps asked for before.
embedPending(s) ==
  /\ sweep[s].pc = "idle"
  /\ chain' = Append(chain, s)
  /\ sweep' = [sweep EXCEPT ![s] = [pc |-> "queued", rows |-> {}]]
  /\ UNCHANGED <<disk, engine, told, clash, downs>>

\* Bug: the sweeps of a corpus are not chained (before m-2).
TurnOfAny(s) == sweep[s].pc = "queued"

Turn(s) == sweep[s].pc = "queued" /\ Head(chain) = s

Over(s) ==
  /\ sweep' = [sweep EXCEPT ![s] = Idle]
  /\ chain' = Tail(chain)

\* _embedPending up to its first await.
Begin(s) ==
  /\ Turn(s)
  /\ IF Waiting = {}
     THEN Over(s)
     ELSE /\ sweep' = [sweep EXCEPT ![s] = [pc |-> "batch", rows |-> rowsToEmbed]]
          /\ UNCHANGED chain
  /\ UNCHANGED <<disk, engine, told, clash, downs>>

Computes(rows) == engine.up /\ \A r \in rows : r.id \notin Poison

\* The answer for the batch: written in one transaction, or else ask whether
\* the engine is there at all.
BatchAnswer(s) ==
  /\ sweep[s].pc = "batch"
  /\ IF Computes(sweep[s].rows)
     THEN Write(sweep[s].rows) /\ Over(s)
     ELSE /\ sweep' = [sweep EXCEPT ![s].pc = "probe"]
          /\ UNCHANGED <<chain, vec, attempts, told, clash>>
  /\ UNCHANGED <<alive, last, text, space, engine, downs>>

\* Bug: a batch that fails is always taken for a failure of the engine.
ProbeAnswerSystemic(s) ==
  /\ sweep[s].pc = "probe"
  /\ Over(s)
  /\ UNCHANGED <<disk, engine, told, clash, downs>>

\* engineHealthy: down, the sweep ends and counts nothing; up, the rows are
\* tried one by one.
ProbeAnswer(s) ==
  /\ sweep[s].pc = "probe"
  /\ IF engine.up
     THEN /\ sweep' = [sweep EXCEPT ![s].pc = "alone"]
          /\ UNCHANGED chain
     ELSE Over(s)
  /\ UNCHANGED <<disk, engine, told, clash, downs>>

\* isolateAndWrite, one row: written outside any transaction, or counted.
AloneAnswer(s) ==
  /\ sweep[s].pc = "alone"
  /\ \E row \in sweep[s].rows :
       /\ \A r \in sweep[s].rows : row.id <= r.id
       /\ IF Computes({row}) THEN Write({row}) ELSE recordFailure(row.id)
       /\ IF sweep[s].rows = {row}
          THEN Over(s)
          ELSE /\ sweep' = [sweep EXCEPT ![s].rows = @ \ {row}]
               /\ UNCHANGED chain
  /\ UNCHANGED <<alive, last, text, space, engine, downs>>

-----------------------------------------------------------------------------
(* The layers above, the sidecar, and the end of the process.              *)

\* A row is inserted; a session has no summary yet.
Insert ==
  /\ last < MaxId
  /\ last' = last + 1
  /\ alive' = alive \cup {last + 1}
  /\ \E t \in {0, 1} : text' = [text EXCEPT ![last + 1] = t]
  /\ UNCHANGED <<vec, space, attempts, engine, chain, sweep, told, clash, downs>>

\* The summary of a session is written, rewritten or emptied; its vector goes
\* in the same transaction.
Rewrite(i) ==
  /\ i \in alive
  /\ text[i] < MaxText
  /\ text' = [text EXCEPT ![i] = @ + 1]
  /\ vec' = [vec EXCEPT ![i] = NoVector]
  /\ UNCHANGED <<alive, last, space, attempts, engine, chain, sweep, told, clash, downs>>

\* The erasure of a row and of its vector, in one transaction.
Erase(i) ==
  /\ i \in alive
  /\ alive' = alive \ {i}
  /\ vec' = [vec EXCEPT ![i] = NoVector]
  /\ UNCHANGED <<last, text, space, attempts, engine, chain, sweep, told, clash, downs>>

\* A migration swaps the table and its meta; the failures are forgotten.
Migrate ==
  /\ downs < MaxDowns
  /\ downs' = downs + 1
  /\ space' \in Spaces \ {space}
  /\ vec' = [i \in Ids |-> NoVector]
  /\ attempts' = [i \in Ids |-> 0]
  /\ told' = {}
  /\ UNCHANGED <<alive, last, text, engine, chain, sweep, clash>>

EngineDown ==
  /\ engine.up
  /\ downs < MaxDowns
  /\ downs' = downs + 1
  /\ engine' = [engine EXCEPT !.up = FALSE]
  /\ UNCHANGED <<disk, chain, sweep, told, clash>>

\* The supervisor starts it again, with the model of its configuration.
EngineUp ==
  /\ ~engine.up
  /\ \E e \in Spaces : engine' = [up |-> TRUE, space |-> e]
  /\ UNCHANGED <<disk, chain, sweep, told, clash, downs>>

\* The orchestrator ends and starts again: only the disk is left.
Respawn ==
  /\ \E s \in Sweeps : sweep[s].pc # "idle"
  /\ downs < MaxDowns
  /\ downs' = downs + 1
  /\ chain' = <<>>
  /\ sweep' = [s \in Sweeps |-> Idle]
  /\ UNCHANGED <<disk, engine, told, clash>>

-----------------------------------------------------------------------------
Step(s) == Begin(s) \/ BatchAnswer(s) \/ ProbeAnswer(s) \/ AloneAnswer(s)

Next ==
  \/ \E s \in Sweeps : embedPending(s) \/ Step(s)
  \/ Insert \/ Migrate \/ EngineDown \/ EngineUp \/ Respawn
  \/ \E i \in Ids : Rewrite(i) \/ Erase(i)

Spec == Init /\ [][Next]_vars

\* The consumer sweeps again and again, requests are answered or time out,
\* and the supervisor brings the engine back.
FairSpec ==
  /\ Spec
  /\ \A s \in Sweeps : WF_vars(embedPending(s)) /\ WF_vars(Step(s))
  /\ WF_vars(EngineUp)

-----------------------------------------------------------------------------
\* A search never compares vectors of two spaces and never finds a row that
\* was erased, whatever was erased, migrated or respawned while the vector was
\* being computed (the guard of the space and the window of the orphan;
\* index.ts:114-124, 168-173).
VectorsAreTrue ==
  \A i \in Ids : vec[i] # NoVector => i \in alive /\ vec[i].space = space

\* No sweep computes a vector that another one has written: the batch would be
\* thrown away whole (m-2, index.ts:91-94, 242-250).
NoClash == ~clash

\* Nothing is silent and nothing abandoned: if an engine of the right space
\* stays, a row that waits is embedded or erased, or a health event is emitted
\* for it, beside rows that are refused for ever (option b, index.ts:12-20).
NothingSilent ==
  <>[](engine.up /\ engine.space = space) =>
    \A i \in Ids : i \in Waiting ~> i \notin Waiting \/ i \in told
=============================================================================
