----------------------------- MODULE Home_proofs -----------------------------
(***************************************************************************)
(* What TLAPS proves of a home: one process at a time acts as its Sophia   *)
(* (SingleInstance), and the vectors that process writes in its base are   *)
(* true (EmbedSpace).  The second needs the first: the chain that keeps    *)
(* two sweeps of a corpus apart lives in the memory of one process.        *)
(*                                                                         *)
(* Both hold for any value of the constants: launches, attempts and faults *)
(* of the one; rows, texts, sweeps, spaces and failures of the other.      *)
(***************************************************************************)
EXTENDS EmbedSpace, SingleInstance, TLAPS

\* Between two awaits, a sweep has read its rows and not given its turn up.
Active(s) == sweep[s].pc \in {"batch", "probe", "alone"}

\* The chain holds the sweeps that are asked for, once each; only its head is under way.
ChainInv ==
  /\ \A j, k \in 1..Len(chain) : j # k => chain[j] # chain[k]
  /\ \A k \in 1..Len(chain) : sweep[chain[k]].pc # "idle"
  /\ \A s \in Sweeps : sweep[s].pc # "idle" => \E k \in 1..Len(chain) : chain[k] = s
  /\ \A s \in Sweeps : Active(s) => Len(chain) > 0 /\ chain[1] = s

\* What the sweep under way has read has no vector yet, and is one text per row.
RowsInv ==
  \A s \in Sweeps : Active(s) =>
    /\ \A r \in sweep[s].rows : vec[r.id] = NoVector
    /\ \A r, q \in sweep[s].rows : r.id = q.id => r = q

(* None of VectorsAreTrue and NoClash is inductive.  NoClash needs that the *)
(* rows a sweep read have no vector when its answer is written, though it   *)
(* awaited; that needs that no other sweep wrote meanwhile, hence the chain.*)
EInv == TypeOK /\ ChainInv /\ RowsInv /\ VectorsAreTrue /\ NoClash

LEMMA EInit == Init => EInv
<1> USE ConstantsAssumption DEF ConstantsAssumption, Init
<1>1. ASSUME Init PROVE TypeOK
  <2> USE <1>1
  <2>0. alive \subseteq Ids /\ clash \in BOOLEAN
    OBVIOUS
  <2>1. last \in 0..MaxId /\ space \in Spaces
    OBVIOUS
  <2>2. text \in [Ids -> 0..MaxText] /\ vec \in [Ids -> Vector \cup {NoVector}]
    OBVIOUS
  <2>3. attempts \in [Ids -> Nat] /\ told \subseteq Ids /\ downs \in 0..MaxDowns
    OBVIOUS
  <2>4. engine \in [up : BOOLEAN, space : Spaces]
    OBVIOUS
  <2>5. chain \in Seq(Sweeps)
    OBVIOUS
  <2>6. Idle \in [pc : Stages, rows : SUBSET Row]
    BY DEF Idle, Stages
  <2>7. sweep \in [Sweeps -> [pc : Stages, rows : SUBSET Row]]
    BY <2>6
  <2> QED
    BY <2>0, <2>1, <2>2, <2>3, <2>4, <2>5, <2>7 DEF TypeOK
<1>2. ASSUME Init PROVE ChainInv /\ RowsInv
  BY <1>2 DEF ChainInv, RowsInv, Active, Idle
<1> QED
  BY <1>1, <1>2 DEF EInv, VectorsAreTrue, NoClash

LEMMA MinOfTwo == ASSUME NEW a \in Nat, NEW b \in Nat PROVE Min({a, b}) \in Nat
<1>1. \E x \in {a, b} : \A y \in {a, b} : x <= y
  OBVIOUS
<1>2. Min({a, b}) \in {a, b}
  BY <1>1 DEF Min
<1> QED
  BY <1>2

\* Two sweeps are never between two awaits at once.
LEMMA OneActive ==
  ASSUME EInv, NEW s \in Sweeps, NEW t \in Sweeps, Active(s), Active(t)
  PROVE  s = t
  BY DEF EInv, ChainInv

\* The rows that are read are rows that wait, one text each.
LEMMA RowsToEmbed ==
  ASSUME TypeOK
  PROVE  /\ rowsToEmbed \in SUBSET Row
         /\ \A r \in rowsToEmbed : vec[r.id] = NoVector
         /\ \A r, q \in rowsToEmbed : r.id = q.id => r = q
<1>1. ASSUME NEW i \in Waiting
      PROVE  [id |-> i, text |-> text[i]] \in Row /\ vec[i] = NoVector
  BY <1>1, ConstantsAssumption DEF ConstantsAssumption, TypeOK, Waiting, Row, Ids
<1> QED
  BY <1>1 DEF rowsToEmbed

\* A sweep that is over leaves the chain to the next one.
LEMMA OverStep ==
  ASSUME EInv, NEW s \in Sweeps, sweep[s].pc # "idle", chain[1] = s, Over(s)
  PROVE  /\ ChainInv'
         /\ chain' \in Seq(Sweeps) /\ sweep' \in [Sweeps -> [pc : Stages, rows : SUBSET Row]]
         /\ \A t \in Sweeps : ~Active(t)'
<1> USE DEF EInv, TypeOK, Over
<1>0. sweep' = [sweep EXCEPT ![s] = Idle]
  OBVIOUS
<1>1. Len(chain) > 0 /\ chain # <<>>
  BY DEF ChainInv
<1>2. /\ chain' \in Seq(Sweeps) /\ Len(chain') = Len(chain) - 1
      /\ \A k \in 1..Len(chain') : chain'[k] = chain[k + 1]
  BY <1>1
<1>3. Idle \in [pc : Stages, rows : SUBSET Row]
  BY DEF Idle, Stages
<1>4. sweep' \in [Sweeps -> [pc : Stages, rows : SUBSET Row]]
  BY <1>0, <1>3
<1>5. \A t \in Sweeps : sweep'[t] = IF t = s THEN Idle ELSE sweep[t]
  BY <1>0
<1>6. \A t \in Sweeps : ~Active(t)'
  BY <1>5 DEF Active, ChainInv, Idle
<1>7. ChainInv'
  <2>1. \A j, k \in 1..Len(chain') : j # k => chain'[j] # chain'[k]
    BY <1>1, <1>2 DEF ChainInv
  <2>2. \A k \in 1..Len(chain') : chain'[k] # s
    BY <1>1, <1>2 DEF ChainInv
  <2>3. \A k \in 1..Len(chain') : chain'[k] \in Sweeps /\ sweep[chain'[k]].pc # "idle"
    BY <1>1, <1>2 DEF ChainInv
  <2>4. \A k \in 1..Len(chain') : sweep'[chain'[k]].pc # "idle"
    BY <1>5, <2>2, <2>3
  <2>5. ASSUME NEW t \in Sweeps, sweep'[t].pc # "idle" PROVE \E k \in 1..Len(chain') : chain'[k] = t
    <3>1. t # s /\ sweep[t].pc # "idle"
      BY <2>5, <1>5 DEF Idle
    <3>2. PICK k \in 1..Len(chain) : chain[k] = t
      BY <3>1 DEF ChainInv
    <3>3. k # 1 /\ k - 1 \in 1..Len(chain') /\ chain'[k - 1] = t
      BY <1>1, <1>2, <3>1, <3>2
    <3> QED
      BY <3>3
  <2> QED
    BY <2>1, <2>4, <2>5, <1>6 DEF ChainInv
<1> QED
  BY <1>2, <1>4, <1>6, <1>7

\* A row that is done leaves the rows of its sweep.
LEMMA RowGone ==
  ASSUME NEW w \in [pc : Stages, rows : SUBSET Row], NEW row
  PROVE  /\ [w EXCEPT !.rows = @ \ {row}] \in [pc : Stages, rows : SUBSET Row]
         /\ [w EXCEPT !.rows = @ \ {row}].pc = w.pc
         /\ [w EXCEPT !.rows = @ \ {row}].rows = w.rows \ {row}
<1>1. [w EXCEPT !.rows = @ \ {row}].pc = w.pc
  OBVIOUS
<1>2. [w EXCEPT !.rows = @ \ {row}].rows = w.rows \ {row}
  OBVIOUS
<1>3. w.rows \ {row} \in SUBSET Row
  OBVIOUS
<1>4. [w EXCEPT !.rows = @ \ {row}] \in [pc : Stages, rows : SUBSET Row]
  BY <1>3
<1> QED
  BY <1>1, <1>2, <1>4

\* What a write makes of the vectors: those of the rows that are still there, in the space
\* of the table, and never over another.
LEMMA WriteStep ==
  ASSUME EInv, NEW rows \in SUBSET Row, \A r \in rows : vec[r.id] = NoVector,
         Write(rows)
  PROVE  /\ clash' = FALSE
         /\ vec' \in [Ids -> Vector \cup {NoVector}] /\ attempts' \in [Ids -> Nat] /\ told' \subseteq Ids
         /\ \A i \in Ids : vec'[i] # NoVector => i \in alive /\ vec'[i].space = space
<1> DEFINE into == {r \in rows : Accepts(r)}
           ids  == {r.id : r \in into}
           lost == {r.id : r \in {q \in rows : engine.space # space}}
<1>0. ~clash
  BY DEF EInv, NoClash
<1>1. ids \subseteq Ids /\ lost \subseteq Ids
  BY DEF Row
<1>2. \A i \in ids : vec[i] = NoVector /\ i \in alive /\ engine.space = space
  BY DEF Accepts
<1>3. /\ vec' = [i \in Ids |-> IF i \in ids
                   THEN [text |-> (CHOOSE r \in into : r.id = i).text, space |-> engine.space]
                   ELSE vec[i]]
      /\ attempts' = [i \in Ids |-> IF i \in ids THEN 0 ELSE attempts[i]]
      /\ told' = (told \ ids) \cup lost
      /\ UNCHANGED clash
  BY <1>2 DEF Write
<1>4. \A i \in ids : (CHOOSE r \in into : r.id = i).text \in 1..MaxText
  <2>1. ASSUME NEW i \in ids PROVE (CHOOSE r \in into : r.id = i) \in into
    BY <2>1
  <2> QED
    BY <2>1 DEF Row
<1>5. engine.space \in Spaces
  BY DEF EInv, TypeOK
<1>6. \A i \in ids : [text |-> (CHOOSE r \in into : r.id = i).text, space |-> engine.space] \in Vector
  BY <1>4, <1>5 DEF Vector
<1>7. vec' \in [Ids -> Vector \cup {NoVector}] /\ attempts' \in [Ids -> Nat] /\ told' \subseteq Ids
  <2> HIDE DEF into, ids, lost
  <2>1. vec' \in [Ids -> Vector \cup {NoVector}]
    BY <1>3, <1>6 DEF EInv, TypeOK
  <2> QED
    BY <2>1, <1>1, <1>3 DEF EInv, TypeOK
<1>8. \A i \in Ids : vec'[i] # NoVector => i \in alive /\ vec'[i].space = space
  <2> HIDE DEF into, ids, lost
  <2> QED
    BY <1>2, <1>3 DEF EInv, VectorsAreTrue
<1> QED
  BY <1>0, <1>3, <1>7, <1>8

LEMMA EStep == ASSUME EInv, [Next]_vars PROVE EInv'
<1> USE ConstantsAssumption DEF ConstantsAssumption
<1>1. CASE UNCHANGED vars
  BY <1>1 DEF vars, disk, EInv, TypeOK, ChainInv, RowsInv, VectorsAreTrue, NoClash, Active
<1>2. ASSUME NEW s \in Sweeps, embedPending(s) PROVE EInv'
  <2> USE <1>2 DEF EInv, embedPending
  <2> DEFINE new == [pc |-> "queued", rows |-> {}]
  <2>1. /\ Len(chain') = Len(chain) + 1 /\ chain'[Len(chain) + 1] = s /\ chain' \in Seq(Sweeps)
        /\ \A k \in 1..Len(chain) : chain'[k] = chain[k]
    BY DEF TypeOK
  <2>2. new \in [pc : Stages, rows : SUBSET Row]
    BY DEF Stages
  <2>3. sweep' \in [Sweeps -> [pc : Stages, rows : SUBSET Row]] /\ \A t \in Sweeps : sweep'[t] = IF t = s THEN new ELSE sweep[t]
    BY <2>2 DEF TypeOK
  <2>4. TypeOK'
    BY <2>1, <2>3 DEF TypeOK, disk
  <2>5. \A t \in Sweeps : Active(t)' <=> Active(t)
    BY <2>3 DEF Active
  <2>6. ChainInv'
    <3>0. Len(chain) \in Nat
      BY DEF TypeOK
    <3>1. \A k \in 1..Len(chain) : chain[k] \in Sweeps /\ chain[k] # s
      BY DEF TypeOK, ChainInv
    <3>2. \A j, k \in 1..Len(chain') : j # k => chain'[j] # chain'[k]
      BY <3>0, <3>1, <2>1 DEF ChainInv
    <3>3. \A k \in 1..Len(chain') : sweep'[chain'[k]].pc # "idle"
      BY <3>0, <3>1, <2>1, <2>3 DEF ChainInv
    <3>4. ASSUME NEW t \in Sweeps, sweep'[t].pc # "idle" PROVE \E k \in 1..Len(chain') : chain'[k] = t
      BY <3>0, <3>4, <2>1, <2>3 DEF ChainInv
    <3>5. \A t \in Sweeps : Active(t)' => Len(chain') > 0 /\ chain'[1] = t
      BY <3>0, <2>1, <2>5 DEF ChainInv
    <3> QED
      BY <3>2, <3>3, <3>4, <3>5 DEF ChainInv
  <2>7. RowsInv'
    BY <2>3, <2>5 DEF RowsInv, Active, disk
  <2> QED
    BY <2>4, <2>6, <2>7 DEF VectorsAreTrue, NoClash, disk
<1>3. ASSUME NEW s \in Sweeps, Begin(s) PROVE EInv'
  <2>0. sweep[s].pc = "queued" /\ Head(chain) = s
    BY <1>3 DEF Begin, Turn
  <2>a. \E k \in 1..Len(chain) : chain[k] = s
    BY <2>0 DEF EInv, ChainInv
  <2>b. Len(chain) \in Nat /\ Len(chain) > 0
    BY <2>a DEF EInv, TypeOK
  <2>1. sweep[s].pc = "queued" /\ chain[1] = s /\ Len(chain) > 0
    BY <2>0, <2>b
  <2> USE <1>3 DEF EInv, Begin, Turn
  <2>2. CASE Over(s)
    <3>1. ChainInv' /\ TypeOK' /\ RowsInv'
      BY <2>1, <2>2, OverStep DEF TypeOK, disk, RowsInv
    <3> QED
      BY <3>1 DEF VectorsAreTrue, NoClash, disk
  <2>3. CASE sweep' = [sweep EXCEPT ![s] = [pc |-> "batch", rows |-> rowsToEmbed]] /\ UNCHANGED chain
    <3> DEFINE new == [pc |-> "batch", rows |-> rowsToEmbed]
    <3>1. new \in [pc : Stages, rows : SUBSET Row]
      BY RowsToEmbed DEF Stages
    <3>2. sweep' \in [Sweeps -> [pc : Stages, rows : SUBSET Row]] /\ \A t \in Sweeps : sweep'[t] = IF t = s THEN new ELSE sweep[t]
      BY <2>3, <3>1 DEF TypeOK
    <3>3. TypeOK'
      BY <2>3, <3>2 DEF TypeOK, disk
    <3>4. \A t \in Sweeps : Active(t) => t = s
      BY <2>1 DEF ChainInv
    <3>5. ChainInv'
      <4>1. \A k \in 1..Len(chain) : chain[k] \in Sweeps
        BY DEF TypeOK
      <4> QED
        BY <4>1, <2>1, <2>3, <3>2, <3>4 DEF ChainInv, Active
    <3>6. RowsInv'
      BY <3>2, <3>4, RowsToEmbed DEF RowsInv, Active, disk
    <3> QED
      BY <3>3, <3>5, <3>6 DEF VectorsAreTrue, NoClash, disk
  <2> QED
    BY <2>2, <2>3
<1>4. ASSUME NEW s \in Sweeps, BatchAnswer(s) PROVE EInv'
  <2> USE <1>4 DEF EInv, BatchAnswer
  <2>1. Active(s) /\ chain[1] = s /\ Len(chain) > 0 /\ sweep[s].pc = "batch"
    BY DEF ChainInv, Active
  <2>2. CASE Write(sweep[s].rows) /\ Over(s)
    <3>1. sweep[s].rows \in SUBSET Row /\ \A r \in sweep[s].rows : vec[r.id] = NoVector
      BY <2>1 DEF RowsInv, TypeOK
    <3>2. ChainInv' /\ chain' \in Seq(Sweeps) /\ sweep' \in [Sweeps -> [pc : Stages, rows : SUBSET Row]]
          /\ \A t \in Sweeps : ~Active(t)'
      BY <2>1, <2>2, OverStep
    <3>3. /\ clash' = FALSE
          /\ vec' \in [Ids -> Vector \cup {NoVector}] /\ attempts' \in [Ids -> Nat] /\ told' \subseteq Ids
          /\ \A i \in Ids : vec'[i] # NoVector => i \in alive /\ vec'[i].space = space
      BY <2>2, <3>1, WriteStep
    <3>4. TypeOK'
      BY <3>2, <3>3 DEF TypeOK
    <3>5. RowsInv'
      BY <3>2 DEF RowsInv
    <3> QED
      BY <3>2, <3>3, <3>4, <3>5 DEF VectorsAreTrue, NoClash
  <2>3. CASE /\ sweep' = [sweep EXCEPT ![s].pc = "probe"]
             /\ UNCHANGED <<chain, vec, attempts, told, clash>>
    <3>1. sweep' \in [Sweeps -> [pc : Stages, rows : SUBSET Row]]
      BY <2>3 DEF TypeOK, Stages
    <3>2. \A t \in Sweeps : sweep'[t].rows = sweep[t].rows /\ (sweep'[t].pc = sweep[t].pc \/ (t = s /\ sweep'[t].pc = "probe"))
      BY <2>3 DEF TypeOK
    <3>3. TypeOK'
      BY <2>3, <3>1 DEF TypeOK
    <3>4. ChainInv'
      <4>1. \A k \in 1..Len(chain) : chain[k] \in Sweeps
        BY DEF TypeOK
      <4> QED
        BY <4>1, <2>1, <2>3, <3>2 DEF ChainInv, Active
    <3>5. RowsInv'
      BY <2>1, <2>3, <3>2 DEF RowsInv, Active
    <3> QED
      BY <2>3, <3>3, <3>4, <3>5 DEF VectorsAreTrue, NoClash
  <2> QED
    BY <2>2, <2>3
<1>5. ASSUME NEW s \in Sweeps, ProbeAnswer(s) PROVE EInv'
  <2> USE <1>5 DEF EInv, ProbeAnswer
  <2>1. Active(s) /\ chain[1] = s /\ Len(chain) > 0 /\ sweep[s].pc = "probe"
    BY DEF ChainInv, Active
  <2>2. CASE Over(s)
    <3>1. ChainInv' /\ TypeOK' /\ RowsInv'
      BY <2>1, <2>2, OverStep DEF TypeOK, disk, RowsInv
    <3> QED
      BY <3>1 DEF VectorsAreTrue, NoClash, disk
  <2>3. CASE sweep' = [sweep EXCEPT ![s].pc = "alone"] /\ UNCHANGED chain
    <3>1. sweep' \in [Sweeps -> [pc : Stages, rows : SUBSET Row]]
      BY <2>3 DEF TypeOK, Stages
    <3>2. \A t \in Sweeps : sweep'[t].rows = sweep[t].rows /\ (sweep'[t].pc = sweep[t].pc \/ (t = s /\ sweep'[t].pc = "alone"))
      BY <2>3 DEF TypeOK
    <3>3. TypeOK'
      BY <2>3, <3>1 DEF TypeOK, disk
    <3>4. ChainInv'
      <4>1. \A k \in 1..Len(chain) : chain[k] \in Sweeps
        BY DEF TypeOK
      <4> QED
        BY <4>1, <2>1, <2>3, <3>2 DEF ChainInv, Active
    <3>5. RowsInv'
      BY <2>1, <2>3, <3>2 DEF RowsInv, Active, disk
    <3> QED
      BY <2>3, <3>3, <3>4, <3>5 DEF VectorsAreTrue, NoClash, disk
  <2> QED
    BY <2>2, <2>3
<1>6. ASSUME NEW s \in Sweeps, AloneAnswer(s) PROVE EInv'
  <2> USE <1>6 DEF EInv
  <2>1. Active(s) /\ chain[1] = s /\ Len(chain) > 0 /\ sweep[s].pc = "alone"
    BY DEF ChainInv, Active, AloneAnswer
  <2>2. PICK row \in sweep[s].rows :
          /\ IF Computes({row}) THEN Write({row}) ELSE recordFailure(row.id)
          /\ IF sweep[s].rows = {row}
             THEN Over(s)
             ELSE /\ sweep' = [sweep EXCEPT ![s].rows = @ \ {row}]
                  /\ UNCHANGED chain
    BY DEF AloneAnswer
  <2>3. /\ row \in Row /\ {row} \in SUBSET Row /\ vec[row.id] = NoVector
        /\ \A r \in {row} : vec[r.id] = NoVector
    BY <2>1, <2>2 DEF RowsInv, TypeOK
  <2>4. UNCHANGED <<alive, last, text, space, engine, downs>>
    BY DEF AloneAnswer
  <2>5. /\ clash' = FALSE
        /\ vec' \in [Ids -> Vector \cup {NoVector}] /\ attempts' \in [Ids -> Nat] /\ told' \subseteq Ids
        /\ \A i \in Ids : vec'[i] # NoVector => i \in alive /\ vec'[i].space = space
        /\ \A i \in Ids : i # row.id => vec'[i] = vec[i]
    <3>1. CASE Write({row})
      <4>1. \A i \in Ids : i # row.id => vec'[i] = vec[i]
        BY <3>1 DEF Write
      <4> QED
        BY <3>1, <4>1, <2>3, WriteStep
    <3>2. CASE recordFailure(row.id)
      <4>1. SurfaceAfter \in Nat /\ attempts[row.id] \in Nat /\ row.id \in Ids
        BY <2>3 DEF TypeOK, Row
      <4>2. Min({attempts[row.id] + 1, SurfaceAfter + 1}) \in Nat
        BY <4>1, MinOfTwo
      <4>3. attempts' \in [Ids -> Nat] /\ told' \subseteq Ids
        BY <3>2, <4>1, <4>2 DEF recordFailure, TypeOK
      <4> QED
        BY <3>2, <4>3 DEF recordFailure, TypeOK, VectorsAreTrue, NoClash
    <3> QED
      BY <2>2, <3>1, <3>2
  <2>6. CASE Over(s)
    <3>1. ChainInv' /\ chain' \in Seq(Sweeps) /\ sweep' \in [Sweeps -> [pc : Stages, rows : SUBSET Row]]
          /\ \A t \in Sweeps : ~Active(t)'
      BY <2>1, <2>6, OverStep
    <3>2. TypeOK'
      BY <3>1, <2>4, <2>5 DEF TypeOK
    <3>3. RowsInv'
      BY <3>1 DEF RowsInv
    <3> QED
      BY <2>4, <2>5, <3>1, <3>2, <3>3 DEF VectorsAreTrue, NoClash
  <2>7. CASE sweep' = [sweep EXCEPT ![s].rows = @ \ {row}] /\ UNCHANGED chain
    <3> DEFINE new == [sweep[s] EXCEPT !.rows = @ \ {row}]
    <3>0. /\ new \in [pc : Stages, rows : SUBSET Row]
          /\ new.pc = sweep[s].pc /\ new.rows = sweep[s].rows \ {row}
      BY RowGone DEF TypeOK
    <3> HIDE DEF new
    <3>1. sweep' = [sweep EXCEPT ![s] = new]
      BY <2>7 DEF new
    <3>2. /\ sweep' \in [Sweeps -> [pc : Stages, rows : SUBSET Row]]
          /\ \A t \in Sweeps : sweep'[t] = IF t = s THEN new ELSE sweep[t]
      BY <3>0, <3>1 DEF TypeOK
    <3>3. \A t \in Sweeps : sweep'[t].pc = sweep[t].pc
      BY <3>0, <3>2
    <3>4. TypeOK'
      BY <2>4, <2>5, <2>7, <3>2 DEF TypeOK
    <3>5. ChainInv'
      <4>1. \A k \in 1..Len(chain) : chain[k] \in Sweeps
        BY DEF TypeOK
      <4> QED
        BY <4>1, <2>7, <3>3 DEF ChainInv, Active
    <3>6. RowsInv'
      <4>1. \A t \in Sweeps : Active(t)' => t = s
        BY <2>1, <3>3, OneActive DEF Active
      <4>2. \A r \in sweep[s].rows \ {row} : r.id \in Ids /\ r.id # row.id
        BY <2>1, <2>2 DEF RowsInv, TypeOK, Row
      <4> QED
        BY <4>1, <4>2, <3>0, <3>2, <2>1, <2>5 DEF RowsInv
    <3> QED
      BY <2>4, <2>5, <3>4, <3>5, <3>6 DEF VectorsAreTrue, NoClash
  <2> QED
    BY <2>2, <2>6, <2>7
<1>7. ASSUME Insert PROVE EInv'
  <2>1. TypeOK'
    <3>1. last + 1 \in Ids /\ last' = last + 1
      BY <1>7 DEF EInv, TypeOK, Insert, Ids
    <3>2. text' \in [Ids -> 0..MaxText]
      <4>1. PICK t \in {0, 1} : text' = [text EXCEPT ![last + 1] = t]
        BY <1>7 DEF Insert
      <4> QED
        <5>1. t \in 0..MaxText /\ text \in [Ids -> 0..MaxText]
          BY DEF EInv, TypeOK
        <5> QED
          BY <4>1, <5>1
    <3> QED
      BY <1>7, <3>1, <3>2 DEF EInv, TypeOK, Insert, Ids
  <2> QED
    BY <1>7, <2>1 DEF EInv, Insert, ChainInv, RowsInv, VectorsAreTrue, NoClash, Active
<1>8. ASSUME NEW i \in Ids, Rewrite(i) PROVE EInv'
  <2>1. TypeOK'
    BY <1>8 DEF EInv, TypeOK, Rewrite
  <2>2. vec' = [vec EXCEPT ![i] = NoVector] /\ vec \in [Ids -> Vector \cup {NoVector}]
    BY <1>8 DEF EInv, TypeOK, Rewrite
  <2>3. RowsInv'
    BY <1>8, <2>2 DEF EInv, Rewrite, RowsInv, Active, TypeOK, Row
  <2> QED
    BY <1>8, <2>1, <2>2, <2>3 DEF EInv, Rewrite, ChainInv, VectorsAreTrue, NoClash, Active
<1>9. ASSUME NEW i \in Ids, Erase(i) PROVE EInv'
  <2>1. TypeOK'
    BY <1>9 DEF EInv, TypeOK, Erase
  <2>2. vec' = [vec EXCEPT ![i] = NoVector] /\ vec \in [Ids -> Vector \cup {NoVector}]
    BY <1>9 DEF EInv, TypeOK, Erase
  <2>3. RowsInv'
    BY <1>9, <2>2 DEF EInv, Erase, RowsInv, Active, TypeOK, Row
  <2> QED
    BY <1>9, <2>1, <2>2, <2>3 DEF EInv, Erase, ChainInv, VectorsAreTrue, NoClash, Active
<1>10. ASSUME Migrate PROVE EInv'
  <2>1. TypeOK'
    BY <1>10 DEF EInv, TypeOK, Migrate
  <2>2. RowsInv'
    BY <1>10 DEF EInv, Migrate, RowsInv, Active, TypeOK, Row
  <2> QED
    BY <1>10, <2>1, <2>2 DEF EInv, Migrate, ChainInv, VectorsAreTrue, NoClash, Active
<1>11. ASSUME EngineDown \/ EngineUp PROVE EInv'
  <2>1. TypeOK'
    <3>1. engine' \in [up : BOOLEAN, space : Spaces]
      <4>1. CASE EngineDown
        <5>1. engine' = [engine EXCEPT !.up = FALSE] /\ engine \in [up : BOOLEAN, space : Spaces]
          BY <4>1 DEF EInv, TypeOK, EngineDown
        <5> QED
          BY <5>1
      <4>2. CASE EngineUp
        BY <4>2 DEF EngineUp
      <4> QED
        BY <1>11, <4>1, <4>2
    <3>2. downs' \in 0..MaxDowns
      BY <1>11 DEF EInv, TypeOK, EngineDown, EngineUp
    <3> QED
      BY <1>11, <3>1, <3>2 DEF EInv, TypeOK, EngineDown, EngineUp, disk
  <2> QED
    BY <1>11, <2>1 DEF EInv, EngineDown, EngineUp, ChainInv, RowsInv, VectorsAreTrue, NoClash, Active, disk
<1>12. ASSUME Respawn PROVE EInv'
  <2>1. TypeOK'
    BY <1>12 DEF EInv, TypeOK, Respawn, disk, Idle, Stages
  <2>2. \A s \in Sweeps : sweep'[s].pc = "idle"
    BY <1>12 DEF Respawn, Idle
  <2> QED
    BY <1>12, <2>1, <2>2 DEF EInv, Respawn, ChainInv, RowsInv, VectorsAreTrue, NoClash, Active, disk
<1> QED
  BY <1>1, <1>2, <1>3, <1>4, <1>5, <1>6, <1>7, <1>8, <1>9, <1>10, <1>11, <1>12 DEF Next, Step

LEMMA EInvariance == Spec => []EInv
  BY EInit, EStep, PTL DEF Spec

-----------------------------------------------------------------------------
\* Every variable of the base, the sidecar and the sweeps keeps its type.
THEOREM EmbedTypeCorrect == Spec => []TypeOK
<1>1. EInv => TypeOK
  BY DEF EInv
<1> QED
  BY <1>1, EInvariance, PTL

\* No vector of another space or of an erased row is ever found by a search, whatever was
\* erased, migrated or respawned while it was computed (writeVector).
THEOREM VectorsTrue == Spec => []VectorsAreTrue
<1>1. EInv => VectorsAreTrue
  BY DEF EInv
<1> QED
  BY <1>1, EInvariance, PTL

\* Two sweeps of a corpus never write the same row (the chain of embedPending), so that no
\* batch is thrown away.
THEOREM SweepsNeverClash == Spec => []NoClash
<1>1. EInv => NoClash
  BY DEF EInv
<1> QED
  BY <1>1, EInvariance, PTL
-----------------------------------------------------------------------------
(* The single instance.                                                    *)

\* Whoever acts holds the pipe: the operating system is the only judge.
ActsOnThePipe == \A p \in Procs : Acts(p) => pipe = p

LInv == LockTypeOK /\ ActsOnThePipe

Owner == {p \in Procs : Acts(p)}
-----------------------------------------------------------------------------
LEMMA LockInitInv == LockInit => LInv
  BY LaunchAssumption DEF LaunchAssumption, LockInit, LInv, LockTypeOK, ActsOnThePipe, Acts,
     LaunchStages

\* The process that binds the pipe found it free, so nobody acted.
LEMMA FreeMeansNobody ==
  ASSUME LInv, pipe = None
  PROVE  \A p \in Procs : ~Acts(p)
  BY LaunchAssumption DEF LaunchAssumption, LInv, ActsOnThePipe

LEMMA LockTypeStep == ASSUME LockTypeOK, [LockNext]_lockVars PROVE LockTypeOK'
<1> USE LaunchAssumption DEF LaunchAssumption, LockTypeOK, LaunchStages, At, Goes, Fault, procs
<1>1. CASE UNCHANGED lockVars
  BY <1>1 DEF lockVars
<1>2. ASSUME NEW p \in Procs, Launch(p) PROVE LockTypeOK'
  BY <1>2 DEF Launch
<1>3. ASSUME NEW p \in Procs, Bind(p) PROVE LockTypeOK'
  BY <1>3 DEF Bind
<1>4. ASSUME NEW p \in Procs, InUse(p) PROVE LockTypeOK'
  BY <1>4 DEF InUse
<1>5. ASSUME NEW p \in Procs, BecomePrimary(p) PROVE LockTypeOK'
  BY <1>5 DEF BecomePrimary
<1>6. ASSUME NEW p \in Procs, RequestFocus(p) PROVE LockTypeOK'
  BY <1>6 DEF RequestFocus
<1>7. ASSUME NEW p \in Procs, Acknowledged(p) PROVE LockTypeOK'
  BY <1>7 DEF Acknowledged
<1>8. ASSUME NEW p \in Procs, Unheard(p) PROVE LockTypeOK'
  BY <1>8 DEF Unheard
<1>9. ASSUME NEW p \in Procs, Judge(p) PROVE LockTypeOK'
  <2>1. Victim(lockfile) \in {"stranger", "frozen", "healthy", "other"}
    BY DEF Victim
  <2>2. shot' \in SUBSET {"stranger", "frozen", "healthy", "other"}
    <3>1. shot' = shot \/ shot' = shot \union {Victim(lockfile)}
      BY <1>9 DEF Judge
    <3> QED
      BY <2>1, <3>1
  <2>3. pc' \in [Procs -> LaunchStages] /\ tries' \in [Procs -> Nat]
    BY <1>9 DEF Judge
  <2>4. running' \in [Procs -> BOOLEAN] /\ faults' \in Nat
    <3>1. running' = running \/ running' = [running EXCEPT ![lockfile] = FALSE]
      BY <1>9 DEF Judge
    <3>2. faults' = faults \/ (faults > 0 /\ faults' = faults - 1)
      BY <1>9 DEF Judge
    <3>3. running' \in [Procs -> BOOLEAN]
      BY <3>1
    <3>4. faults' \in Nat
      BY <3>2
    <3> QED
      BY <3>3, <3>4
  <2> QED
    BY <1>9, <2>2, <2>3, <2>4 DEF Judge
<1>10. ASSUME NEW p \in Procs, Quit(p) PROVE LockTypeOK'
  BY <1>10 DEF Quit
<1>11. ASSUME NEW p \in Procs, RemoveLockfile(p) PROVE LockTypeOK'
  BY <1>11 DEF RemoveLockfile
<1>12. ASSUME NEW p \in Procs, PipeFreed(p) PROVE LockTypeOK'
  BY <1>12 DEF PipeFreed
<1>13. ASSUME NEW p \in Procs, Exit(p) PROVE LockTypeOK'
  BY <1>13 DEF Exit
<1>14. ASSUME NEW p \in Procs, Crash(p) PROVE LockTypeOK'
  BY <1>14 DEF Crash
<1>15. ASSUME NEW p \in Procs, Freeze(p) PROVE LockTypeOK'
  BY <1>15 DEF Freeze
<1>16. ASSUME NEW p \in Procs, Reuse(p) PROVE LockTypeOK'
  BY <1>16 DEF Reuse
<1> QED
  BY <1>1, <1>2, <1>3, <1>4, <1>5, <1>6, <1>7, <1>8, <1>9, <1>10, <1>11, <1>12, <1>13, <1>14,
     <1>15, <1>16 DEF LockNext, Acquire

\* Nobody comes to act but by Bind, and the pipe moves only from one that does not act.
LEMMA ActsStep == ASSUME LInv, [LockNext]_lockVars PROVE ActsOnThePipe'
<1> USE LaunchAssumption DEF LaunchAssumption, LInv, LockTypeOK, ActsOnThePipe, Acts, At, Goes,
   procs
<1>1. CASE UNCHANGED lockVars
  BY <1>1 DEF lockVars
<1>2. ASSUME NEW p \in Procs, Launch(p) PROVE ActsOnThePipe'
  BY <1>2 DEF Launch
<1>3. ASSUME NEW p \in Procs, Bind(p) PROVE ActsOnThePipe'
  BY <1>3, FreeMeansNobody DEF Bind
<1>4. ASSUME NEW p \in Procs, InUse(p) PROVE ActsOnThePipe'
  BY <1>4 DEF InUse
<1>5. ASSUME NEW p \in Procs, BecomePrimary(p) PROVE ActsOnThePipe'
  BY <1>5 DEF BecomePrimary
<1>6. ASSUME NEW p \in Procs, RequestFocus(p) PROVE ActsOnThePipe'
  BY <1>6 DEF RequestFocus
<1>7. ASSUME NEW p \in Procs, Acknowledged(p) PROVE ActsOnThePipe'
  BY <1>7 DEF Acknowledged
<1>8. ASSUME NEW p \in Procs, Unheard(p) PROVE ActsOnThePipe'
  BY <1>8 DEF Unheard
<1>9. ASSUME NEW p \in Procs, Judge(p) PROVE ActsOnThePipe'
  BY <1>9 DEF Judge
<1>10. ASSUME NEW p \in Procs, Quit(p) \/ RemoveLockfile(p) \/ PipeFreed(p) PROVE ActsOnThePipe'
  BY <1>10 DEF Quit, RemoveLockfile, PipeFreed
<1>11. ASSUME NEW p \in Procs, Exit(p) \/ Crash(p) \/ Freeze(p) \/ Reuse(p) PROVE ActsOnThePipe'
  BY <1>11 DEF Exit, Crash, Freeze, Reuse
<1> QED
  BY <1>1, <1>2, <1>3, <1>4, <1>5, <1>6, <1>7, <1>8, <1>9, <1>10, <1>11 DEF LockNext, Acquire

LEMMA LockInvariance == LockSpec => []LInv
<1>1. LInv /\ [LockNext]_lockVars => LInv'
  BY LockTypeStep, ActsStep DEF LInv
<1> QED
  BY <1>1, LockInitInv, PTL DEF LockSpec

\* Every variable of the race keeps its type.
THEOREM LockTypeCorrect == LockSpec => []LockTypeOK
<1>1. LInv => LockTypeOK
  BY DEF LInv
<1> QED
  BY <1>1, LockInvariance, PTL
-----------------------------------------------------------------------------
\* The recovery of a frozen primary shoots nothing but a Sophia: a pid that came back as
\* another program is not identified (recoverFrozenPrimary).
THEOREM StrangersAreSafe == LockSpec => []StrangersLive
<1>1. LockInit => StrangersLive
  BY DEF LockInit, StrangersLive
<1>2. ASSUME StrangersLive, [LockNext]_lockVars PROVE StrangersLive'
  <2>1. ASSUME NEW p \in Procs, Judge(p) PROVE StrangersLive'
    BY <2>1, <1>2 DEF Judge, Identified, Victim, StrangersLive
  <2>2. shot' = shot \/ \E p \in Procs : Judge(p)
    BY <1>2 DEF LockNext, Acquire, lockVars, Launch, Bind, InUse, BecomePrimary, RequestFocus,
       Acknowledged,
       Unheard, Quit, RemoveLockfile, PipeFreed, Exit, Crash, Freeze, Reuse
  <2> QED
    BY <1>2, <2>1, <2>2 DEF StrangersLive
<1> QED
  BY <1>1, <1>2, PTL DEF LockSpec
-----------------------------------------------------------------------------
LEMMA OwnerStep ==
  ASSUME LInv, LInv', [LockNext]_lockVars
  PROVE  \/ Owner' = Owner
         \/ Owner # {} /\ Owner' = {}
         \/ \E p \in Procs : Owner = {} /\ Owner' = {p}
<1> USE LaunchAssumption DEF LaunchAssumption, LInv, ActsOnThePipe, Owner
<1>1. CASE pipe' = pipe
  <2>1. ASSUME NEW p \in Procs, NEW q \in Procs, p \in Owner, q \in Owner PROVE p = q
    BY <2>1
  <2>2. Owner' \subseteq Owner
    <3> USE DEF Acts, At, Goes, procs, LockTypeOK
    <3>1. ASSUME NEW p \in Procs,
       Launch(p) \/ BecomePrimary(p) \/ InUse(p) PROVE Owner' \subseteq Owner
      BY <3>1 DEF Launch, BecomePrimary, InUse
    <3>2. ASSUME NEW p \in Procs,
       RequestFocus(p) \/ Acknowledged(p) \/ Unheard(p) PROVE Owner' \subseteq Owner
      BY <3>2 DEF RequestFocus, Acknowledged, Unheard
    <3>3. ASSUME NEW p \in Procs, Judge(p) PROVE Owner' \subseteq Owner
      BY <3>3 DEF Judge
    <3>4. ASSUME NEW p \in Procs, Quit(p) \/ RemoveLockfile(p) PROVE Owner' \subseteq Owner
      BY <3>4 DEF Quit, RemoveLockfile
    <3>5. ASSUME NEW p \in Procs,
       Exit(p) \/ Crash(p) \/ Freeze(p) \/ Reuse(p) PROVE Owner' \subseteq Owner
      BY <3>5 DEF Exit, Crash, Freeze, Reuse
    <3>6. ASSUME NEW p \in Procs, Bind(p) \/ PipeFreed(p) PROVE FALSE
      BY <3>6, <1>1 DEF Bind, PipeFreed
    <3>7. CASE UNCHANGED lockVars
      BY <3>7 DEF lockVars
    <3> QED
      BY <3>1, <3>2, <3>3, <3>4, <3>5, <3>6, <3>7 DEF LockNext, Acquire
  <2>3. CASE Owner = {}
    BY <2>2, <2>3
  <2>4. ASSUME NEW p \in Owner PROVE Owner' = Owner \/ Owner' = {}
    <3>1. Owner = {p}
      BY <2>1
    <3> QED
      BY <2>2, <3>1
  <2> QED
    BY <2>2, <2>3, <2>4
<1>2. ASSUME NEW p \in Procs, Bind(p) PROVE Owner = {} /\ Owner' = {p}
  <2>1. Owner = {}
    BY <1>2, FreeMeansNobody DEF Bind
  <2>2. Acts(p)'
    BY <1>2 DEF Bind, Acts, At, Goes, LockTypeOK
  <2>3. Owner' \subseteq {p}
    BY <1>2 DEF Bind
  <2> QED
    BY <2>1, <2>2, <2>3
<1>3. ASSUME NEW p \in Procs, PipeFreed(p) PROVE Owner' = Owner
  BY <1>3 DEF PipeFreed, Acts, procs
<1>4. CASE pipe' # pipe
  <2>1. \E p \in Procs : Bind(p) \/ PipeFreed(p)
    BY <1>4 DEF LockNext, Acquire, lockVars, Launch, InUse, BecomePrimary, RequestFocus,
       Acknowledged,
       Unheard, Judge, Quit, RemoveLockfile, Exit, Crash, Freeze, Reuse
  <2> QED
    BY <2>1, <1>2, <1>3
<1> QED
  BY <1>1, <1>4

\* The race for the pipe, the recovery and the release implement the lock of the home: no
\* two processes ever act as its Sophia (acquireSingleInstance).
THEOREM ImplementsHomeLock == LockSpec => OneOwner
<1>1. LockInit => Home!Init
  BY DEF LockInit, Home!Init, Acts
<1>2. ASSUME LInv, LInv', [LockNext]_lockVars PROVE [Home!Next]_Owner
  BY <1>2, OwnerStep DEF Home!Next, Home!Take, Home!Leave, Owner
<1>3. OneOwner <=> Home!Init /\ [][Home!Next]_Owner
  BY DEF OneOwner, Home!Spec, Owner
<1> QED
  BY <1>1, <1>2, <1>3, LockInvariance, PTL DEF LockSpec
=============================================================================
