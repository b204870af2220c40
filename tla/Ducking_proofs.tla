--------------------------- MODULE Ducking_proofs ---------------------------
(***************************************************************************)
(* What was lowered is given back or owed on the disk, for any number of   *)
(* applications, launches, settings and queued operations.                 *)
(*                                                                         *)
(* The argument is that of a ledger.  The file is what is owed (OwedInv),  *)
(* or what is being settled (OpInv); each application has one line in it,  *)
(* written before the lowering at the volume of the user (CleanInv), and a *)
(* pid of it is the pid of nobody else (PidInv).  What is lowered is then  *)
(* one lowering below a line of the ledger (DepthInv, DebtOnFile).  Last,  *)
(* the chain still holds whatever ends a duck that is no longer wanted     *)
(* (IntentInv).                                                            *)
(***************************************************************************)
EXTENDS Ducking, TLAPS, WellFoundedInduction

\* The boot net has not begun: nothing of the file is in memory yet.
BootAhead == Len(queue) > 0 /\ queue[1] = "boot"
Restoring == op.at \in {"ask", "paid", "unpaid"}

\* Nothing outlives the process but the file.
DownInv == ~up => queue = <<>> /\ op = NoOp /\ ~rescan /\ ~active

\* The net of the boot is the first operation of a process.
BootInv ==
  \A k \in 1..Len(queue) : queue[k] = "boot" => k = 1 /\ op = NoOp /\ ~active /\ pending = {}

\* A pid that was written down is the pid of that application or of nobody.
PidInv ==
  /\ \A a \in Apps : open[a] <= launches
  /\ \A a, b \in Apps : open[a] = open[b] /\ open[a] # 0 => a = b
  /\ \A e \in file : e.pid <= launches /\ \A a \in Apps : open[a] = e.pid => e.name = a

\* One lowering, or none.
DepthInv == \A a \in Apps \ astray : vol[a].depth \in {0, 2}

\* The file has one line for an application, which is a volume of its user.
CleanInv ==
  \A e \in file : e.name \notin astray =>
    e.vol.depth = 0 /\ \A f \in file : f.name = e.name => f = e

\* The file is what the memory owes, but while it is settled.
OwedInv == up /\ ~BootAhead /\ ~Restoring => file = Owed

OpInv ==
  /\ op.at = "none" => op = NoOp
  /\ op.at = "setv" => active /\ op.list \subseteq entries
  /\ Restoring => ~active /\ op.list = file /\ op.missing \subseteq op.list
  /\ op.at = "paid" => \A a \in Apps \ astray : vol[a].depth > 0 => DebtOf(a, op.missing)
  /\ ~active => entries = {}

\* A duck that is no longer wanted has its end in the chain, behind it.
Ender(j) == queue[j] \in {"restore", "stop"}
IntentInv == up =>
  /\ active => ducked \/ \E j \in 1..Len(queue) : Ender(j)
  /\ \A k \in 1..Len(queue) : queue[k] = "duck" => ducked \/ \E j \in 1..Len(queue) : j > k /\ Ender(j)

Ledger == PidInv /\ DepthInv /\ CleanInv /\ OwedInv /\ OpInv /\ DebtOnFile
IInv   == TypeOK /\ DownInv /\ BootInv /\ Ledger /\ IntentInv

Kinds == {"boot", "duck", "restore", "rescan", "stop"}
-----------------------------------------------------------------------------
(* Volumes, entries, sessions.                                             *)

\* A lowering keeps the setting of the user, and takes a volume of his one step down.
LEMMA LoweredIs ==
  ASSUME NEW v \in Volume
  PROVE  /\ Lowered(v) \in Volume
         /\ v.depth = 0 => Lowered(v) = [set |-> v.set, depth |-> 2]
<1>1. Silence \in Nat /\ Silence >= 4 /\ v.depth \in Nat /\ v.set \in Nat
  BY MixerAssumption DEF MixerAssumption, Volume
<1>2. v = [set |-> v.set, depth |-> v.depth]
  BY DEF Volume
<1> DEFINE d == IF v.depth + 2 < Silence THEN v.depth + 2 ELSE Silence
<1>3. Lowered(v) = [set |-> v.set, depth |-> d]
  BY <1>2 DEF Lowered
<1>4. d \in Nat /\ (v.depth = 0 => d = 2)
  BY <1>1
<1> QED
  BY <1>1, <1>3, <1>4 DEF Volume

LEMMA LeastMember ==
  ASSUME NEW T, T \subseteq Nat, T # {}
  PROVE  \E x \in T : \A y \in T : x <= y
<1> DEFINE R == OpToRel(<, Nat)
<1>1. IsWellFoundedOn(R, Nat)
  BY NatLessThanWellFounded
<1> HIDE DEF R
<1>2. PICK x \in T : \A y \in T : ~(<<y, x>> \in R)
  BY <1>1, WFMin
<1>3. ASSUME NEW y \in T PROVE x <= y
  <2>1. x \in Nat /\ y \in Nat
    OBVIOUS
  <2>2. y < x => <<y, x>> \in R
    BY <2>1 DEF R, OpToRel
  <2> QED
    BY <1>2, <2>1, <2>2
<1> QED
  BY <1>3

\* The first entry of a name is one of its entries.
LEMMA FirstIs ==
  ASSUME NEW E \in SUBSET Entry, NEW n \in Names(E)
  PROVE  First(E, n) \in E /\ First(E, n).name = n
<1> DEFINE T == {e.pid : e \in Of(E, n)}
<1>1. T \subseteq Nat /\ T # {}
  BY DEF Of, Names, Entry
<1>2. PICK x \in T : \A y \in T : x <= y
  BY <1>1, LeastMember
<1>3. PICK e \in Of(E, n) : e.pid = x
  BY <1>2
<1>4. \A f \in Of(E, n) : e.pid <= f.pid
  BY <1>2, <1>3
<1>5. First(E, n) \in Of(E, n)
  BY <1>3, <1>4 DEF First
<1> QED
  BY <1>5 DEF Of

\* The sessions of an instant: one for each application that is open.
LEMMA SnapIs ==
  ASSUME TypeOK, NEW e \in Snap
  PROVE  /\ e \in Entry /\ e.name \in Apps /\ open[e.name] # 0
         /\ e.pid = open[e.name] /\ e.vol = vol[e.name]
         /\ e = [pid |-> open[e.name], name |-> e.name, vol |-> vol[e.name]]
<1>1. PICK a \in Apps : open[a] # 0 /\ e = [pid |-> open[a], name |-> a, vol |-> vol[a]]
  BY DEF Snap
<1>2. open[a] \in Nat \ {0} /\ vol[a] \in Volume
  BY <1>1 DEF TypeOK, MixerTypeOK
<1> QED
  BY <1>1, <1>2 DEF Entry

\* Taking an origin from the debt changes nothing but the volume.
LEMMA AdoptedIs ==
  ASSUME TypeOK, NEW e \in Entry
  PROVE  /\ Adopted(e) \in Entry /\ Adopted(e).pid = e.pid /\ Adopted(e).name = e.name
         /\ \/ Adopted(e) = e
            \/ /\ e.name \in Names(pending)
               /\ e.vol = Lowered(First(pending, e.name).vol)
               /\ Adopted(e).vol = First(pending, e.name).vol
         /\ e.name \in Names(pending) /\ e.vol = Lowered(First(pending, e.name).vol)
              => Adopted(e).vol = First(pending, e.name).vol
<1>1. CASE e.name \in Names(pending) /\ e.vol = Lowered(First(pending, e.name).vol)
  <2> DEFINE f == First(pending, e.name)
  <2>1. f \in Entry
    BY <1>1, FirstIs DEF TypeOK, MixerTypeOK
  <2>2. f.vol \in Volume
    BY <2>1 DEF Entry
  <2>3. Adopted(e) = [e EXCEPT !.vol = f.vol]
    BY <1>1 DEF Adopted
  <2> HIDE DEF f
  <2>4. /\ Adopted(e) \in Entry /\ Adopted(e).pid = e.pid /\ Adopted(e).name = e.name
        /\ Adopted(e).vol = f.vol
    BY <2>2, <2>3 DEF Entry
  <2> QED
    BY <1>1, <2>4 DEF f
<1>2. CASE ~(e.name \in Names(pending) /\ e.vol = Lowered(First(pending, e.name).vol))
  BY <1>2 DEF Adopted
<1> QED
  BY <1>1, <1>2

\* A session is written down at a volume of its user, lowered or not.
LEMMA AdoptedClean ==
  ASSUME TypeOK, DepthInv, CleanInv, DebtOnFile, file = Owed,
         NEW e \in Snap, e.name \notin astray, e.name \notin Names(entries)
  PROVE  Adopted(e).vol = [set |-> vol[e.name].set, depth |-> 0]
<1> DEFINE a == e.name
<1>1. e \in Entry /\ a \in Apps \ astray /\ e.vol = vol[a]
  BY SnapIs
<1>2. vol[a] \in Volume /\ vol[a].depth \in {0, 2} /\ vol[a] = [set |-> vol[a].set, depth |-> vol[a].depth]
  BY <1>1 DEF TypeOK, MixerTypeOK, DepthInv, Volume
<1>3. pending \subseteq file /\ pending \in SUBSET Entry
  BY DEF Owed, TypeOK, MixerTypeOK
<1>4. ASSUME a \in Names(pending)
      PROVE  /\ First(pending, a) \in pending /\ First(pending, a).name = a
             /\ First(pending, a).vol \in Volume /\ First(pending, a).vol.depth = 0
             /\ \A f \in file : f.name = a => f = First(pending, a)
  <2>1. First(pending, a) \in pending /\ First(pending, a).name = a
    BY <1>3, <1>4, FirstIs
  <2>2. First(pending, a).vol \in Volume
    BY <2>1, <1>3 DEF Entry
  <2> QED
    BY <2>1, <2>2, <1>1, <1>3 DEF CleanInv
<1>5. CASE vol[a].depth = 0
  <2>1. ASSUME a \in Names(pending) PROVE e.vol # Lowered(First(pending, a).vol)
    <3>1. Lowered(First(pending, a).vol) = [set |-> First(pending, a).vol.set, depth |-> 2]
      BY <2>1, <1>4, LoweredIs
    <3> QED
      BY <3>1, <1>1, <1>5
  <2>2. Adopted(e) = e
    BY <2>1, <1>1, AdoptedIs
  <2> QED
    BY <2>2, <1>1, <1>2, <1>5
<1>6. CASE vol[a].depth = 2
  <2>1. PICK f \in file : f.name = a /\ f.vol = [set |-> vol[a].set, depth |-> 0]
    BY <1>1, <1>6 DEF DebtOnFile, DebtOf
  <2>2. f \in pending
    BY <2>1 DEF Owed, Names
  <2>3. a \in Names(pending)
    BY <2>1, <2>2 DEF Names
  <2>4. First(pending, a) = f
    BY <2>1, <2>3, <1>4
  <2>5. f.vol \in Volume /\ f.vol.depth = 0 /\ f.vol.set = vol[a].set
    BY <2>1, <2>3, <2>4, <1>4
  <2>6. Lowered(f.vol) = vol[a]
    BY <2>5, <1>2, <1>6, LoweredIs
  <2> QED
    BY <2>1, <2>3, <2>4, <2>6, <1>1, AdoptedIs
<1> QED
  BY <1>2, <1>5, <1>6
-----------------------------------------------------------------------------
(* The ledger, action by action.                                           *)

\* What SnapDuck and SnapRescan have in common: sessions S are written down, each with its
\* origin, before any of them is lowered.
LEMMA SnapStep ==
  ASSUME TypeOK, PidInv, DepthInv, CleanInv, DebtOnFile, file = Owed,
         NEW S \in SUBSET Snap,
         AdoptPending(S),
         entries' = entries \union {Adopted(e) : e \in S},
         file' = entries' \union pending',
         astray' = astray \union (Names(S) \intersect Names(entries)),
         UNCHANGED windows
  PROVE  /\ entries' \in SUBSET Entry /\ pending' \in SUBSET Entry /\ file' \in SUBSET Entry
         /\ astray' \in SUBSET Apps
         /\ PidInv' /\ DepthInv' /\ CleanInv' /\ DebtOnFile' /\ file' = Owed'
<1> DEFINE list == {Adopted(e) : e \in S}
<1>1. \A e \in S : /\ e \in Snap /\ e \in Entry /\ e.name \in Apps /\ e.pid = open[e.name]
                   /\ open[e.name] # 0
                   /\ Adopted(e) \in Entry /\ Adopted(e).name = e.name /\ Adopted(e).pid = e.pid
  BY SnapIs, AdoptedIs
<1>2. \A e, f \in S : e.name = f.name => e = f
  BY SnapIs
<1>3. /\ entries \in SUBSET Entry /\ pending \in SUBSET Entry /\ pending' \subseteq pending
      /\ \A p \in pending' : p.name \notin Names(S)
  BY DEF TypeOK, MixerTypeOK, AdoptPending
<1>4. entries' \in SUBSET Entry /\ pending' \in SUBSET Entry /\ file' \in SUBSET Entry
  BY <1>1, <1>3
<1>5. astray' \in SUBSET Apps /\ astray \subseteq astray'
  BY <1>1 DEF TypeOK, MixerTypeOK, Names
<1>6. file' = Owed'
  BY DEF Owed
<1>7. UNCHANGED <<open, vol, launches, sets>>
  BY DEF windows
<1>8. DepthInv'
  BY <1>5, <1>7 DEF DepthInv
<1>9. PidInv'
  <2>1. ASSUME NEW e \in file'
        PROVE  e.pid <= launches /\ \A a \in Apps : open[a] = e.pid => e.name = a
    <3>1. CASE e \in file
      BY <3>1 DEF PidInv
    <3>2. CASE e \in list
      BY <3>2, <1>1 DEF PidInv
    <3> QED
      BY <2>1, <3>1, <3>2, <1>3 DEF Owed
  <2> QED
    BY <2>1, <1>7 DEF PidInv
<1>10. CleanInv'
  <2> SUFFICES ASSUME NEW e \in file', e.name \notin astray'
               PROVE  e.vol.depth = 0 /\ \A f \in file' : f.name = e.name => f = e
    BY DEF CleanInv
  <2>1. e.name \notin astray /\ (e.name \in Names(S) => e.name \notin Names(entries))
    BY <1>5
  <2>2. CASE e \in entries
    <3>1. e \in file /\ e.vol.depth = 0
      BY <2>1, <2>2 DEF Owed, CleanInv
    <3>2. e.name \notin Names(S)
      BY <2>1, <2>2 DEF Names
    <3>3. ASSUME NEW f \in file', f.name = e.name PROVE f \in file
      <4>1. f \notin list
        BY <3>2, <3>3, <1>1 DEF Names
      <4> QED
        BY <4>1, <1>3 DEF Owed
    <3> QED
      BY <3>1, <3>3, <2>1 DEF CleanInv
  <2>3. CASE e \in pending'
    <3>1. e \in file /\ e.vol.depth = 0
      BY <2>1, <2>3, <1>3 DEF Owed, CleanInv
    <3>2. e.name \notin Names(S)
      BY <2>3, <1>3
    <3>3. ASSUME NEW f \in file', f.name = e.name PROVE f \in file
      <4>1. f \notin list
        BY <3>2, <3>3, <1>1 DEF Names
      <4> QED
        BY <4>1, <1>3 DEF Owed
    <3> QED
      BY <3>1, <3>3, <2>1 DEF CleanInv
  <2>4. CASE e \in list
    <3>1. PICK x \in S : e = Adopted(x)
      BY <2>4
    <3>2. e.name = x.name /\ x.name \in Names(S)
      BY <3>1, <1>1 DEF Names
    <3>3. e.vol = [set |-> vol[x.name].set, depth |-> 0]
      BY <3>1, <3>2, <2>1, <1>1, AdoptedClean
    <3>4. ASSUME NEW f \in file', f.name = e.name PROVE f = e
      <4>1. f \notin entries
        BY <3>2, <3>4, <2>1 DEF Names
      <4>2. f \notin pending'
        BY <3>2, <3>4, <1>3
      <4>3. PICK y \in S : f = Adopted(y)
        BY <4>1, <4>2
      <4> QED
        BY <4>3, <3>1, <3>2, <3>4, <1>1, <1>2
    <3> QED
      BY <3>3, <3>4
  <2> QED
    BY <2>2, <2>3, <2>4
<1>11. DebtOnFile'
  <2> SUFFICES ASSUME NEW a \in Apps, a \notin astray', vol[a].depth > 0
               PROVE  \E f \in file' : f.name = a /\ f.vol = [set |-> vol[a].set, depth |-> 0]
    BY <1>7 DEF DebtOnFile, DebtOf
  <2>1. PICK f \in file : f.name = a /\ f.vol = [set |-> vol[a].set, depth |-> 0]
    BY <1>5 DEF DebtOnFile, DebtOf
  <2>2. CASE f \in entries
    BY <2>1, <2>2
  <2>3. CASE f \in pending /\ a \notin Names(S)
    BY <2>1, <2>3 DEF AdoptPending
  <2>4. CASE a \in Names(S)
    <3>1. PICK x \in S : x.name = a
      BY <2>4 DEF Names
    <3>2. a \notin astray /\ a \notin Names(entries)
      BY <2>4, <1>5
    <3>3. Adopted(x).vol = [set |-> vol[a].set, depth |-> 0]
      BY <3>1, <3>2, <1>1, AdoptedClean
    <3> QED
      BY <3>1, <3>3, <1>1
  <2> QED
    BY <2>1, <2>2, <2>3, <2>4 DEF Owed
<1> QED
  BY <1>4, <1>5, <1>6, <1>8, <1>9, <1>10, <1>11

\* The lowering touches only what is written down, and takes it one step down.
LEMMA LowerStep ==
  ASSUME IInv, Lower
  PROVE  vol' \in [Apps -> Volume] /\ DepthInv' /\ DebtOnFile'
<1> USE DEF IInv, Ledger
<1>1. op.at = "setv" /\ op.list \subseteq entries /\ entries \subseteq Entry
  BY DEF Lower, OpInv, TypeOK, MixerTypeOK
<1>2. op.list \subseteq file
  <2>1. op # NoOp
    BY <1>1 DEF NoOp
  <2>2. up
    BY <2>1 DEF DownInv
  <2>3. ~BootAhead /\ ~Restoring
    BY <2>1, <1>1 DEF BootInv, BootAhead, Restoring, TypeOK, MixerTypeOK
  <2> QED
    BY <1>1, <2>2, <2>3 DEF OwedInv, Owed
<1>3. UNCHANGED <<file, astray, open>>
  BY DEF Lower
<1>4. CASE UNCHANGED vol
  BY <1>3, <1>4 DEF DepthInv, DebtOnFile, DebtOf, TypeOK, MixerTypeOK
<1>5. CASE vol' = [a \in Apps |-> IF \E e \in op.list : e.pid = open[a]
                                  THEN Lowered((CHOOSE e \in op.list : e.pid = open[a]).vol)
                                  ELSE vol[a]]
  <2>1. ASSUME NEW a \in Apps, \E e \in op.list : e.pid = open[a]
        PROVE  \E e \in op.list : /\ e.pid = open[a] /\ e.name = a /\ e.vol \in Volume
                                  /\ vol'[a] = Lowered(e.vol)
    <3> DEFINE e == CHOOSE e \in op.list : e.pid = open[a]
    <3>1. e \in op.list /\ e.pid = open[a]
      BY <2>1
    <3>2. e.name = a
      BY <3>1, <1>2 DEF PidInv
    <3>3. e.vol \in Volume
      BY <3>1, <1>1 DEF Entry
    <3>4. vol'[a] = Lowered(e.vol)
      BY <2>1, <1>5
    <3> HIDE DEF e
    <3> QED
      BY <3>1, <3>2, <3>3, <3>4
  <2>2. ASSUME NEW a \in Apps, ~ \E e \in op.list : e.pid = open[a]
        PROVE  vol'[a] = vol[a]
    BY <2>2, <1>5
  <2>3. ASSUME NEW a \in Apps PROVE vol'[a] \in Volume
    BY <2>1, <2>2, LoweredIs DEF TypeOK, MixerTypeOK
  <2>4. vol' \in [Apps -> Volume]
    BY <2>3, <1>5
  <2>5. ASSUME NEW a \in Apps \ astray
        PROVE  vol'[a].depth \in {0, 2}
               /\ (vol'[a].depth > 0 => \E f \in file : f.name = a /\ f.vol = [set |-> vol'[a].set, depth |-> 0])
    <3>1. CASE \E e \in op.list : e.pid = open[a]
      <4>1. PICK e \in op.list : e.pid = open[a] /\ e.name = a /\ e.vol \in Volume /\ vol'[a] = Lowered(e.vol)
        BY <3>1, <2>1
      <4>2. e \in file /\ e.vol.depth = 0
        BY <4>1, <1>2 DEF CleanInv
      <4>3. vol'[a] = [set |-> e.vol.set, depth |-> 2]
        BY <4>1, <4>2, LoweredIs
      <4>4. e.vol = [set |-> e.vol.set, depth |-> 0]
        BY <4>1, <4>2 DEF Volume
      <4>5. vol'[a].depth = 2 /\ vol'[a].set = e.vol.set
        BY <4>3
      <4> QED
        BY <4>1, <4>2, <4>4, <4>5
    <3>2. CASE ~ \E e \in op.list : e.pid = open[a]
      BY <3>2, <2>2 DEF DepthInv, DebtOnFile, DebtOf
    <3> QED
      BY <3>1, <3>2
  <2>6. DepthInv'
    BY <2>5, <1>3 DEF DepthInv
  <2>7. DebtOnFile'
    BY <2>5, <1>3 DEF DebtOnFile, DebtOf
  <2> QED
    BY <2>4, <2>6, <2>7
<1> QED
  BY <1>4, <1>5 DEF Lower

\* The volume an application is given back is one, and that of its user.
LEMMA RepaidIs ==
  ASSUME IInv, op.at = "ask", NEW a \in Apps
  PROVE  /\ Repaid(a) \in Volume
         /\ a \notin astray /\ open[a] # 0 /\ a \in Names(op.list) => Repaid(a).depth = 0
         /\ ~(open[a] # 0 /\ a \in Names(op.list)) => Repaid(a) = vol[a]
<1> USE DEF IInv, Ledger
<1>1. op.list = file /\ file \in SUBSET Entry /\ vol[a] \in Volume
  BY DEF OpInv, Restoring, TypeOK, MixerTypeOK
<1>2. CASE open[a] # 0 /\ a \in Names(op.list)
  <2>1. First(op.list, a) \in file /\ First(op.list, a).name = a
    BY <1>1, <1>2, FirstIs
  <2>2. First(op.list, a).vol \in Volume
    BY <2>1, <1>1 DEF Entry
  <2>3. a \notin astray => First(op.list, a).vol.depth = 0
    BY <2>1 DEF CleanInv
  <2> QED
    BY <2>2, <2>3, <1>2 DEF Repaid
<1>3. CASE ~(open[a] # 0 /\ a \in Names(op.list))
  BY <1>1, <1>3 DEF Repaid
<1> QED
  BY <1>2, <1>3

\* Whatever the helper has done, what is still low is still owed; an answer names the
\* entries of the applications that were closed.
LEMMA RestoresStep ==
  ASSUME IInv, HelperRestores
  PROVE  /\ vol' \in [Apps -> Volume] /\ astray' \in SUBSET Apps /\ op' \in Op
         /\ DepthInv' /\ CleanInv' /\ DebtOnFile' /\ OpInv'
         /\ op' # NoOp /\ op'.at \in {"paid", "unpaid"}
<1> USE DEF IInv, Ledger
<1>1. op.at = "ask" /\ op \in Op
  BY DEF HelperRestores, TypeOK, MixerTypeOK
<1>2. ~active /\ op.list = file /\ op.missing \subseteq op.list /\ entries = {} /\ file \in SUBSET Entry
  BY <1>1 DEF OpInv, Restoring, TypeOK, MixerTypeOK
<1>3. UNCHANGED <<open, launches, sets, file, up, queue, active, entries, pending>>
  BY DEF HelperRestores, memory
<1>4. DepthInv /\ CleanInv /\ DebtOnFile /\ astray \in SUBSET Apps /\ vol \in [Apps -> Volume]
  BY DEF TypeOK, MixerTypeOK
<1>5. ASSUME Unanswered
      PROVE  op' \in Op /\ op' # NoOp /\ op'.at = "unpaid" /\ op'.list = op.list /\ op'.missing = op.missing
  BY <1>1, <1>5 DEF Unanswered, Op, NoOp
<1>6. ASSUME Unanswered PROVE OpInv'
  BY <1>2, <1>3, <1>5, <1>6 DEF OpInv, Restoring
<1>7. ASSUME NEW a \in Apps \ astray, vol'[a] = Repaid(a)
      PROVE  /\ vol'[a].depth \in {0, 2}
             /\ vol'[a].depth > 0 =>
                  /\ ~(open[a] # 0 /\ a \in Names(op.list))
                  /\ \E f \in file : f.name = a /\ f.vol = [set |-> vol'[a].set, depth |-> 0]
  <2>1. CASE open[a] # 0 /\ a \in Names(op.list)
    BY <2>1, <1>1, <1>7, RepaidIs
  <2>2. CASE ~(open[a] # 0 /\ a \in Names(op.list))
    <3>1. vol'[a] = vol[a]
      BY <2>2, <1>1, <1>7, RepaidIs
    <3> QED
      BY <3>1, <2>2, <1>4 DEF DepthInv, DebtOnFile, DebtOf
  <2> QED
    BY <2>1, <2>2
<1>8. CASE /\ vol' = [a \in Apps |-> Repaid(a)]
           /\ UNCHANGED astray
           /\ \/ op' = [op EXCEPT !.at = "paid", !.missing = {e \in op.list : open[e.name] = 0}]
              \/ Unanswered
  <2>1. vol' \in [Apps -> Volume] /\ \A a \in Apps : vol'[a] = Repaid(a)
    BY <1>1, <1>8, RepaidIs
  <2>2. DepthInv' /\ DebtOnFile' /\ CleanInv'
    BY <2>1, <1>3, <1>4, <1>7, <1>8 DEF DepthInv, DebtOnFile, DebtOf, CleanInv
  <2>3. CASE Unanswered
    BY <2>1, <2>2, <2>3, <1>4, <1>5, <1>6, <1>8
  <2>4. CASE op' = [op EXCEPT !.at = "paid", !.missing = {e \in op.list : open[e.name] = 0}]
    <3> DEFINE gone == {e \in op.list : open[e.name] = 0}
    <3>1. op' \in Op /\ op' # NoOp /\ op'.at = "paid" /\ op'.list = op.list /\ op'.missing = gone
      <4>1. gone \in SUBSET Entry
        BY <1>2
      <4> HIDE DEF gone
      <4>2. op' = [op EXCEPT !.at = "paid", !.missing = gone]
        BY <2>4 DEF gone
      <4> QED
        BY <4>1, <4>2, <1>1 DEF Op, NoOp
    <3>2. ASSUME NEW a \in Apps \ astray, vol'[a].depth > 0
          PROVE  \E f \in gone : f.name = a /\ f.vol = [set |-> vol'[a].set, depth |-> 0]
      <4>1. PICK f \in file : f.name = a /\ f.vol = [set |-> vol'[a].set, depth |-> 0]
        BY <3>2, <2>1, <1>7
      <4>2. ~(open[a] # 0 /\ a \in Names(op.list))
        BY <3>2, <2>1, <1>7
      <4>3. f \in gone
        BY <4>1, <4>2, <1>2 DEF Names
      <4> QED
        BY <4>1, <4>3
    <3> HIDE DEF gone
    <3>3. gone \subseteq op.list
      BY DEF gone
    <3>4. OpInv'
      BY <3>1, <3>2, <3>3, <1>2, <1>3, <1>8 DEF OpInv, Restoring, DebtOf
    <3> QED
      BY <2>1, <2>2, <3>1, <3>4, <1>4, <1>8
  <2> QED
    BY <1>8, <2>3, <2>4
<1>9. CASE /\ Unanswered
           /\ vol' = [a \in Apps |-> Halfway(a)]
           /\ astray' = astray \union {a \in Apps : vol'[a].depth % 2 = 1}
  <2>1. ASSUME NEW a \in Apps
        PROVE  /\ vol'[a] \in Volume
               /\ \/ vol'[a] = Repaid(a)
                  \/ vol'[a].depth = Repaid(a).depth + 1
    <3>1. vol'[a] = Halfway(a) /\ vol[a] \in Volume /\ Repaid(a) \in Volume
      BY <1>1, <1>4, <1>9, RepaidIs
    <3>2. CASE vol[a].set = Repaid(a).set /\ vol[a].depth > Repaid(a).depth
      <4>1. vol'[a] = [vol[a] EXCEPT !.depth = Repaid(a).depth + 1]
        BY <3>1, <3>2 DEF Halfway
      <4> QED
        BY <4>1, <3>1 DEF Volume
    <3>3. CASE ~(vol[a].set = Repaid(a).set /\ vol[a].depth > Repaid(a).depth)
      BY <3>1, <3>3 DEF Halfway
    <3> QED
      BY <3>2, <3>3
  <2>2. vol' \in [Apps -> Volume] /\ astray' \in SUBSET Apps /\ astray \subseteq astray'
    BY <2>1, <1>4, <1>9
  <2>3. ASSUME NEW a \in Apps \ astray' PROVE vol'[a] = Repaid(a)
    <3>1. a \notin astray /\ vol'[a].depth % 2 # 1
      BY <2>3, <1>9
    <3>2. Repaid(a).depth \in {0, 2}
      BY <3>1, <1>1, <1>4, RepaidIs DEF DepthInv
    <3> QED
      BY <3>1, <3>2, <2>1
  <2>4. DepthInv' /\ DebtOnFile'
    BY <2>2, <2>3, <1>3, <1>7 DEF DepthInv, DebtOnFile, DebtOf
  <2>5. CleanInv'
    BY <2>2, <1>3, <1>4 DEF CleanInv
  <2> QED
    BY <2>2, <2>4, <2>5, <1>5, <1>6, <1>9
<1>10. CASE Unanswered /\ UNCHANGED <<vol, astray>>
  BY <1>3, <1>4, <1>5, <1>6, <1>10 DEF DepthInv, CleanInv, DebtOnFile, DebtOf
<1> QED
  BY <1>8, <1>9, <1>10 DEF HelperRestores

\* Settling leaves in the file what was not paid.
LEMMA SettledStep ==
  ASSUME IInv, Settled
  PROVE  /\ pending' \in SUBSET Entry /\ file' \in SUBSET Entry /\ file' \subseteq file
         /\ op' = NoOp /\ Owed' = file' /\ ~active' /\ entries' = {}
         /\ DepthInv' /\ CleanInv' /\ DebtOnFile' /\ PidInv'
<1> USE DEF IInv, Ledger
<1>1. op.at \in {"paid", "unpaid"} /\ op' = NoOp
      /\ UNCHANGED <<open, vol, launches, sets, active, entries, astray>>
  BY DEF Settled, Waiting, windows
<1> DEFINE left == IF op.at = "paid" THEN op.missing ELSE op.list
<1>2. pending' = left /\ file' = left
  BY DEF Settled
<1>3. ~active /\ op.list = file /\ op.missing \subseteq op.list /\ entries = {} /\ file \in SUBSET Entry
  BY <1>1 DEF OpInv, Restoring, TypeOK, MixerTypeOK
<1>4. left \subseteq file
  BY <1>3
<1>5. Owed' = file'
  BY <1>1, <1>2, <1>3 DEF Owed
<1>6. DepthInv' /\ CleanInv' /\ PidInv'
  BY <1>1, <1>2, <1>4 DEF DepthInv, CleanInv, PidInv
<1>7. DebtOnFile'
  <2>1. CASE op.at = "paid"
    BY <2>1, <1>1, <1>2 DEF OpInv, DebtOnFile, DebtOf
  <2>2. CASE op.at = "unpaid"
    BY <2>2, <1>1, <1>2, <1>3 DEF DebtOnFile, DebtOf
  <2> QED
    BY <1>1, <2>1, <2>2
<1> QED
  BY <1>1, <1>2, <1>3, <1>4, <1>5, <1>6, <1>7
-----------------------------------------------------------------------------
(* The chain.                                                              *)

\* Nothing is appended in front of what waits.
LEMMA CallStep ==
  ASSUME IInv, up, NEW calls \in Seq({"duck", "restore", "rescan", "stop"}),
         queue' = queue \o calls,
         UNCHANGED <<windows, file, up, op, active, entries, pending, astray>>
  PROVE  /\ queue' \in Seq(Kinds) /\ DownInv' /\ BootInv' /\ Ledger'
         /\ Len(queue') = Len(queue) + Len(calls)
         /\ \A k \in 1..Len(queue) : queue'[k] = queue[k]
         /\ \A k \in 1..Len(calls) : queue'[Len(queue) + k] = calls[k]
<1> USE DEF IInv
<1>1. queue \in Seq(Kinds) /\ calls \in Seq(Kinds) /\ Len(queue) \in Nat /\ Len(calls) \in Nat
  <2>1. queue \in Seq(Kinds)
    BY DEF TypeOK, MixerTypeOK, Kinds
  <2>2. calls \in Seq(Kinds)
    BY DEF Kinds
  <2> QED
    BY <2>1, <2>2
<1>2. /\ queue' \in Seq(Kinds) /\ Len(queue') = Len(queue) + Len(calls)
      /\ \A k \in 1..Len(queue) : queue'[k] = queue[k]
      /\ \A k \in 1..Len(calls) : queue'[Len(queue) + k] = calls[k]
  BY <1>1
<1>3. ASSUME NEW k \in 1..Len(queue'), queue'[k] = "boot" PROVE k \in 1..Len(queue) /\ queue[k] = "boot"
  <2>1. CASE k \in 1..Len(queue)
    BY <2>1, <1>2, <1>3
  <2>2. CASE k \notin 1..Len(queue)
    <3>1. k - Len(queue) \in 1..Len(calls) /\ k = Len(queue) + (k - Len(queue))
      BY <2>2, <1>1, <1>2
    <3>2. calls[k - Len(queue)] = "boot"
      BY <3>1, <1>2, <1>3
    <3>3. \A i \in 1..Len(calls) : calls[i] \in {"duck", "restore", "rescan", "stop"}
      OBVIOUS
    <3> QED
      BY <3>1, <3>2, <3>3
  <2> QED
    BY <2>1, <2>2
<1>4. BootInv'
  BY <1>3 DEF BootInv
<1>5. BootAhead' => BootAhead
  <2>1. ASSUME BootAhead' PROVE 1 \in 1..Len(queue') /\ queue'[1] = "boot"
    BY <2>1, <1>1, <1>2 DEF BootAhead
  <2>2. BootAhead' => 1 \in 1..Len(queue) /\ queue[1] = "boot"
    BY <2>1, <1>3
  <2> QED
    BY <2>2, <1>1 DEF BootAhead
<1>6. BootAhead => BootAhead'
  BY <1>1, <1>2 DEF BootAhead
<1>7. Ledger'
  BY <1>5, <1>6 DEF Ledger, PidInv, DepthInv, CleanInv, OwedInv, OpInv, DebtOnFile, DebtOf, Owed, Restoring, windows
<1>8. DownInv'
  BY DEF DownInv
<1> QED
  BY <1>2, <1>4, <1>7, <1>8

\* The calls that end a duck answer for every duck before them.
LEMMA EndingCall ==
  ASSUME IInv, up, NEW calls \in Seq({"duck", "restore", "rescan", "stop"}), queue' = queue \o calls,
         calls \in {<<"restore">>, <<"restore", "stop">>, <<"stop">>},
         UNCHANGED <<windows, file, up, op, active, entries, pending, astray>>
  PROVE  IntentInv'
<1> DEFINE n == Len(queue) + Len(calls)
<1>0. Len(queue) \in Nat
  BY DEF IInv, TypeOK, MixerTypeOK
<1>1. /\ Len(queue') = n
      /\ \A k \in 1..Len(calls) : queue'[Len(queue) + k] = calls[k]
  BY CallStep
<1>2. Len(calls) \in {1, 2} /\ calls[Len(calls)] \in {"restore", "stop"}
  <2>1. CASE calls = <<"restore">>
    BY <2>1
  <2>2. CASE calls = <<"restore", "stop">>
    BY <2>2
  <2>3. CASE calls = <<"stop">>
    BY <2>3
  <2> QED
    BY <2>1, <2>2, <2>3
<1>3. n \in 1..Len(queue') /\ queue'[n] \in {"restore", "stop"} /\ n \in Nat
  <2>1. Len(calls) \in 1..Len(calls) /\ n \in 1..n /\ n \in Nat
    BY <1>0, <1>2
  <2> HIDE DEF n
  <2>2. queue'[Len(queue) + Len(calls)] = calls[Len(calls)]
    BY <2>1, <1>1
  <2> QED
    BY <2>1, <2>2, <1>1, <1>2 DEF n
<1>4. ASSUME NEW k \in 1..Len(queue'), queue'[k] = "duck" PROVE n > k
  <2> HIDE DEF n
  <2>1. k \in 1..n /\ k # n
    BY <1>1, <1>3, <1>4
  <2> QED
    BY <2>1, <1>3
<1> QED
  BY <1>3, <1>4 DEF IntentInv, Ender

\* The operation at the head leaves the chain; the boot was the only one of its kind.
LEMMA PopStep ==
  ASSUME IInv, NEW kind \in Kinds, Next1(kind)
  PROVE  /\ up /\ op = NoOp /\ op.at = "none" /\ Len(queue) > 0 /\ queue[1] = kind
         /\ queue' \in Seq(Kinds) /\ Len(queue') = Len(queue) - 1 /\ Len(queue) \in Nat
         /\ \A k \in 1..Len(queue') : k + 1 \in 1..Len(queue) /\ queue'[k] = queue[k + 1]
         /\ \A k \in 1..Len(queue') : queue'[k] # "boot"
         /\ BootInv' /\ ~BootAhead'
         /\ kind # "boot" => file = Owed
         /\ kind = "boot" => ~active /\ pending = {} /\ entries = {}
<1> USE DEF IInv, Ledger
<1>1. queue \in Seq(Kinds) /\ queue # <<>> /\ Head(queue) = kind /\ queue' = Tail(queue) /\ op = NoOp
  BY DEF Next1, TypeOK, MixerTypeOK, Kinds
<1>2. op.at = "none"
  BY <1>1 DEF NoOp
<1>3. up
  BY <1>1 DEF DownInv
<1>4. /\ Len(queue) > 0 /\ queue[1] = kind /\ Len(queue) \in Nat
      /\ queue' \in Seq(Kinds) /\ Len(queue') = Len(queue) - 1
      /\ \A k \in 1..Len(queue') : k + 1 \in 1..Len(queue) /\ queue'[k] = queue[k + 1]
  BY <1>1
<1>5. \A k \in 1..Len(queue') : queue'[k] # "boot"
  <2> SUFFICES ASSUME NEW k \in 1..Len(queue'), queue'[k] = "boot" PROVE FALSE
    OBVIOUS
  <2>1. k + 1 = 1
    BY <1>4 DEF BootInv
  <2>2. k \in Nat \ {0}
    BY <1>4
  <2> QED
    BY <2>1, <2>2
<1>6. BootInv'
  BY <1>5 DEF BootInv
<1>7. ~BootAhead'
  BY <1>4, <1>5 DEF BootAhead
<1>8. kind # "boot" => file = Owed
  BY <1>2, <1>3, <1>4 DEF OwedInv, BootAhead, Restoring
<1>9. kind = "boot" => ~active /\ pending = {} /\ entries = {}
  BY <1>4 DEF BootInv, OpInv
<1> QED
  BY <1>1, <1>2, <1>3, <1>4, <1>5, <1>6, <1>7, <1>8, <1>9

\* What ends a duck stays behind it in the chain.
LEMMA PopIntent ==
  ASSUME IInv, NEW kind \in Kinds, Next1(kind)
  PROVE  /\ \A k \in 1..Len(queue') : queue'[k] = "duck" =>
              ducked \/ \E j \in 1..Len(queue') : j > k /\ queue'[j] \in {"restore", "stop"}
         /\ active /\ kind \notin {"restore", "stop"} =>
              ducked \/ \E j \in 1..Len(queue') : queue'[j] \in {"restore", "stop"}
         /\ kind = "duck" =>
              ducked \/ \E j \in 1..Len(queue') : queue'[j] \in {"restore", "stop"}
<1>1. /\ up /\ Len(queue) > 0 /\ queue[1] = kind /\ Len(queue) \in Nat /\ Len(queue') = Len(queue) - 1
      /\ \A k \in 1..Len(queue') : k + 1 \in 1..Len(queue) /\ queue'[k] = queue[k + 1]
  BY PopStep
<1>2. ASSUME NEW j \in 1..Len(queue), j # 1, Ender(j)
      PROVE  j - 1 \in 1..Len(queue') /\ queue'[j - 1] \in {"restore", "stop"}
  <2>1. j - 1 \in 1..Len(queue') /\ (j - 1) + 1 = j
    BY <1>1, <1>2
  <2> QED
    BY <2>1, <1>1, <1>2 DEF Ender
<1>3. ASSUME NEW k \in 1..Len(queue'), queue'[k] = "duck", ~ducked
      PROVE  \E j \in 1..Len(queue') : j > k /\ queue'[j] \in {"restore", "stop"}
  <2>1. k + 1 \in 1..Len(queue) /\ queue[k + 1] = "duck"
    BY <1>1, <1>3
  <2>2. PICK j \in 1..Len(queue) : j > k + 1 /\ Ender(j)
    BY <2>1, <1>1, <1>3 DEF IInv, IntentInv
  <2>3. j # 1 /\ j - 1 > k
    BY <2>2, <1>1
  <2> QED
    BY <2>2, <2>3, <1>2
<1>4. ASSUME active, kind \notin {"restore", "stop"}, ~ducked
      PROVE  \E j \in 1..Len(queue') : queue'[j] \in {"restore", "stop"}
  <2>1. PICK j \in 1..Len(queue) : Ender(j)
    BY <1>1, <1>4 DEF IInv, IntentInv
  <2>2. j # 1
    BY <2>1, <1>1, <1>4 DEF Ender
  <2> QED
    BY <2>1, <2>2, <1>2
<1>5. ASSUME kind = "duck", ~ducked
      PROVE  \E j \in 1..Len(queue') : queue'[j] \in {"restore", "stop"}
  <2>1. 1 \in 1..Len(queue) /\ queue[1] = "duck"
    BY <1>1, <1>5
  <2>2. PICK j \in 1..Len(queue) : j > 1 /\ Ender(j)
    BY <2>1, <1>1, <1>5 DEF IInv, IntentInv
  <2> QED
    BY <2>2, <1>2
<1> QED
  BY <1>3, <1>4, <1>5
-----------------------------------------------------------------------------
(* The inductive step.                                                     *)

LEMMA InitInv == Init => IInv
<1> SUFFICES ASSUME Init PROVE IInv
  OBVIOUS
<1> USE DEF Init, MixerInit, PolicyInit
<1>1. TypeOK
  <2>1. [set |-> 0, depth |-> 0] \in Volume
    BY DEF Volume
  <2>2. open \in [Apps -> Nat] /\ vol \in [Apps -> Volume]
    BY <2>1
  <2>3. NoOp \in Op
    BY DEF NoOp, Op
  <2>4. queue \in Seq(Kinds)
    OBVIOUS
  <2>5. mode \in Modes
    BY ModesAssumption DEF ModesAssumption
  <2> QED
    BY <2>2, <2>3, <2>4, <2>5 DEF TypeOK, MixerTypeOK, Kinds
<1>2. DownInv /\ BootInv /\ IntentInv
  BY DEF DownInv, BootInv, IntentInv
<1>3. Ledger
  BY DEF Ledger, PidInv, DepthInv, CleanInv, OwedInv, OpInv, DebtOnFile, NoOp, Restoring
<1> QED
  BY <1>1, <1>2, <1>3 DEF IInv

PolicyType == mode \in Modes /\ {ducked, wakeTimer, releaseTimer, idleTimer, deaf} \subseteq BOOLEAN

LEMMA PolicyTypeStep == ASSUME TypeOK, [Next]_vars PROVE PolicyType'
<1> USE DEF TypeOK, PolicyType, timers, policy
<1>1. ASSUME NEW m \in Modes, VoiceState(m) PROVE PolicyType'
  <2>1. ducked' \in BOOLEAN
    BY <1>1 DEF VoiceState, Opens, Closes, DuckOn, RestoreOff
  <2> QED
    BY <2>1, <1>1 DEF VoiceState, Opens, Closes
<1>2. CASE WakeOrVoice
  BY <1>2 DEF WakeOrVoice, DuckOn, TouchIdle
<1>3. CASE TtsDone \/ VadStart \/ EarsDie
  BY <1>3 DEF TtsDone, VadStart, EarsDie, TouchIdle
<1>4. CASE Timers
  <2>1. ducked' \in BOOLEAN
    BY <1>4 DEF Timers, WakeDeadline, Release, IdleDeadline, RestoreOff
  <2> QED
    BY <2>1, <1>4 DEF Timers, WakeDeadline, Release, IdleDeadline
<1>5. CASE Stop \/ Ends \/ Begins
  BY <1>5, ModesAssumption DEF ModesAssumption, Stop, Ends, Begins
<1>6. CASE UNCHANGED policy
  BY <1>6
<1> QED
  BY <1>1, <1>2, <1>3, <1>4, <1>5, <1>6 DEF Next, vars

\* What an event or a timer makes of the mixer: nothing, or one call that says the intent.
PolicyMove ==
  \/ UNCHANGED mixer /\ ducked' = ducked
  \/ up /\ MixerDuck /\ UNCHANGED stopped /\ ducked' = TRUE
  \/ up /\ MixerRestore /\ UNCHANGED stopped /\ ducked' = FALSE

LEMMA PolicyMoves ==
  ASSUME TypeOK,
         \/ \E m \in Modes : VoiceState(m)
         \/ WakeOrVoice \/ TtsDone \/ VadStart \/ Timers \/ EarsDie
  PROVE  PolicyMove
<1>1. ducked \in BOOLEAN
  BY DEF TypeOK
<1>2. ASSUME up, DuckOn PROVE PolicyMove
  BY <1>1, <1>2 DEF PolicyMove, DuckOn
<1>3. ASSUME up, RestoreOff PROVE PolicyMove
  BY <1>1, <1>3 DEF PolicyMove, RestoreOff
<1>4. ASSUME UNCHANGED <<mixer, ducked>> PROVE PolicyMove
  BY <1>4 DEF PolicyMove
<1>5. ASSUME NEW m \in Modes, VoiceState(m) PROVE PolicyMove
  BY <1>5, <1>2, <1>3 DEF VoiceState, Opens, Closes, Hears
<1>6. CASE WakeOrVoice
  BY <1>6, <1>2 DEF WakeOrVoice, Hears
<1>7. CASE TtsDone \/ VadStart \/ EarsDie
  BY <1>7, <1>4 DEF TtsDone, VadStart, EarsDie
<1>8. CASE Timers
  BY <1>8, <1>3, <1>4 DEF Timers, WakeDeadline, Release, IdleDeadline
<1> QED
  BY <1>5, <1>6, <1>7, <1>8

\* The last intent is the one the chain ends on.
LEMMA PolicyStep ==
  ASSUME IInv, PolicyMove
  PROVE  MixerTypeOK' /\ DownInv' /\ BootInv' /\ Ledger' /\ IntentInv'
<1>1. CASE UNCHANGED mixer /\ ducked' = ducked
  BY <1>1 DEF IInv, TypeOK, MixerTypeOK, DownInv, BootInv, Ledger, IntentInv, Ender, PidInv, DepthInv,
     CleanInv, OwedInv, OpInv, DebtOnFile, DebtOf, Owed, Restoring, BootAhead, mixer, windows, memory
<1>2. ASSUME up, NEW calls \in Seq({"duck", "restore", "rescan", "stop"}), NEW timer \in BOOLEAN,
             Call(calls, timer), UNCHANGED stopped
      PROVE  MixerTypeOK' /\ DownInv' /\ BootInv' /\ Ledger'
  <2>1. queue' \in Seq(Kinds) /\ DownInv' /\ BootInv' /\ Ledger'
    BY <1>2, CallStep DEF Call
  <2>2. rescan' \in BOOLEAN
    BY <1>2 DEF Call
  <2> QED
    BY <2>1, <2>2, <1>2 DEF Call, IInv, TypeOK, MixerTypeOK, Kinds, windows
<1>3. CASE up /\ MixerDuck /\ UNCHANGED stopped /\ ducked' = TRUE
  <2>1. rescan \in BOOLEAN /\ <<"duck">> \in Seq({"duck", "restore", "rescan", "stop"})
    BY DEF IInv, TypeOK, MixerTypeOK
  <2> QED
    BY <2>1, <1>2, <1>3 DEF MixerDuck, IntentInv
<1>4. CASE up /\ MixerRestore /\ UNCHANGED stopped /\ ducked' = FALSE
  <2>1. <<"restore">> \in Seq({"duck", "restore", "rescan", "stop"})
    OBVIOUS
  <2>2. IntentInv'
    BY <2>1, <1>4, EndingCall DEF MixerRestore, Call
  <2> QED
    BY <2>1, <2>2, <1>2, <1>4 DEF MixerRestore
<1> QED
  BY <1>1, <1>3, <1>4 DEF PolicyMove

\* The user and his applications: a launch takes a pid that was never written down, a
\* setting is nobody's debt.
LEMMA WindowsStep ==
  ASSUME IInv, NEW a \in Apps, Open(a) \/ Close(a) \/ UserSets(a), UNCHANGED policy
  PROVE  MixerTypeOK' /\ DownInv' /\ BootInv' /\ Ledger' /\ IntentInv'
<1> USE DEF IInv, Ledger
<1>1. UNCHANGED <<file, up, queue, op, active, entries, pending, rescan, queued, stopped, astray, ducked>>
  BY DEF Open, Close, UserSets, memory, policy
<1>2. DownInv' /\ BootInv' /\ IntentInv' /\ CleanInv' /\ OwedInv'
  BY <1>1 DEF DownInv, BootInv, IntentInv, Ender, CleanInv, OwedInv, BootAhead, Restoring, Owed
<1>3. CASE Open(a) \/ Close(a)
  <2>1. UNCHANGED <<vol, sets>>
    BY <1>3 DEF Open, Close
  <2>2. DepthInv' /\ OpInv' /\ DebtOnFile'
    BY <1>1, <2>1 DEF DepthInv, OpInv, Restoring, DebtOnFile, DebtOf
  <2>3. open \in [Apps -> Nat] /\ launches \in Nat /\ file \in SUBSET Entry
    BY DEF TypeOK, MixerTypeOK
  <2>4. open' \in [Apps -> Nat] /\ launches' \in Nat
    BY <1>3, <2>3 DEF Open, Close
  <2>5. \A e \in file : e.pid \in Nat \ {0}
    BY <2>3 DEF Entry
  <2>6. PidInv'
    <3>1. CASE Open(a)
      <4>1. launches' = launches + 1 /\ \A b \in Apps : open'[b] = IF b = a THEN launches + 1 ELSE open[b]
        BY <3>1, <2>3 DEF Open
      <4> QED
        BY <4>1, <2>3, <2>5, <1>1 DEF PidInv
    <3>2. CASE Close(a)
      <4>1. launches' = launches /\ \A b \in Apps : open'[b] = IF b = a THEN 0 ELSE open[b]
        BY <3>2, <2>3 DEF Close
      <4> QED
        BY <4>1, <2>3, <2>5, <1>1 DEF PidInv
    <3> QED
      BY <1>3, <3>1, <3>2
  <2> QED
    BY <1>1, <1>2, <2>1, <2>2, <2>4, <2>6 DEF TypeOK, MixerTypeOK
<1>4. CASE UserSets(a)
  <2> DEFINE new == [set |-> sets + 1, depth |-> 0]
  <2>1. new \in Volume /\ new.depth = 0 /\ sets' \in Nat
    BY <1>4 DEF Volume, TypeOK, MixerTypeOK, UserSets
  <2> HIDE DEF new
  <2>2. vol' \in [Apps -> Volume] /\ \A b \in Apps : vol'[b] = IF b = a THEN new ELSE vol[b]
    BY <1>4, <2>1 DEF TypeOK, MixerTypeOK, UserSets, new
  <2>3. UNCHANGED <<open, launches>>
    BY <1>4 DEF UserSets
  <2>4. DepthInv' /\ PidInv'
    BY <1>1, <2>1, <2>2, <2>3 DEF DepthInv, PidInv
  <2>5. ASSUME NEW b \in Apps \ astray, NEW E, vol[b].depth > 0 => DebtOf(b, E)
        PROVE  vol'[b].depth > 0 => \E e \in E : e.name = b /\ e.vol = [set |-> vol'[b].set, depth |-> 0]
    BY <2>1, <2>2, <2>5 DEF DebtOf
  <2>6. DebtOnFile'
    BY <1>1, <2>5 DEF DebtOnFile, DebtOf
  <2>7. OpInv'
    BY <1>1, <2>5 DEF OpInv, Restoring, DebtOf
  <2> QED
    BY <1>1, <1>2, <2>1, <2>2, <2>3, <2>4, <2>6, <2>7 DEF TypeOK, MixerTypeOK
<1> QED
  BY <1>3, <1>4

LEMMA SnapDuckStep ==
  ASSUME IInv, SnapDuck, UNCHANGED policy
  PROVE  MixerTypeOK' /\ DownInv' /\ BootInv' /\ Ledger' /\ IntentInv'
<1> USE DEF IInv, Ledger
<1>1. Next1("duck") /\ "duck" \in Kinds
  BY DEF SnapDuck, Kinds
<1>2. /\ up /\ op = NoOp /\ queue' \in Seq(Kinds) /\ BootInv' /\ ~BootAhead' /\ file = Owed
      /\ op.at = "none"
  BY <1>1, PopStep
<1>3. UNCHANGED <<open, vol, launches, sets, up, stopped, rescan, queued, ducked>> /\ UNCHANGED windows
  BY DEF SnapDuck, Waiting, windows, policy
<1>4. DownInv' /\ IntentInv'
  BY <1>1, <1>2, <1>3, PopIntent DEF DownInv, IntentInv, Ender
<1>5. CASE UNCHANGED <<file, op, active, entries, pending>>
  BY <1>2, <1>3, <1>4, <1>5 DEF SnapDuck, TypeOK, MixerTypeOK, Kinds, PidInv, DepthInv, CleanInv, OwedInv,
     OpInv, Restoring, Owed, DebtOnFile, DebtOf
<1>6. CASE /\ ~stopped /\ ~active
           /\ LET snap == {Adopted(e) : e \in Snap} IN
                /\ AdoptPending(snap)
                /\ active' = TRUE /\ entries' = snap
                /\ file' = snap \union pending'
                /\ op' = [kind |-> "duck", at |-> "setv", list |-> snap, missing |-> {}]
  <2> DEFINE snap == {Adopted(e) : e \in Snap}
  <2>1. Names(snap) = Names(Snap)
    BY SnapIs, AdoptedIs DEF Names
  <2>2. AdoptPending(Snap)
    BY <1>6, <2>1 DEF AdoptPending
  <2>3. entries = {} /\ Names(entries) = {}
    BY <1>6 DEF OpInv, Names
  <2>4. /\ entries' = entries \union {Adopted(e) : e \in Snap} /\ file' = entries' \union pending'
        /\ astray' = astray \union (Names(Snap) \intersect Names(entries))
    BY <1>6, <2>3 DEF SnapDuck
  <2>5. /\ entries' \in SUBSET Entry /\ pending' \in SUBSET Entry /\ file' \in SUBSET Entry
        /\ astray' \in SUBSET Apps
        /\ PidInv' /\ DepthInv' /\ CleanInv' /\ DebtOnFile' /\ file' = Owed'
    BY <1>2, <1>3, <2>2, <2>4, SnapStep
  <2>6. /\ active' = TRUE /\ op'.at = "setv" /\ op'.list = entries' /\ op' \in Op
    BY <1>6, <2>5 DEF Op
  <2>7. OpInv' /\ OwedInv'
    BY <2>5, <2>6 DEF OpInv, OwedInv, Restoring
  <2> QED
    BY <1>2, <1>3, <1>4, <2>5, <2>6, <2>7 DEF TypeOK, MixerTypeOK, Kinds
<1> QED
  BY <1>5, <1>6 DEF SnapDuck

LEMMA SnapRescanStep ==
  ASSUME IInv, SnapRescan, UNCHANGED policy
  PROVE  MixerTypeOK' /\ DownInv' /\ BootInv' /\ Ledger' /\ IntentInv'
<1> USE DEF IInv, Ledger
<1>1. Next1("rescan") /\ "rescan" \in Kinds
  BY DEF SnapRescan, Kinds
<1>2. /\ up /\ op = NoOp /\ queue' \in Seq(Kinds) /\ BootInv' /\ ~BootAhead' /\ file = Owed
      /\ op.at = "none"
  BY <1>1, PopStep
<1>3. /\ UNCHANGED <<open, vol, launches, sets, up, stopped, active, ducked>> /\ UNCHANGED windows
      /\ queued' = FALSE
  BY DEF SnapRescan, Waiting, windows, policy
<1>4. DownInv' /\ IntentInv'
  BY <1>1, <1>2, <1>3, PopIntent DEF DownInv, IntentInv, Ender
<1>5. rescan' \in BOOLEAN
  BY DEF SnapRescan, TypeOK, MixerTypeOK
<1>6. CASE UNCHANGED <<file, op, entries, pending, astray>>
  <2>1. MixerTypeOK'
    BY <1>2, <1>3, <1>5, <1>6 DEF TypeOK, MixerTypeOK, Kinds
  <2>2. PidInv' /\ DepthInv' /\ CleanInv' /\ DebtOnFile'
    BY <1>3, <1>6 DEF PidInv, DepthInv, CleanInv, DebtOnFile, DebtOf
  <2>3. OwedInv' /\ OpInv'
    BY <1>2, <1>3, <1>6 DEF OwedInv, OpInv, Restoring, Owed, DebtOf
  <2> QED
    BY <1>2, <1>4, <2>1, <2>2, <2>3
<1>7. ASSUME active, NEW fresh \in SUBSET Snap,
             AdoptPending(fresh),
             entries' = entries \union {Adopted(e) : e \in fresh},
             file' = entries' \union pending',
             op' = [kind |-> "rescan", at |-> "setv", list |-> {Adopted(e) : e \in fresh}, missing |-> {}],
             astray' = astray \union (Names({Adopted(e) : e \in fresh}) \intersect Names(entries))
      PROVE  MixerTypeOK' /\ DownInv' /\ BootInv' /\ Ledger' /\ IntentInv'
  <2> DEFINE list == {Adopted(e) : e \in fresh}
  <2>1. Names(list) = Names(fresh)
    BY SnapIs, AdoptedIs DEF Names
  <2>2. astray' = astray \union (Names(fresh) \intersect Names(entries))
    BY <1>7, <2>1
  <2>3. /\ entries' \in SUBSET Entry /\ pending' \in SUBSET Entry /\ file' \in SUBSET Entry
        /\ astray' \in SUBSET Apps
        /\ PidInv' /\ DepthInv' /\ CleanInv' /\ DebtOnFile' /\ file' = Owed'
    BY <1>2, <1>3, <1>7, <2>2, SnapStep
  <2>4. list \subseteq entries' /\ list \in SUBSET Entry
    BY <1>7, <2>3
  <2>5. /\ active' = TRUE /\ op'.at = "setv" /\ op'.list \subseteq entries' /\ op' \in Op
    <3> HIDE DEF list
    <3>1. op' = [kind |-> "rescan", at |-> "setv", list |-> list, missing |-> {}]
      BY <1>7 DEF list
    <3>2. active' = TRUE
      BY <1>3, <1>7 DEF TypeOK, MixerTypeOK
    <3> QED
      BY <3>1, <3>2, <2>4 DEF Op
  <2>6. OpInv' /\ OwedInv'
    BY <2>3, <2>5 DEF OpInv, OwedInv, Restoring
  <2> QED
    BY <1>2, <1>3, <1>4, <1>5, <2>3, <2>5, <2>6 DEF TypeOK, MixerTypeOK, Kinds
<1>8. CASE ~stopped /\ active
  <2> DEFINE fresh == {e \in Snap : \A k \in entries : k.pid # e.pid}
  <2>1. CASE /\ AdoptPending(fresh)
             /\ entries' = entries \union {Adopted(e) : e \in fresh}
             /\ file' = entries' \union pending'
             /\ op' = [kind |-> "rescan", at |-> "setv", list |-> {Adopted(e) : e \in fresh}, missing |-> {}]
             /\ astray' = astray \union (Names({Adopted(e) : e \in fresh}) \intersect Names(entries))
    <3>1. fresh \in SUBSET Snap
      OBVIOUS
    <3> HIDE DEF fresh
    <3> QED
      BY <3>1, <2>1, <1>7, <1>8
  <2> QED
    BY <2>1, <1>6, <1>8 DEF SnapRescan
<1>9. CASE ~(~stopped /\ active)
  BY <1>6, <1>9 DEF SnapRescan
<1> QED
  BY <1>8, <1>9

\* What is settled is the whole of the file.
LEMMA SettleStep ==
  ASSUME IInv, NEW kind \in {"boot", "restore", "stop"}, NEW owed,
         Settle(kind, owed), owed = file, file' = file, active' = FALSE, entries' = {},
         pending' = pending, pending \subseteq file, UNCHANGED policy, rescan' \in BOOLEAN
  PROVE  MixerTypeOK' /\ DownInv' /\ BootInv' /\ Ledger' /\ IntentInv'
<1> USE DEF IInv, Ledger
<1>1. Next1(kind) /\ kind \in Kinds
  BY DEF Settle, Kinds
<1>2. up /\ op = NoOp /\ queue' \in Seq(Kinds) /\ BootInv' /\ ~BootAhead'
  BY <1>1, PopStep
<1>3. UNCHANGED <<open, vol, launches, sets, up, stopped, queued, astray, ducked>>
  BY DEF Settle, Waiting, windows, policy
<1>4. DownInv' /\ IntentInv'
  BY <1>1, <1>2, <1>3, PopIntent DEF DownInv, IntentInv, Ender
<1>5. PidInv' /\ DepthInv' /\ CleanInv' /\ DebtOnFile'
  BY <1>3 DEF PidInv, DepthInv, CleanInv, DebtOnFile, DebtOf
<1>6. op' \in Op /\ OpInv' /\ OwedInv'
  <2>1. CASE file = {}
    <3>1. op' = NoOp /\ Owed' = {}
      BY <2>1 DEF Settle, Owed
    <3> QED
      BY <2>1, <3>1 DEF OpInv, OwedInv, NoOp, Op, Restoring
  <2>2. CASE file # {}
    <3>1. op' = [kind |-> kind, at |-> "ask", list |-> file, missing |-> {}] /\ file \in SUBSET Entry
      BY <2>2 DEF Settle, TypeOK, MixerTypeOK
    <3>2. op' \in Op /\ op'.at = "ask" /\ op'.list = file /\ op'.missing = {}
      BY <3>1 DEF Op
    <3> QED
      BY <3>2 DEF OpInv, OwedInv, Restoring
  <2> QED
    BY <2>1, <2>2
<1> QED
  BY <1>2, <1>3, <1>4, <1>5, <1>6 DEF TypeOK, MixerTypeOK, Kinds

LEMMA ChainStep ==
  ASSUME IInv, Chain, UNCHANGED policy
  PROVE  MixerTypeOK' /\ DownInv' /\ BootInv' /\ Ledger' /\ IntentInv'
<1> USE DEF IInv
<1>1. ASSUME UNCHANGED <<up, queue, active, ducked>>, op.at # "none"
      PROVE  DownInv' /\ BootInv' /\ IntentInv'
  <2>1. op # NoOp
    BY <1>1 DEF NoOp
  <2> QED
    BY <1>1, <2>1 DEF DownInv, BootInv, IntentInv, Ender
<1>2. ducked' = ducked
  BY DEF policy
<1>3. CASE Lower
  <2>1. /\ op.at = "setv" /\ op' = NoOp /\ rescan' = (rescan \/ op.kind = "duck")
        /\ UNCHANGED <<open, launches, sets, file, up, queue, active, entries, pending, queued, stopped, astray>>
    BY <1>3 DEF Lower
  <2>2. vol' \in [Apps -> Volume] /\ DepthInv' /\ DebtOnFile'
    BY <1>3, LowerStep
  <2>3. op # NoOp
    BY <2>1 DEF NoOp
  <2>4. PidInv' /\ CleanInv' /\ OpInv'
    BY <2>1 DEF Ledger, PidInv, CleanInv, OpInv, NoOp, Restoring
  <2>5. OwedInv'
    BY <2>1 DEF Ledger, OwedInv, Owed, BootAhead, Restoring
  <2>6. op' \in Op
    BY <2>1 DEF NoOp, Op
  <2> QED
    BY <1>1, <1>2, <2>1, <2>2, <2>4, <2>5, <2>6 DEF Ledger, TypeOK, MixerTypeOK
<1>4. CASE BeginBoot
  <2>1. Settle("boot", file) /\ UNCHANGED <<file, active, entries, pending, rescan>> /\ Next1("boot")
    BY <1>4 DEF BeginBoot, Settle
  <2>2. ~active /\ pending = {} /\ entries = {}
    BY <2>1, PopStep DEF Kinds
  <2>3. active' = FALSE /\ rescan' \in BOOLEAN
    BY <2>1, <2>2 DEF TypeOK, MixerTypeOK
  <2> QED
    BY <2>1, <2>2, <2>3, SettleStep
<1>5. CASE BeginStop
  <2>1. Settle("stop", Owed) /\ active' = FALSE /\ entries' = {} /\ UNCHANGED <<file, pending, rescan>> /\ Next1("stop")
    BY <1>5 DEF BeginStop, Settle
  <2>2. file = Owed /\ pending \subseteq file /\ rescan \in BOOLEAN
    BY <2>1, PopStep DEF Kinds, Owed, TypeOK, MixerTypeOK
  <2> QED
    BY <2>1, <2>2, SettleStep
<1>6. CASE BeginRestore
  <2>1. /\ Settle("restore", Owed) /\ active' = FALSE /\ entries' = {} /\ rescan' = FALSE /\ pending' = pending
        /\ file' = (IF Owed = {} THEN {} ELSE file) /\ Next1("restore")
    BY <1>6 DEF BeginRestore, Settle
  <2>2. file = Owed
    BY <2>1, PopStep DEF Kinds
  <2>3. file' = file /\ pending \subseteq file
    BY <2>1, <2>2 DEF Owed
  <2> QED
    BY <2>1, <2>2, <2>3, SettleStep
<1>7. CASE HelperRestores
  <2>1. /\ op.at = "ask"
        /\ UNCHANGED <<open, launches, sets, file, up, queue, active, entries, pending, rescan, queued, stopped>>
    BY <1>7 DEF HelperRestores, memory
  <2>2. /\ vol' \in [Apps -> Volume] /\ astray' \in SUBSET Apps /\ op' \in Op
        /\ DepthInv' /\ CleanInv' /\ DebtOnFile' /\ OpInv' /\ op'.at \in {"paid", "unpaid"}
    BY <1>7, RestoresStep
  <2>3. PidInv' /\ OwedInv'
    BY <2>1, <2>2 DEF Ledger, PidInv, OwedInv, Restoring
  <2> QED
    BY <1>1, <1>2, <2>1, <2>2, <2>3 DEF Ledger, TypeOK, MixerTypeOK
<1>8. CASE Settled
  <2>1. op.at # "none" /\ UNCHANGED <<open, vol, launches, sets, up, queue, active, rescan, queued, stopped, astray>>
    BY <1>8 DEF Settled, Waiting, windows
  <2>2. /\ pending' \in SUBSET Entry /\ file' \in SUBSET Entry
        /\ op' = NoOp /\ Owed' = file' /\ ~active' /\ entries' = {}
        /\ DepthInv' /\ CleanInv' /\ DebtOnFile' /\ PidInv'
    BY <1>8, SettledStep
  <2>3. OpInv' /\ OwedInv' /\ op' \in Op
    BY <2>2 DEF OpInv, OwedInv, NoOp, Op, Restoring
  <2> QED
    BY <1>1, <1>2, <2>1, <2>2, <2>3 DEF Ledger, TypeOK, MixerTypeOK
<1> QED
  BY <1>3, <1>4, <1>5, <1>6, <1>7, <1>8, SnapDuckStep, SnapRescanStep DEF Chain

LEMMA LivesStep ==
  ASSUME IInv, (RescanTick /\ UNCHANGED policy) \/ Stop \/ Ends \/ Begins
  PROVE  MixerTypeOK' /\ DownInv' /\ BootInv' /\ Ledger' /\ IntentInv'
<1> USE DEF IInv
<1>1. CASE RescanTick /\ UNCHANGED policy
  <2>1. /\ rescan /\ queued' = TRUE /\ queue' = queue \o <<"rescan">>
        /\ UNCHANGED <<windows, file, up, op, active, entries, pending, rescan, stopped, astray, ducked>>
    BY <1>1 DEF RescanTick, policy, TypeOK, MixerTypeOK
  <2>2. up /\ <<"rescan">> \in Seq({"duck", "restore", "rescan", "stop"})
    BY <2>1 DEF DownInv
  <2>3. /\ queue' \in Seq(Kinds) /\ DownInv' /\ BootInv' /\ Ledger'
        /\ Len(queue') = Len(queue) + 1 /\ Len(queue) \in Nat
        /\ \A k \in 1..Len(queue) : queue'[k] = queue[k]
        /\ queue'[Len(queue) + 1] = "rescan"
    <3>1. Len(queue) \in Nat
      BY DEF TypeOK, MixerTypeOK
    <3>2. Len(<<"rescan">>) = 1 /\ 1 \in 1..1 /\ <<"rescan">>[1] = "rescan"
      OBVIOUS
    <3> QED
      BY <2>1, <2>2, <3>1, <3>2, CallStep
  <2>4. IntentInv'
    BY <2>1, <2>3 DEF IntentInv, Ender
  <2> QED
    BY <2>1, <2>3, <2>4 DEF TypeOK, MixerTypeOK, Kinds, windows
<1>2. CASE Stop
  <2> DEFINE calls == IF ducked THEN <<"restore", "stop">> ELSE <<"stop">>
  <2>1. /\ up /\ stopped' = TRUE /\ queue' = queue \o calls /\ rescan' = FALSE
        /\ UNCHANGED <<windows, file, up, op, active, entries, pending, queued, astray>>
    BY <1>2 DEF Stop, Call
  <2>2. /\ calls \in Seq({"duck", "restore", "rescan", "stop"})
        /\ calls \in {<<"restore">>, <<"restore", "stop">>, <<"stop">>}
    <3>1. calls = <<"restore", "stop">> \/ calls = <<"stop">>
      OBVIOUS
    <3> HIDE DEF calls
    <3>2. /\ <<"restore", "stop">> \in Seq({"duck", "restore", "rescan", "stop"})
          /\ <<"stop">> \in Seq({"duck", "restore", "rescan", "stop"})
      OBVIOUS
    <3> QED
      BY <3>1, <3>2
  <2> HIDE DEF calls
  <2>3. queue' \in Seq(Kinds) /\ DownInv' /\ BootInv' /\ Ledger' /\ IntentInv'
    BY <2>1, <2>2, CallStep, EndingCall
  <2> QED
    BY <2>1, <2>3 DEF TypeOK, MixerTypeOK, Kinds, windows
<1>3. CASE Ends \/ Begins
  <2>1. /\ UNCHANGED <<open, vol, launches, sets, file, astray>>
        /\ op' = NoOp /\ active' = FALSE /\ entries' = {} /\ pending' = {}
        /\ rescan' = FALSE /\ queued' = FALSE /\ stopped' = FALSE
        /\ \/ up' = FALSE /\ queue' = <<>>
           \/ up' = TRUE /\ queue' = <<"boot">>
    BY <1>3 DEF Ends, Begins, Start, windows
  <2>2. op' \in Op /\ op'.at = "none"
    BY <2>1 DEF NoOp, Op
  <2>3. queue' \in Seq(Kinds) /\ DownInv' /\ BootInv' /\ IntentInv'
    <3>0. queue' = <<>> \/ queue' = <<"boot">>
      BY <2>1
    <3>1. queue' \in Seq(Kinds)
      <4>1. <<>> \in Seq(Kinds) /\ <<"boot">> \in Seq(Kinds)
        BY DEF Kinds
      <4> QED
        BY <3>0, <4>1
    <3>2. DownInv'
      BY <2>1 DEF DownInv
    <3>3. CASE queue' = <<>> /\ up' = FALSE
      <4>1. \A k \in 1..Len(queue') : FALSE
        BY <3>3
      <4>2. BootInv'
        BY <4>1 DEF BootInv
      <4>3. IntentInv'
        BY <3>3 DEF IntentInv
      <4> QED
        BY <3>1, <3>2, <4>2, <4>3
    <3>4. CASE queue' = <<"boot">> /\ up' = TRUE
      <4>1. \A k \in 1..Len(queue') : k = 1 /\ queue'[k] = "boot"
        <5>1. Len(<<"boot">>) = 1 /\ <<"boot">>[1] = "boot"
          OBVIOUS
        <5> QED
          BY <3>4, <5>1
      <4>2. BootInv'
        BY <2>1, <4>1 DEF BootInv
      <4>3. active' = FALSE /\ \A k \in 1..Len(queue') : queue'[k] # "duck"
        BY <2>1, <4>1
      <4>4. IntentInv'
        BY <4>3 DEF IntentInv
      <4> QED
        BY <3>1, <3>2, <4>2, <4>4
    <3> QED
      BY <2>1, <3>1, <3>2, <3>3, <3>4
  <2>4. OwedInv'
    BY <2>1 DEF OwedInv, BootAhead
  <2>5. OpInv'
    BY <2>1, <2>2 DEF OpInv, Restoring
  <2>6. PidInv' /\ DepthInv' /\ CleanInv' /\ DebtOnFile'
    BY <2>1 DEF Ledger, PidInv, DepthInv, CleanInv, DebtOnFile, DebtOf
  <2> QED
    BY <2>1, <2>2, <2>3, <2>4, <2>5, <2>6 DEF Ledger, TypeOK, MixerTypeOK, Kinds
<1> QED
  BY <1>1, <1>2, <1>3

LEMMA NextStep == ASSUME IInv, [Next]_vars PROVE IInv'
<1>1. TypeOK
  BY DEF IInv
<1>2. PolicyType'
  BY <1>1, PolicyTypeStep
<1>3. ASSUME MixerTypeOK', DownInv', BootInv', Ledger', IntentInv' PROVE IInv'
  BY <1>2, <1>3 DEF IInv, TypeOK, PolicyType
<1>4. CASE (\E a \in Apps : Open(a) \/ Close(a) \/ UserSets(a)) /\ UNCHANGED policy
  BY <1>3, <1>4, WindowsStep
<1>5. CASE (\E m \in Modes : VoiceState(m)) \/ WakeOrVoice \/ TtsDone \/ VadStart \/ Timers \/ EarsDie
  BY <1>1, <1>3, <1>5, PolicyMoves, PolicyStep
<1>6. CASE Chain /\ UNCHANGED policy
  BY <1>3, <1>6, ChainStep
<1>7. CASE (RescanTick /\ UNCHANGED policy) \/ Stop \/ Ends \/ Begins
  BY <1>3, <1>7, LivesStep
<1>8. CASE UNCHANGED vars
  BY <1>3, <1>8, PolicyStep DEF PolicyMove, vars, policy
<1> QED
  BY <1>4, <1>5, <1>6, <1>7, <1>8 DEF Next

LEMMA Invariance == Spec => []IInv
  BY InitInv, NextStep, PTL DEF Spec
-----------------------------------------------------------------------------
\* Every variable of the mixer and of its policy keeps its type.
THEOREM TypeCorrect == Spec => []TypeOK
<1>1. IInv => TypeOK
  BY DEF IInv
<1> QED
  BY <1>1, Invariance, PTL

\* Whatever is closed, fails, crashes or is stopped in the middle, an application that was
\* lowered has the volume of its user on the disk (duck-mixer.ts, the write-ahead).
THEOREM DebtIsOnFile == Spec => []DebtOnFile
<1>1. IInv => DebtOnFile
  BY DEF IInv, Ledger
<1> QED
  BY <1>1, Invariance, PTL

\* When the policy wants the media up and the chain has nothing left to do, nothing is
\* held low: what is still low belongs to an application that the mixer knows it owes.
THEOREM RestoredWhenIdle == Spec => []IdleIsRestored
<1>1. ASSUME IInv PROVE IdleIsRestored
  <2> SUFFICES ASSUME up, queue = <<>>, op = NoOp, ~ducked
               PROVE  ~active /\ \A a \in Apps \ astray : vol[a].depth > 0 => DebtOf(a, pending)
    BY DEF IdleIsRestored, Idle
  <2>1. ~active
    BY <1>1 DEF IInv, IntentInv
  <2>2. entries = {}
    BY <1>1, <2>1 DEF IInv, Ledger, OpInv
  <2>3. file = pending
    BY <1>1, <2>2 DEF IInv, Ledger, OwedInv, BootAhead, Restoring, NoOp, Owed
  <2> QED
    BY <1>1, <2>1, <2>3 DEF IInv, Ledger, DebtOnFile
<1> QED
  BY <1>1, Invariance, PTL
=============================================================================
