-------------------------- MODULE Lifecycle_proofs --------------------------
(***************************************************************************)
(* The safety properties of the lifecycle, for any number of lives, cuts,  *)
(* refusals, faults, erasures and snapshots, and any rotation.  Only the   *)
(* birth is bounded, by what the system promises: at most one of the two   *)
(* plain witnesses is ever lost.                                           *)
(***************************************************************************)
EXTENDS Lifecycle, TLAPS, SequenceTheorems, WellFoundedInduction

Pcs == {"off", "restore", "evacuate", "cover", "commit", "open", "arm",
        "born", "dbok", "ready", "erasing", "snapmeta"}

\* TypeOK by kind of data, each kind with the prover that suits it.
TypeBoot ==
  /\ boot \in [pc : Pcs,
               verdict : {"NONE", "SAINE", "PREMIER_BOOT", "STRUCTUREL", "AMBIGU"},
               wake : {"none", "premier", "propre", "sale"},
               sansEcriture : BOOLEAN, restaure : BOOLEAN, doubt : BOOLEAN,
               alerts : SUBSET Alerts]
  /\ {archived, sentinel, born, audit, lived, cleanEnd} \subseteq BOOLEAN

TypeDb ==
  /\ db \in [kind : {"absent", "blank", "corrupt", "sound"}, c : Contents]
  /\ wal \in {"none", "own", "alien"}

TypeLeft == left \in [{"snaps", "faults", "cuts", "refusals", "lost"} -> Nat]

TypeErase ==
  /\ stream \in [state : {"absent", "ok", "corrupt"}, ids : SUBSET Ids]
  /\ erased \subseteq Ids
  /\ boot.pc = "erasing" => stream.ids # {}

TypeSnaps ==
  /\ snaps \in Seq(Snapshot)
  /\ Len(snaps) + left.snaps <= MaxSnaps
  /\ boot.pc = "snapmeta" => snaps # <<>>

HasBase ==
  boot.pc \in {"arm", "born", "dbok", "ready", "erasing", "snapmeta"}
     => db.kind \in {"sound", "corrupt"}

Types == TypeBoot /\ TypeDb /\ TypeLeft /\ TypeErase /\ TypeSnaps /\ HasBase

\* A restoration that went past the archiving has a good snapshot in hand, no base
\* in the way and, once the -wal is evacuated, nothing beside the name.
CleanGround ==
  /\ NoPoisonedBase
  /\ boot.pc \in {"evacuate", "cover", "commit"} => GoodSnaps # {} /\ db.kind = "absent"
  /\ boot.pc \in {"cover", "commit"} => wal = "none"

\* A life leaves two plain witnesses, and at most one of them is ever lost.
OneBirth ==
  /\ left.lost <= 1
  /\ lived => (born /\ audit) \/ (left.lost = 0 /\ (born \/ audit))
  /\ boot.pc = "dbok" /\ ~boot.sansEcriture => born \/ left.lost = 0
  /\ NeverBornAgain
  /\ boot.pc \in {"restore", "evacuate", "cover", "commit"} => boot.verdict = "STRUCTUREL"

\* A session that may write has armed its flag, and every snapshot was taken by one.
FlagSpeaks ==
  /\ boot.pc \in Pcs \ {"born", "dbok", "ready", "erasing", "snapmeta"}
       => boot.wake = "none"
  /\ boot.pc \in {"born", "dbok", "ready", "erasing", "snapmeta"} /\ ~boot.sansEcriture
       => db.c.running = 1
  /\ boot.pc \in {"born", "erasing", "snapmeta"} => ~boot.sansEcriture
  /\ \A i \in DOMAIN snaps : snaps[i].c.running = 1
  /\ lived /\ db.kind = "sound" /\ db.c.life /\ db.c.running = 0 => cleanEnd

\* Erasures happen in a life, in the base of that life.
InLife ==
  /\ erased # {} => lived
  /\ boot.pc \in {"ready", "erasing", "snapmeta"} /\ ~boot.sansEcriture => lived
  /\ boot.pc = "snapmeta" => db.kind = "sound" /\ snaps[1].c = db.c

\* The stream, even restarted after a loss, holds whatever was erased after any of its
\* members; an id about to be committed is later than every flood mark.
StreamCovers ==
  /\ stream.state = "ok" => stream.ids # {}
  /\ \A e \in erased, n \in stream.ids : e > n => e \in stream.ids
  /\ boot.pc = "erasing" => \A i \in DOMAIN snaps : snaps[i].crue < LastId

\* Until a doubt is on record, the base lacks nothing that was erased, a snapshot lacks
\* nothing up to its flood mark, and the one about to be installed lacks nothing.
NoDoubtNoGap ==
  ~sentinel =>
    /\ db.kind = "sound" => erased \subseteq db.c.gone
    /\ \A i \in DOMAIN snaps : snaps[i].meta =>
          \A e \in erased : e <= snaps[i].crue => e \in snaps[i].c.gone
    /\ boot.pc = "commit" => erased \subseteq snaps[Newest].c.gone

\* A doubt on record has been told in this session, or is about to be.
DoubtTold ==
  boot.pc # "off" /\ sentinel
    => "OUBLI" \in boot.alerts \/ (boot.pc = "commit" /\ boot.doubt)

\* The inductive invariant, but for the births.
IInv == /\ Types /\ CleanGround /\ FlagSpeaks
        /\ InLife /\ StreamCovers /\ NoDoubtNoGap /\ DoubtTold

-----------------------------------------------------------------------------
(* What the two choices pick.                                              *)

\* Every non-empty set of natural numbers has a least member.
LEMMA LeastMember ==
  ASSUME NEW T, T \subseteq Nat, T # {}
  PROVE  \E x \in T : \A y \in T : x <= y
  <1> DEFINE R == OpToRel(<, Nat)
  <1>1. IsWellFoundedOn(R, Nat)
    BY NatLessThanWellFounded
  <1> HIDE DEF R
  <1>2. PICK x \in T : \A y \in T : ~(<<y, x>> \in R)
    BY <1>1, WFMin
  <1>3. \A y \in T : ~(y < x)
    <2> SUFFICES ASSUME NEW y \in T PROVE ~(y < x)
      OBVIOUS
    <2>1. x \in Nat /\ y \in Nat
      OBVIOUS
    <2>2. y < x => <<y, x>> \in R
      BY <2>1 DEF R, OpToRel
    <2> QED BY <1>2, <2>2
  <1> QED BY <1>3

\* A set of ids that is not empty has a latest member.
LEMMA LatestIsLast ==
  ASSUME NEW S, S \subseteq Ids, S # {}
  PROVE  Latest(S) \in S /\ \A j \in S : j <= Latest(S)
  <1> DEFINE T == {MaxErase - i : i \in S}
  <1>0. \A i \in S : i \in Nat /\ MaxErase - i \in Nat
    BY BoundsAssumption DEF Ids
  <1>1. T \subseteq Nat /\ T # {}
    BY <1>0
  <1>2. PICK x \in T : \A y \in T : x <= y
    BY <1>1, LeastMember
  <1>3. PICK i \in S : x = MaxErase - i
    OBVIOUS
  <1>4. \A j \in S : j <= i
    <2> SUFFICES ASSUME NEW j \in S PROVE j <= i
      OBVIOUS
    <2>1. MaxErase - i <= MaxErase - j
      BY <1>2, <1>3
    <2> QED BY <1>0, <2>1, BoundsAssumption
  <1> QED BY <1>4 DEF Latest

\* Once there is a good snapshot, Newest is one.
LEMMA NewestIsGood ==
  ASSUME snaps \in Seq(Snapshot), GoodSnaps # {}
  PROVE  Newest \in GoodSnaps /\ Newest \in DOMAIN snaps /\ snaps[Newest] \in Snapshot
  <1>1. GoodSnaps \subseteq Nat /\ GoodSnaps \subseteq DOMAIN snaps
    BY DEF GoodSnaps
  <1>2. \E i \in GoodSnaps : \A j \in GoodSnaps : i <= j
    BY <1>1, LeastMember
  <1>3. Newest \in GoodSnaps
    BY <1>2 DEF Newest
  <1> QED BY <1>1, <1>3

-----------------------------------------------------------------------------
(* What the steps with a richer shape do.                                  *)

\* Waking keeps what the boot knows, adds the way she wakes, and forgets no alert.
LEMMA WokenKeeps ==
  ASSUME TypeBoot
  PROVE  /\ Woken \in [pc : Pcs,
               verdict : {"NONE", "SAINE", "PREMIER_BOOT", "STRUCTUREL", "AMBIGU"},
               wake : {"none", "premier", "propre", "sale"},
               sansEcriture : BOOLEAN, restaure : BOOLEAN, doubt : BOOLEAN,
               alerts : SUBSET Alerts]
         /\ Woken.verdict = boot.verdict
         /\ Woken.sansEcriture = boot.sansEcriture
         /\ Woken.wake = Wake
         /\ boot.alerts \subseteq Woken.alerts
  BY Zenon DEF TypeBoot, Woken, Wake, Alerts

\* Arming, done or refused, ends in the next step of the boot or in no process.
LEMMA ArmOutcome ==
  ASSUME TypeBoot, Arm \/ ArmRefused
  PROVE  /\ boot.pc = "arm"
         /\ \/ /\ boot'.pc = IF boot.sansEcriture THEN "dbok" ELSE "born"
               /\ boot'.verdict = boot.verdict
               /\ boot'.sansEcriture = boot.sansEcriture
               /\ boot'.wake = Wake
               /\ boot.alerts \subseteq boot'.alerts
               /\ ArmRefused => boot.sansEcriture
            \/ /\ ArmRefused /\ ~boot.sansEcriture
               /\ boot'.pc = "off" /\ boot'.wake = "none"
  <1>0. boot.pc = "arm"
    BY Zenon DEF Arm, ArmRefused
  <1>1. CASE ArmRefused /\ ~boot.sansEcriture
    <2>1. boot' = Off
      BY <1>1, Zenon DEF ArmRefused
    <2> QED BY <1>0, <1>1, <2>1, Zenon DEF Off
  <1>2. CASE ~(ArmRefused /\ ~boot.sansEcriture)
    <2> DEFINE p == IF boot.sansEcriture THEN "dbok" ELSE "born"
    <2>1. boot' = [Woken EXCEPT !.pc = p]
      BY <1>2, Zenon DEF Arm, ArmRefused
    <2> HIDE DEF p
    <2>2. /\ boot'.pc = p /\ boot'.verdict = Woken.verdict
          /\ boot'.sansEcriture = Woken.sansEcriture
          /\ boot'.wake = Woken.wake /\ boot'.alerts = Woken.alerts
      BY <2>1, WokenKeeps, Zenon
    <2>3. boot'.pc = IF boot.sansEcriture THEN "dbok" ELSE "born"
      BY <2>2, Zenon DEF p
    <2> QED BY <1>0, <1>2, <2>2, <2>3, WokenKeeps, Zenon
  <1> QED BY <1>1, <1>2

\* Arming touches the flag alone.
LEMMA ArmFrame ==
  ASSUME Types, Arm \/ ArmRefused
  PROVE  /\ db'.kind = db.kind /\ db'.c.life = db.c.life /\ db'.c.gone = db.c.gone
         /\ Arm => db'.c.running = 1 /\ cleanEnd' = FALSE
         /\ ~Arm => UNCHANGED <<db, cleanEnd>>
         /\ wal' \in {wal, "none"}
         /\ UNCHANGED <<archived, snaps, stream, sentinel, born, lived, erased>>
  <1>1. CASE Arm
    <2>1. /\ db'.kind = db.kind /\ db'.c.life = db.c.life /\ db'.c.gone = db.c.gone
          /\ db'.c.running = 1
      BY <1>1, Zenon DEF Types, TypeDb, Contents, Arm, Flagged
    <2> QED BY <1>1, <2>1 DEF Arm
  <1>2. CASE ArmRefused /\ ~Arm
    BY <1>2, Zenon DEF ArmRefused, ghost
  <1> QED BY <1>1, <1>2

\* Committing an erasure adds it to the base, and to nothing else there.
LEMMA EraseOutcome ==
  ASSUME Types, EraseCommit
  PROVE  /\ LastId \in stream.ids /\ LastId \in Ids
         /\ \A j \in stream.ids : j <= LastId
         /\ db'.kind = db.kind /\ db'.c.life = db.c.life /\ db'.c.running = db.c.running
         /\ db'.c.gone = db.c.gone \union {LastId}
  <1>1. LastId \in stream.ids /\ LastId \in Ids /\ \A j \in stream.ids : j <= LastId
    BY LatestIsLast DEF Types, TypeErase, EraseCommit, LastId
  <1>2. /\ db'.kind = db.kind /\ db'.c.life = db.c.life /\ db'.c.running = db.c.running
        /\ db'.c.gone = db.c.gone \union {LastId}
    BY Zenon DEF Types, TypeDb, Contents, EraseCommit, Purged
  <1> QED BY <1>1, <1>2

\* A snapshot is one, and its mark a number.
LEMMA SnapTypes ==
  ASSUME Types, NEW i \in DOMAIN snaps
  PROVE  snaps[i] \in Snapshot /\ snaps[i].crue \in Nat
  <1>1. snaps[i] \in Snapshot
    BY DEF Types, TypeSnaps
  <1> QED BY <1>1, BoundsAssumption DEF Snapshot

\* A snapshot goes in front of the others.
LEMMA CreateOutcome ==
  ASSUME Types, CreateSnapshot
  PROVE  /\ snaps' \in Seq(Snapshot) /\ Len(snaps') = Len(snaps) + 1
         /\ snaps'[1].c = db.c /\ snaps'[1].crue = 0 /\ snaps'[1].meta = FALSE
         /\ \A i \in DOMAIN snaps' : i # 1 => i - 1 \in DOMAIN snaps /\ snaps'[i] = snaps[i - 1]
  <1> DEFINE s == [good |-> TRUE, meta |-> FALSE, crue |-> 0, c |-> db.c]
  <1>0. 0 \in 0..MaxErase
    BY BoundsAssumption
  <1>1. s \in Snapshot
    BY <1>0, Zenon DEF Types, TypeDb, Snapshot
  <1>2. snaps' = <<s>> \o snaps
    BY DEF CreateSnapshot
  <1>3. s.c = db.c /\ s.crue = 0 /\ s.meta = FALSE
    OBVIOUS
  <1> HIDE DEF s
  <1>4. <<s>> \in Seq(Snapshot) /\ Len(<<s>>) = 1 /\ <<s>>[1] = s
    BY <1>1
  <1>5. /\ snaps' \in Seq(Snapshot) /\ Len(snaps') = Len(snaps) + 1
        /\ \A i \in 1 .. 1 + Len(snaps) : snaps'[i] = IF i <= 1 THEN s ELSE snaps[i - 1]
    BY <1>2, <1>4, ConcatProperties DEF Types, TypeSnaps
  <1> QED BY <1>3, <1>5, LenProperties DEF Types, TypeSnaps

\* Replacing one snapshot replaces nothing else.
LEMMA ReplaceOne ==
  ASSUME snaps \in Seq(Snapshot), NEW i \in DOMAIN snaps, NEW s \in Snapshot
  PROVE  /\ [snaps EXCEPT ![i] = s] \in Seq(Snapshot)
         /\ Len([snaps EXCEPT ![i] = s]) = Len(snaps)
         /\ DOMAIN [snaps EXCEPT ![i] = s] = DOMAIN snaps
         /\ \A j \in DOMAIN snaps : [snaps EXCEPT ![i] = s][j] = IF j = i THEN s ELSE snaps[j]
  BY ExceptSeq

\* The flood mark is an id, and covers the whole stream.
LEMMA FloodMarkCovers ==
  ASSUME TypeErase
  PROVE  FloodMark \in 0..MaxErase /\ \A j \in stream.ids : j <= FloodMark
  BY LatestIsLast, BoundsAssumption DEF TypeErase, FloodMark, LastId, Ids

\* The newest snapshot gets its mark, the oldest ones go.
LEMMA MetaOutcome ==
  ASSUME Types, SnapshotMeta
  PROVE  /\ snaps' \in Seq(Snapshot) /\ Len(snaps') <= Len(snaps)
         /\ 1 \in DOMAIN snaps /\ Marked(snaps[1]) \in Snapshot
         /\ \A i \in DOMAIN snaps' :
              i \in DOMAIN snaps /\ snaps'[i] = IF i = 1 THEN Marked(snaps[1]) ELSE snaps[i]
  <1>1. 1 \in DOMAIN snaps /\ snaps[1] \in Snapshot
    BY DEF Types, TypeSnaps, SnapshotMeta
  <1>2. Marked(snaps[1]) \in Snapshot
    BY <1>1, FloodMarkCovers, Zenon DEF Marked, Snapshot, Types
  <1> DEFINE t == [snaps EXCEPT ![1] = Marked(snaps[1])]
             n == IF Len(t) < KeepN THEN Len(t) ELSE KeepN
  <1>3. /\ t \in Seq(Snapshot) /\ Len(t) = Len(snaps) /\ DOMAIN t = DOMAIN snaps
        /\ \A j \in DOMAIN snaps : t[j] = IF j = 1 THEN Marked(snaps[1]) ELSE snaps[j]
    BY <1>1, <1>2, ReplaceOne, Zenon DEF Types, TypeSnaps
  <1>4. snaps' = SubSeq(t, 1, n)
    BY DEF SnapshotMeta, RotateSnapshots
  <1> HIDE DEF t
  <1>5. n \in Nat /\ n <= Len(t) /\ \A j \in 1..n : t[j] \in Snapshot /\ j \in DOMAIN t
    BY <1>3, BoundsAssumption
  <1> HIDE DEF n
  <1>6. /\ snaps' \in Seq(Snapshot) /\ Len(snaps') = n
        /\ \A j \in 1..n : snaps'[j] = t[j]
    BY <1>4, <1>5, SubSeqProperties
  <1> QED BY <1>1, <1>2, <1>3, <1>5, <1>6

\* What damages a snapshot or loses its mark leaves what it holds.
LEMMA FaultOutcome ==
  ASSUME Types, SnapDamaged \/ MetaLost
  PROVE  /\ snaps' \in Seq(Snapshot) /\ Len(snaps') = Len(snaps)
         /\ DOMAIN snaps' = DOMAIN snaps
         /\ \A j \in DOMAIN snaps : /\ snaps'[j].c = snaps[j].c
                                    /\ snaps'[j].crue \in {0, snaps[j].crue}
                                    /\ snaps'[j].meta => snaps[j].meta /\ snaps'[j].crue = snaps[j].crue
  <1>1. PICK i \in DOMAIN snaps : \/ snaps' = [snaps EXCEPT ![i] = Damaged(snaps[i])]
                                  \/ snaps' = [snaps EXCEPT ![i] = Unmarked(snaps[i])]
    BY DEF SnapDamaged, MetaLost
  <1>2. snaps[i] \in Snapshot /\ snaps \in Seq(Snapshot)
    BY DEF Types, TypeSnaps
  <1>0. 0 \in 0..MaxErase
    BY BoundsAssumption
  <1>3. Damaged(snaps[i]) \in Snapshot /\ Unmarked(snaps[i]) \in Snapshot
    BY <1>0, <1>2, Zenon DEF Damaged, Unmarked, Snapshot
  <1>4. /\ Damaged(snaps[i]).c = snaps[i].c /\ Damaged(snaps[i]).crue = snaps[i].crue
        /\ Damaged(snaps[i]).meta = snaps[i].meta
        /\ Unmarked(snaps[i]).c = snaps[i].c /\ Unmarked(snaps[i]).crue = 0
        /\ Unmarked(snaps[i]).meta = FALSE
    BY DEF Damaged, Unmarked
  <1>5. PICK s \in Snapshot : /\ snaps' = [snaps EXCEPT ![i] = s]
                              /\ s \in {Damaged(snaps[i]), Unmarked(snaps[i])}
    BY <1>1, <1>3
  <1>6. /\ snaps' \in Seq(Snapshot) /\ Len(snaps') = Len(snaps)
        /\ DOMAIN snaps' = DOMAIN snaps
        /\ \A j \in DOMAIN snaps : snaps'[j] = IF j = i THEN s ELSE snaps[j]
    BY <1>2, <1>5, ReplaceOne
  <1> QED BY <1>4, <1>5, <1>6, Zenon

-----------------------------------------------------------------------------
(* The types.                                                               *)

\* Every step keeps the process and the flags of the home in their types.
LEMMA TypeBootStep ==
  ASSUME Types, Next
  PROVE  TypeBoot'
  <1>1. CASE Gate
    BY <1>1, Zenon DEF Types, TypeBoot, ghost, disk, Pcs, Alerts, Gate, IntegrityGate,
         Poisoned, HasAnyLifeWitness, Off
  <1>2. CASE RestoreNothing
    BY <1>2, Zenon DEF Types, TypeBoot, ghost, disk, Pcs, Alerts, RestoreNothing, Blocked,
         Tell, Off
  <1>3. CASE RestoreArchive
    BY <1>3, Zenon DEF Types, TypeBoot, ghost, disk, Pcs, Alerts, RestoreArchive
  <1>4. CASE RestoreEvacuate
    BY <1>4, Zenon DEF Types, TypeBoot, ghost, disk, Pcs, Alerts, RestoreEvacuate
  <1>5. CASE RestoreCover
    BY <1>5, Zenon DEF Types, TypeBoot, ghost, disk, Pcs, Alerts, RestoreCover, ErasureDoubt
  <1>6. CASE RestoreCommit
    BY <1>6, Zenon DEF Types, TypeBoot, ghost, disk, Pcs, Alerts, RestoreCommit
  <1>7. CASE OpenDatabase
    BY <1>7, Zenon DEF Types, TypeBoot, ghost, disk, Pcs, Alerts, OpenDatabase, Opened,
         Blank, MustExist
  <1>8. CASE Arm
    BY <1>8, Zenon DEF Types, TypeBoot, ghost, disk, Pcs, Alerts, Arm, Woken, Wake, Flagged
  <1>9. CASE WriteBornMarker
    BY <1>9, Zenon DEF Types, TypeBoot, ghost, disk, Pcs, Alerts, WriteBornMarker, Spend
  <1>10. CASE DbOk
    BY <1>10, Zenon DEF Types, TypeBoot, ghost, disk, Pcs, Alerts, DbOk, Spend
  <1>11. CASE GateUnsure
    BY <1>11, Zenon DEF Types, TypeBoot, ghost, disk, Pcs, Alerts, GateUnsure, Spend, Off
  <1>12. CASE RestoreAbandon
    BY <1>12, Zenon DEF Types, TypeBoot, ghost, disk, Pcs, Alerts, RestoreAbandon, Spend,
         Blocked, Off
  <1>13. CASE OpenRefused
    BY <1>13, Zenon DEF Types, TypeBoot, ghost, disk, Pcs, Alerts, OpenRefused, Spend,
         Blocked, MustExist, Off
  <1>14. CASE ArmRefused
    <2>1. audit' \in BOOLEAN /\ UNCHANGED <<archived, sentinel, born, lived, cleanEnd>>
      BY <1>14, Zenon DEF Types, TypeBoot, ArmRefused, ghost
    <2>2. CASE boot.sansEcriture
      <3>1. boot' = [Woken EXCEPT !.pc = "dbok"]
        BY <1>14, <2>2, Zenon DEF ArmRefused
      <3> QED BY <2>1, <3>1, WokenKeeps, Zenon DEF Types, TypeBoot, Pcs
    <2>3. CASE ~boot.sansEcriture
      <3>1. boot' = Off
        BY <1>14, <2>3, Zenon DEF ArmRefused
      <3> QED BY <2>1, <3>1, Zenon DEF Types, TypeBoot, Off, Pcs
    <2> QED BY <2>2, <2>3
  <1>15. CASE ShutdownRefused
    BY <1>15, Zenon DEF Types, TypeBoot, ghost, disk, Pcs, Alerts, ShutdownRefused, Spend,
         Off
  <1>16. CASE EraseAppend
    BY <1>16, Zenon DEF Types, TypeBoot, ghost, disk, Pcs, Alerts, EraseAppend, Writing,
         FreshIds
  <1>17. CASE EraseCommit
    BY <1>17, Zenon DEF Types, TypeBoot, ghost, disk, Pcs, Alerts, EraseCommit, Purged
  <1>18. CASE CreateSnapshot
    BY <1>18, Zenon DEF Types, TypeBoot, ghost, disk, Pcs, Alerts, CreateSnapshot, Writing,
         Spend
  <1>19. CASE SnapshotMeta
    BY <1>19, Zenon DEF Types, TypeBoot, ghost, disk, Pcs, Alerts, SnapshotMeta,
         RotateSnapshots, Marked, FloodMark
  <1>20. CASE WriteCleanShutdown
    BY <1>20, Zenon DEF Types, TypeBoot, ghost, disk, Pcs, Alerts, WriteCleanShutdown,
         Flagged, Off
  <1>21. CASE OpenTorn
    BY <1>21, Zenon DEF Types, TypeBoot, ghost, disk, Pcs, Alerts, OpenTorn, Spend, Off
  <1>22. CASE Cut
    BY <1>22, Zenon DEF Types, TypeBoot, ghost, disk, Pcs, Alerts, Cut, Spend, Off
  <1>23. CASE DbDamaged
    BY <1>23, Zenon DEF Types, TypeBoot, ghost, disk, Pcs, Alerts, DbDamaged, Fault, Spend
  <1>24. CASE SqliteLost
    BY <1>24, Zenon DEF Types, TypeBoot, ghost, disk, Pcs, Alerts, SqliteLost, Fault, Spend
  <1>25. CASE SnapDamaged
    BY <1>25, Zenon DEF Types, TypeBoot, ghost, disk, Pcs, Alerts, SnapDamaged, Fault,
         Spend, Damaged
  <1>26. CASE MetaLost
    BY <1>26, Zenon DEF Types, TypeBoot, ghost, disk, Pcs, Alerts, MetaLost, Fault, Spend,
         Unmarked
  <1>27. CASE StreamDamaged
    BY <1>27, Zenon DEF Types, TypeBoot, ghost, disk, Pcs, Alerts, StreamDamaged, Fault,
         Spend
  <1>28. CASE WitnessLost
    BY <1>28, Zenon DEF Types, TypeBoot, ghost, disk, Pcs, Alerts, WitnessLost, Spend
  <1> QED
    BY <1>1, <1>2, <1>3, <1>4, <1>5, <1>6, <1>7, <1>8, <1>9, <1>10, <1>11, <1>12, <1>13,
         <1>14, <1>15, <1>16, <1>17, <1>18, <1>19, <1>20, <1>21, <1>22, <1>23, <1>24, <1>25,
         <1>26, <1>27, <1>28 DEF Next, BootStep, Refusal, Session, Environment

\* Every step keeps the base and its -wal in their types.
LEMMA TypeDbStep ==
  ASSUME Types, CleanGround, Next
  PROVE  TypeDb'
  <1>1. CASE Gate
    BY <1>1, Zenon DEF Types, TypeDb, ghost, disk, Contents, Gate, IntegrityGate, Poisoned,
         HasAnyLifeWitness, Off
  <1>2. CASE RestoreNothing
    BY <1>2, Zenon DEF Types, TypeDb, ghost, disk, Contents, RestoreNothing, Blocked, Tell,
         Off
  <1>3. CASE RestoreArchive
    BY <1>3, Zenon DEF Types, TypeDb, ghost, disk, Contents, RestoreArchive
  <1>4. CASE RestoreEvacuate
    BY <1>4, Zenon DEF Types, TypeDb, ghost, disk, Contents, RestoreEvacuate
  <1>5. CASE RestoreCover
    BY <1>5, Zenon DEF Types, TypeDb, ghost, disk, Contents, RestoreCover
  <1>6. CASE RestoreCommit
    <2>1. snaps[Newest].c \in Contents
      BY <1>6, NewestIsGood DEF Types, TypeSnaps, CleanGround, RestoreCommit, Snapshot
    <2> QED BY <1>6, <2>1, Zenon DEF Types, TypeDb, RestoreCommit
  <1>7. CASE OpenDatabase
    BY <1>7, Zenon DEF Types, TypeDb, ghost, disk, Contents, OpenDatabase, Opened, Blank,
         MustExist
  <1>8. CASE Arm
    BY <1>8, Zenon DEF Types, TypeDb, ghost, disk, Contents, Arm, Woken, Wake, Flagged
  <1>9. CASE WriteBornMarker
    BY <1>9, Zenon DEF Types, TypeDb, ghost, disk, Contents, WriteBornMarker, Spend
  <1>10. CASE DbOk
    BY <1>10, Zenon DEF Types, TypeDb, ghost, disk, Contents, DbOk, Spend
  <1>11. CASE GateUnsure
    BY <1>11, Zenon DEF Types, TypeDb, ghost, disk, Contents, GateUnsure, Spend, Off
  <1>12. CASE RestoreAbandon
    BY <1>12, Zenon DEF Types, TypeDb, ghost, disk, Contents, RestoreAbandon, Spend,
         Blocked, Off
  <1>13. CASE OpenRefused
    BY <1>13, Zenon DEF Types, TypeDb, ghost, disk, Contents, OpenRefused, Spend, Blocked,
         MustExist, Off
  <1>14. CASE ArmRefused
    BY <1>14, Zenon DEF Types, TypeDb, ghost, disk, Contents, ArmRefused, Spend, Woken,
         Wake, Off
  <1>15. CASE ShutdownRefused
    BY <1>15, Zenon DEF Types, TypeDb, ghost, disk, Contents, ShutdownRefused, Spend, Off
  <1>16. CASE EraseAppend
    BY <1>16, Zenon DEF Types, TypeDb, ghost, disk, Contents, EraseAppend, Writing, FreshIds
  <1>17. CASE EraseCommit
    <2>1. LastId \in Ids
      BY <1>17, EraseOutcome
    <2> QED BY <1>17, <2>1, Zenon DEF Types, TypeDb, EraseCommit, Purged, Contents
  <1>18. CASE CreateSnapshot
    BY <1>18, Zenon DEF Types, TypeDb, ghost, disk, Contents, CreateSnapshot, Writing, Spend
  <1>19. CASE SnapshotMeta
    BY <1>19, Zenon DEF Types, TypeDb, ghost, disk, Contents, SnapshotMeta, RotateSnapshots,
         Marked, FloodMark
  <1>20. CASE WriteCleanShutdown
    BY <1>20, Zenon DEF Types, TypeDb, ghost, disk, Contents, WriteCleanShutdown, Flagged,
         Off
  <1>21. CASE OpenTorn
    BY <1>21, Zenon DEF Types, TypeDb, ghost, disk, Contents, OpenTorn, Spend, Off
  <1>22. CASE Cut
    BY <1>22, Zenon DEF Types, TypeDb, ghost, disk, Contents, Cut, Spend, Off
  <1>23. CASE DbDamaged
    BY <1>23, Zenon DEF Types, TypeDb, ghost, disk, Contents, DbDamaged, Fault, Spend
  <1>24. CASE SqliteLost
    BY <1>24, Zenon DEF Types, TypeDb, ghost, disk, Contents, SqliteLost, Fault, Spend
  <1>25. CASE SnapDamaged
    BY <1>25, Zenon DEF Types, TypeDb, ghost, disk, Contents, SnapDamaged, Fault, Spend,
         Damaged
  <1>26. CASE MetaLost
    BY <1>26, Zenon DEF Types, TypeDb, ghost, disk, Contents, MetaLost, Fault, Spend,
         Unmarked
  <1>27. CASE StreamDamaged
    BY <1>27, Zenon DEF Types, TypeDb, ghost, disk, Contents, StreamDamaged, Fault, Spend
  <1>28. CASE WitnessLost
    BY <1>28, Zenon DEF Types, TypeDb, ghost, disk, Contents, WitnessLost, Spend
  <1> QED
    BY <1>1, <1>2, <1>3, <1>4, <1>5, <1>6, <1>7, <1>8, <1>9, <1>10, <1>11, <1>12, <1>13,
         <1>14, <1>15, <1>16, <1>17, <1>18, <1>19, <1>20, <1>21, <1>22, <1>23, <1>24, <1>25,
         <1>26, <1>27, <1>28 DEF Next, BootStep, Refusal, Session, Environment

\* Every step keeps the bounds in their type.
LEMMA TypeLeftStep ==
  ASSUME Types, Next
  PROVE  TypeLeft'
  <1>1. CASE Gate
    BY <1>1 DEF Types, TypeLeft, ghost, disk, Gate, IntegrityGate, Poisoned,
         HasAnyLifeWitness, Off
  <1>2. CASE RestoreNothing
    BY <1>2 DEF Types, TypeLeft, ghost, disk, RestoreNothing, Blocked, Tell, Off
  <1>3. CASE RestoreArchive
    BY <1>3 DEF Types, TypeLeft, ghost, disk, RestoreArchive
  <1>4. CASE RestoreEvacuate
    BY <1>4 DEF Types, TypeLeft, ghost, disk, RestoreEvacuate
  <1>5. CASE RestoreCover
    BY <1>5 DEF Types, TypeLeft, ghost, disk, RestoreCover
  <1>6. CASE RestoreCommit
    BY <1>6 DEF Types, TypeLeft, ghost, disk, RestoreCommit
  <1>7. CASE OpenDatabase
    BY <1>7 DEF Types, TypeLeft, ghost, disk, OpenDatabase, Opened, Blank, MustExist
  <1>8. CASE Arm
    BY <1>8 DEF Types, TypeLeft, ghost, disk, Arm, Woken, Wake, Flagged
  <1>9. CASE WriteBornMarker
    BY <1>9 DEF Types, TypeLeft, ghost, disk, WriteBornMarker, Spend
  <1>10. CASE DbOk
    BY <1>10 DEF Types, TypeLeft, ghost, disk, DbOk, Spend
  <1>11. CASE GateUnsure
    BY <1>11 DEF Types, TypeLeft, ghost, disk, GateUnsure, Spend, Off
  <1>12. CASE RestoreAbandon
    BY <1>12 DEF Types, TypeLeft, ghost, disk, RestoreAbandon, Spend, Blocked, Off
  <1>13. CASE OpenRefused
    BY <1>13 DEF Types, TypeLeft, ghost, disk, OpenRefused, Spend, Blocked, MustExist, Off
  <1>14. CASE ArmRefused
    BY <1>14 DEF Types, TypeLeft, ghost, disk, ArmRefused, Spend, Woken, Wake, Off
  <1>15. CASE ShutdownRefused
    BY <1>15 DEF Types, TypeLeft, ghost, disk, ShutdownRefused, Spend, Off
  <1>16. CASE EraseAppend
    BY <1>16 DEF Types, TypeLeft, ghost, disk, EraseAppend, Writing, FreshIds
  <1>17. CASE EraseCommit
    BY <1>17 DEF Types, TypeLeft, ghost, disk, EraseCommit, Purged
  <1>18. CASE CreateSnapshot
    BY <1>18 DEF Types, TypeLeft, ghost, disk, CreateSnapshot, Writing, Spend
  <1>19. CASE SnapshotMeta
    BY <1>19 DEF Types, TypeLeft, ghost, disk, SnapshotMeta, RotateSnapshots, Marked,
         FloodMark
  <1>20. CASE WriteCleanShutdown
    BY <1>20 DEF Types, TypeLeft, ghost, disk, WriteCleanShutdown, Flagged, Off
  <1>21. CASE OpenTorn
    BY <1>21 DEF Types, TypeLeft, ghost, disk, OpenTorn, Spend, Off
  <1>22. CASE Cut
    BY <1>22 DEF Types, TypeLeft, ghost, disk, Cut, Spend, Off
  <1>23. CASE DbDamaged
    BY <1>23 DEF Types, TypeLeft, ghost, disk, DbDamaged, Fault, Spend
  <1>24. CASE SqliteLost
    BY <1>24 DEF Types, TypeLeft, ghost, disk, SqliteLost, Fault, Spend
  <1>25. CASE SnapDamaged
    BY <1>25 DEF Types, TypeLeft, ghost, disk, SnapDamaged, Fault, Spend, Damaged
  <1>26. CASE MetaLost
    BY <1>26 DEF Types, TypeLeft, ghost, disk, MetaLost, Fault, Spend, Unmarked
  <1>27. CASE StreamDamaged
    BY <1>27 DEF Types, TypeLeft, ghost, disk, StreamDamaged, Fault, Spend
  <1>28. CASE WitnessLost
    BY <1>28 DEF Types, TypeLeft, ghost, disk, WitnessLost, Spend
  <1> QED
    BY <1>1, <1>2, <1>3, <1>4, <1>5, <1>6, <1>7, <1>8, <1>9, <1>10, <1>11, <1>12, <1>13,
         <1>14, <1>15, <1>16, <1>17, <1>18, <1>19, <1>20, <1>21, <1>22, <1>23, <1>24, <1>25,
         <1>26, <1>27, <1>28 DEF Next, BootStep, Refusal, Session, Environment

\* Every step keeps the stream and the erasures in their types.
LEMMA TypeEraseStep ==
  ASSUME Types, Next
  PROVE  TypeErase'
  <1>1. CASE Gate
    BY <1>1 DEF Types, TypeErase, TypeBoot, ghost, disk, Gate, IntegrityGate, Poisoned,
         HasAnyLifeWitness, Off
  <1>2. CASE RestoreNothing
    BY <1>2 DEF Types, TypeErase, TypeBoot, ghost, disk, RestoreNothing, Blocked, Tell, Off
  <1>3. CASE RestoreArchive
    BY <1>3 DEF Types, TypeErase, TypeBoot, ghost, disk, RestoreArchive
  <1>4. CASE RestoreEvacuate
    BY <1>4 DEF Types, TypeErase, TypeBoot, ghost, disk, RestoreEvacuate
  <1>5. CASE RestoreCover
    BY <1>5 DEF Types, TypeErase, TypeBoot, ghost, disk, RestoreCover
  <1>6. CASE RestoreCommit
    BY <1>6 DEF Types, TypeErase, TypeBoot, ghost, disk, RestoreCommit
  <1>7. CASE OpenDatabase
    BY <1>7 DEF Types, TypeErase, TypeBoot, ghost, disk, OpenDatabase, Opened, Blank,
         MustExist
  <1>8. CASE Arm
    <2>1. boot'.pc \in {"off", "born", "dbok"}
      BY <1>8, ArmOutcome DEF Types, Off
    <2> QED BY <1>8, <2>1 DEF Types, TypeErase, ghost, Arm
  <1>9. CASE WriteBornMarker
    BY <1>9 DEF Types, TypeErase, TypeBoot, ghost, disk, WriteBornMarker, Spend
  <1>10. CASE DbOk
    BY <1>10 DEF Types, TypeErase, TypeBoot, ghost, disk, DbOk, Spend
  <1>11. CASE GateUnsure
    BY <1>11 DEF Types, TypeErase, TypeBoot, ghost, disk, GateUnsure, Spend, Off
  <1>12. CASE RestoreAbandon
    BY <1>12 DEF Types, TypeErase, TypeBoot, ghost, disk, RestoreAbandon, Spend, Blocked,
         Off
  <1>13. CASE OpenRefused
    BY <1>13 DEF Types, TypeErase, TypeBoot, ghost, disk, OpenRefused, Spend, Blocked,
         MustExist, Off
  <1>14. CASE ArmRefused
    <2>1. boot'.pc \in {"off", "born", "dbok"}
      BY <1>14, ArmOutcome DEF Types, Off
    <2> QED BY <1>14, <2>1 DEF Types, TypeErase, ghost, ArmRefused
  <1>15. CASE ShutdownRefused
    BY <1>15 DEF Types, TypeErase, TypeBoot, ghost, disk, ShutdownRefused, Spend, Off
  <1>16. CASE EraseAppend
    BY <1>16 DEF Types, TypeErase, TypeBoot, ghost, disk, EraseAppend, Writing, FreshIds
  <1>17. CASE EraseCommit
    <2>1. LastId \in Ids
      BY <1>17, EraseOutcome
    <2> QED BY <1>17, <2>1 DEF Types, TypeErase, TypeBoot, EraseCommit
  <1>18. CASE CreateSnapshot
    BY <1>18 DEF Types, TypeErase, TypeBoot, ghost, disk, CreateSnapshot, Writing, Spend
  <1>19. CASE SnapshotMeta
    BY <1>19 DEF Types, TypeErase, TypeBoot, ghost, disk, SnapshotMeta, RotateSnapshots,
         Marked, FloodMark
  <1>20. CASE WriteCleanShutdown
    BY <1>20 DEF Types, TypeErase, TypeBoot, ghost, disk, WriteCleanShutdown, Flagged, Off
  <1>21. CASE OpenTorn
    BY <1>21 DEF Types, TypeErase, TypeBoot, ghost, disk, OpenTorn, Spend, Off
  <1>22. CASE Cut
    BY <1>22 DEF Types, TypeErase, TypeBoot, ghost, disk, Cut, Spend, Off
  <1>23. CASE DbDamaged
    BY <1>23 DEF Types, TypeErase, TypeBoot, ghost, disk, DbDamaged, Fault, Spend
  <1>24. CASE SqliteLost
    BY <1>24 DEF Types, TypeErase, TypeBoot, ghost, disk, SqliteLost, Fault, Spend
  <1>25. CASE SnapDamaged
    BY <1>25 DEF Types, TypeErase, TypeBoot, ghost, disk, SnapDamaged, Fault, Spend, Damaged
  <1>26. CASE MetaLost
    BY <1>26 DEF Types, TypeErase, TypeBoot, ghost, disk, MetaLost, Fault, Spend, Unmarked
  <1>27. CASE StreamDamaged
    BY <1>27 DEF Types, TypeErase, TypeBoot, ghost, disk, StreamDamaged, Fault, Spend
  <1>28. CASE WitnessLost
    BY <1>28 DEF Types, TypeErase, TypeBoot, ghost, disk, WitnessLost, Spend
  <1> QED
    BY <1>1, <1>2, <1>3, <1>4, <1>5, <1>6, <1>7, <1>8, <1>9, <1>10, <1>11, <1>12, <1>13,
         <1>14, <1>15, <1>16, <1>17, <1>18, <1>19, <1>20, <1>21, <1>22, <1>23, <1>24, <1>25,
         <1>26, <1>27, <1>28 DEF Next, BootStep, Refusal, Session, Environment

\* Every step keeps the snapshots in their type and under their bound.
LEMMA TypeSnapsStep ==
  ASSUME Types, Next
  PROVE  TypeSnaps'
  <1>1. CASE Gate
    BY <1>1 DEF Types, TypeSnaps, TypeLeft, TypeBoot, ghost, disk, Gate, IntegrityGate,
         Poisoned, HasAnyLifeWitness, Off
  <1>2. CASE RestoreNothing
    BY <1>2 DEF Types, TypeSnaps, TypeLeft, TypeBoot, ghost, disk, RestoreNothing, Blocked,
         Tell, Off
  <1>3. CASE RestoreArchive
    BY <1>3 DEF Types, TypeSnaps, TypeLeft, TypeBoot, ghost, disk, RestoreArchive
  <1>4. CASE RestoreEvacuate
    BY <1>4 DEF Types, TypeSnaps, TypeLeft, TypeBoot, ghost, disk, RestoreEvacuate
  <1>5. CASE RestoreCover
    BY <1>5 DEF Types, TypeSnaps, TypeLeft, TypeBoot, ghost, disk, RestoreCover
  <1>6. CASE RestoreCommit
    BY <1>6 DEF Types, TypeSnaps, TypeLeft, TypeBoot, ghost, disk, RestoreCommit
  <1>7. CASE OpenDatabase
    BY <1>7 DEF Types, TypeSnaps, TypeLeft, TypeBoot, ghost, disk, OpenDatabase, Opened,
         Blank, MustExist
  <1>8. CASE Arm
    <2>1. boot'.pc \in {"off", "born", "dbok"}
      BY <1>8, ArmOutcome DEF Types, Off
    <2> QED BY <1>8, <2>1 DEF Types, TypeSnaps, ghost, Spend, TypeLeft, Arm
  <1>9. CASE WriteBornMarker
    BY <1>9 DEF Types, TypeSnaps, TypeLeft, TypeBoot, ghost, disk, WriteBornMarker, Spend
  <1>10. CASE DbOk
    BY <1>10 DEF Types, TypeSnaps, TypeLeft, TypeBoot, ghost, disk, DbOk, Spend
  <1>11. CASE GateUnsure
    BY <1>11 DEF Types, TypeSnaps, TypeLeft, TypeBoot, ghost, disk, GateUnsure, Spend, Off
  <1>12. CASE RestoreAbandon
    BY <1>12 DEF Types, TypeSnaps, TypeLeft, TypeBoot, ghost, disk, RestoreAbandon, Spend,
         Blocked, Off
  <1>13. CASE OpenRefused
    BY <1>13 DEF Types, TypeSnaps, TypeLeft, TypeBoot, ghost, disk, OpenRefused, Spend,
         Blocked, MustExist, Off
  <1>14. CASE ArmRefused
    <2>1. boot'.pc \in {"off", "born", "dbok"}
      BY <1>14, ArmOutcome DEF Types, Off
    <2> QED BY <1>14, <2>1 DEF Types, TypeSnaps, ghost, Spend, TypeLeft, ArmRefused
  <1>15. CASE ShutdownRefused
    BY <1>15 DEF Types, TypeSnaps, TypeLeft, TypeBoot, ghost, disk, ShutdownRefused, Spend,
         Off
  <1>16. CASE EraseAppend
    BY <1>16 DEF Types, TypeSnaps, TypeLeft, TypeBoot, ghost, disk, EraseAppend, Writing,
         FreshIds
  <1>17. CASE EraseCommit
    BY <1>17 DEF Types, TypeSnaps, TypeLeft, TypeBoot, ghost, disk, EraseCommit, Purged
  <1>18. CASE CreateSnapshot
    <2>1. left.snaps > 0 /\ left'.snaps = left.snaps - 1 /\ left.snaps \in Nat
      BY <1>18 DEF CreateSnapshot, Spend, Types, TypeLeft
    <2>2. Len(snaps) \in Nat
      BY LenProperties DEF Types, TypeSnaps
    <2>3. snaps' \in Seq(Snapshot) /\ Len(snaps') = Len(snaps) + 1
      BY <1>18, CreateOutcome
    <2>4. snaps' # <<>>
      BY <2>2, <2>3
    <2> QED BY <2>1, <2>2, <2>3, <2>4, BoundsAssumption DEF Types, TypeSnaps
  <1>19. CASE SnapshotMeta
    <2>1. boot'.pc = "ready" /\ UNCHANGED left
      BY <1>19 DEF Types, TypeBoot, SnapshotMeta
    <2> QED BY <2>1, <1>19, MetaOutcome, BoundsAssumption DEF Types, TypeSnaps, TypeLeft
  <1>20. CASE WriteCleanShutdown
    BY <1>20 DEF Types, TypeSnaps, TypeLeft, TypeBoot, ghost, disk, WriteCleanShutdown,
         Flagged, Off
  <1>21. CASE OpenTorn
    BY <1>21 DEF Types, TypeSnaps, TypeLeft, TypeBoot, ghost, disk, OpenTorn, Spend, Off
  <1>22. CASE Cut
    BY <1>22 DEF Types, TypeSnaps, TypeLeft, TypeBoot, ghost, disk, Cut, Spend, Off
  <1>23. CASE DbDamaged
    BY <1>23 DEF Types, TypeSnaps, TypeLeft, TypeBoot, ghost, disk, DbDamaged, Fault, Spend
  <1>24. CASE SqliteLost
    <2>1. boot'.pc = "off" /\ left'.snaps \in Nat /\ left'.snaps = left.snaps
      BY <1>24 DEF Types, TypeLeft, SqliteLost, Fault, Spend
    <2>2. snaps' = <<>>
      BY <1>24 DEF SqliteLost
    <2> QED BY <2>1, <2>2, BoundsAssumption DEF Types, TypeSnaps
  <1>25. CASE SnapDamaged
    <2>1. boot'.pc = "off" /\ left'.snaps = left.snaps
      BY <1>25 DEF Types, TypeLeft, SnapDamaged, Fault, Spend
    <2> QED BY <2>1, <1>25, FaultOutcome DEF Types, TypeSnaps
  <1>26. CASE MetaLost
    <2>1. boot'.pc = "off" /\ left'.snaps = left.snaps
      BY <1>26 DEF Types, TypeLeft, MetaLost, Fault, Spend
    <2> QED BY <2>1, <1>26, FaultOutcome DEF Types, TypeSnaps
  <1>27. CASE StreamDamaged
    BY <1>27 DEF Types, TypeSnaps, TypeLeft, TypeBoot, ghost, disk, StreamDamaged, Fault,
         Spend
  <1>28. CASE WitnessLost
    BY <1>28 DEF Types, TypeSnaps, TypeLeft, TypeBoot, ghost, disk, WitnessLost, Spend
  <1> QED
    BY <1>1, <1>2, <1>3, <1>4, <1>5, <1>6, <1>7, <1>8, <1>9, <1>10, <1>11, <1>12, <1>13,
         <1>14, <1>15, <1>16, <1>17, <1>18, <1>19, <1>20, <1>21, <1>22, <1>23, <1>24, <1>25,
         <1>26, <1>27, <1>28 DEF Next, BootStep, Refusal, Session, Environment

\* Past the opening there is a base, readable or not.
LEMMA HasBaseStep ==
  ASSUME Types, Next
  PROVE  HasBase'
  <1>1. CASE Gate
    BY <1>1 DEF Types, HasBase, TypeBoot, TypeDb, ghost, disk, Gate, IntegrityGate,
         Poisoned, HasAnyLifeWitness, Off
  <1>2. CASE RestoreNothing
    BY <1>2 DEF Types, HasBase, TypeBoot, TypeDb, ghost, disk, RestoreNothing, Blocked,
         Tell, Off
  <1>3. CASE RestoreArchive
    BY <1>3 DEF Types, HasBase, TypeBoot, TypeDb, ghost, disk, RestoreArchive
  <1>4. CASE RestoreEvacuate
    BY <1>4 DEF Types, HasBase, TypeBoot, TypeDb, ghost, disk, RestoreEvacuate
  <1>5. CASE RestoreCover
    BY <1>5 DEF Types, HasBase, TypeBoot, TypeDb, ghost, disk, RestoreCover
  <1>6. CASE RestoreCommit
    BY <1>6 DEF Types, HasBase, TypeBoot, TypeDb, ghost, disk, RestoreCommit
  <1>7. CASE OpenDatabase
    BY <1>7 DEF Types, HasBase, TypeBoot, TypeDb, ghost, disk, OpenDatabase, Opened, Blank,
         MustExist
  <1>8. CASE Arm
    <2>1. boot'.pc \in {"off", "born", "dbok"}
      BY <1>8, ArmOutcome DEF Types, Off
    <2> QED BY <1>8, <2>1 DEF Types, HasBase, TypeDb, ghost, Arm
  <1>9. CASE WriteBornMarker
    BY <1>9 DEF Types, HasBase, TypeBoot, TypeDb, ghost, disk, WriteBornMarker, Spend
  <1>10. CASE DbOk
    BY <1>10 DEF Types, HasBase, TypeBoot, TypeDb, ghost, disk, DbOk, Spend
  <1>11. CASE GateUnsure
    BY <1>11 DEF Types, HasBase, TypeBoot, TypeDb, ghost, disk, GateUnsure, Spend, Off
  <1>12. CASE RestoreAbandon
    BY <1>12 DEF Types, HasBase, TypeBoot, TypeDb, ghost, disk, RestoreAbandon, Spend,
         Blocked, Off
  <1>13. CASE OpenRefused
    BY <1>13 DEF Types, HasBase, TypeBoot, TypeDb, ghost, disk, OpenRefused, Spend, Blocked,
         MustExist, Off
  <1>14. CASE ArmRefused
    <2>1. boot'.pc \in {"off", "born", "dbok"}
      BY <1>14, ArmOutcome DEF Types, Off
    <2> QED BY <1>14, <2>1 DEF Types, HasBase, TypeDb, ghost, ArmRefused
  <1>15. CASE ShutdownRefused
    BY <1>15 DEF Types, HasBase, TypeBoot, TypeDb, ghost, disk, ShutdownRefused, Spend, Off
  <1>16. CASE EraseAppend
    BY <1>16 DEF Types, HasBase, TypeBoot, TypeDb, ghost, disk, EraseAppend, Writing,
         FreshIds
  <1>17. CASE EraseCommit
    BY <1>17 DEF Types, HasBase, TypeBoot, TypeDb, ghost, disk, EraseCommit, Purged
  <1>18. CASE CreateSnapshot
    BY <1>18 DEF Types, HasBase, TypeBoot, TypeDb, ghost, disk, CreateSnapshot, Writing,
         Spend
  <1>19. CASE SnapshotMeta
    BY <1>19 DEF Types, HasBase, TypeBoot, TypeDb, ghost, disk, SnapshotMeta,
         RotateSnapshots, Marked, FloodMark
  <1>20. CASE WriteCleanShutdown
    BY <1>20 DEF Types, HasBase, TypeBoot, TypeDb, ghost, disk, WriteCleanShutdown, Flagged,
         Off
  <1>21. CASE OpenTorn
    BY <1>21 DEF Types, HasBase, TypeBoot, TypeDb, ghost, disk, OpenTorn, Spend, Off
  <1>22. CASE Cut
    BY <1>22 DEF Types, HasBase, TypeBoot, TypeDb, ghost, disk, Cut, Spend, Off
  <1>23. CASE DbDamaged
    BY <1>23 DEF Types, HasBase, TypeBoot, TypeDb, ghost, disk, DbDamaged, Fault, Spend
  <1>24. CASE SqliteLost
    BY <1>24 DEF Types, HasBase, TypeBoot, TypeDb, ghost, disk, SqliteLost, Fault, Spend
  <1>25. CASE SnapDamaged
    BY <1>25 DEF Types, HasBase, TypeBoot, TypeDb, ghost, disk, SnapDamaged, Fault, Spend,
         Damaged
  <1>26. CASE MetaLost
    BY <1>26 DEF Types, HasBase, TypeBoot, TypeDb, ghost, disk, MetaLost, Fault, Spend,
         Unmarked
  <1>27. CASE StreamDamaged
    BY <1>27 DEF Types, HasBase, TypeBoot, TypeDb, ghost, disk, StreamDamaged, Fault, Spend
  <1>28. CASE WitnessLost
    BY <1>28 DEF Types, HasBase, TypeBoot, TypeDb, ghost, disk, WitnessLost, Spend
  <1> QED
    BY <1>1, <1>2, <1>3, <1>4, <1>5, <1>6, <1>7, <1>8, <1>9, <1>10, <1>11, <1>12, <1>13,
         <1>14, <1>15, <1>16, <1>17, <1>18, <1>19, <1>20, <1>21, <1>22, <1>23, <1>24, <1>25,
         <1>26, <1>27, <1>28 DEF Next, BootStep, Refusal, Session, Environment

-----------------------------------------------------------------------------
(* The rest of the invariant, part by part.                                 *)

\* Every step keeps the ground clean under a restoration.
LEMMA CleanGroundStep ==
  ASSUME IInv, Next
  PROVE  CleanGround'
  <1>1. CASE Gate
    BY <1>1 DEF IInv, Types, TypeBoot, TypeDb, CleanGround, NoPoisonedBase, GoodSnaps,
         ghost, disk, Gate, IntegrityGate, Poisoned, HasAnyLifeWitness, Off
  <1>2. CASE RestoreNothing
    BY <1>2 DEF IInv, Types, TypeBoot, TypeDb, CleanGround, NoPoisonedBase, GoodSnaps,
         ghost, disk, RestoreNothing, Blocked, Tell, Off
  <1>3. CASE RestoreArchive
    BY <1>3 DEF IInv, Types, TypeBoot, TypeDb, CleanGround, NoPoisonedBase, GoodSnaps,
         ghost, disk, RestoreArchive
  <1>4. CASE RestoreEvacuate
    BY <1>4 DEF IInv, Types, TypeBoot, TypeDb, CleanGround, NoPoisonedBase, GoodSnaps,
         ghost, disk, RestoreEvacuate
  <1>5. CASE RestoreCover
    BY <1>5 DEF IInv, Types, TypeBoot, TypeDb, CleanGround, NoPoisonedBase, GoodSnaps,
         ghost, disk, RestoreCover
  <1>6. CASE RestoreCommit
    BY <1>6 DEF IInv, Types, TypeBoot, TypeDb, CleanGround, NoPoisonedBase, GoodSnaps,
         ghost, disk, RestoreCommit
  <1>7. CASE OpenDatabase
    BY <1>7 DEF IInv, Types, TypeBoot, TypeDb, CleanGround, NoPoisonedBase, GoodSnaps,
         ghost, disk, OpenDatabase, Opened, Blank, MustExist
  <1>8. CASE Arm
    BY <1>8, ArmOutcome, ArmFrame DEF IInv, Types, CleanGround, NoPoisonedBase, GoodSnaps
  <1>9. CASE WriteBornMarker
    BY <1>9 DEF IInv, Types, TypeBoot, TypeDb, CleanGround, NoPoisonedBase, GoodSnaps,
         ghost, disk, WriteBornMarker, Spend
  <1>10. CASE DbOk
    BY <1>10 DEF IInv, Types, TypeBoot, TypeDb, CleanGround, NoPoisonedBase, GoodSnaps,
         ghost, disk, DbOk, Spend
  <1>11. CASE GateUnsure
    BY <1>11 DEF IInv, Types, TypeBoot, TypeDb, CleanGround, NoPoisonedBase, GoodSnaps,
         ghost, disk, GateUnsure, Spend, Off
  <1>12. CASE RestoreAbandon
    BY <1>12 DEF IInv, Types, TypeBoot, TypeDb, CleanGround, NoPoisonedBase, GoodSnaps,
         ghost, disk, RestoreAbandon, Spend, Blocked, Off
  <1>13. CASE OpenRefused
    BY <1>13 DEF IInv, Types, TypeBoot, TypeDb, CleanGround, NoPoisonedBase, GoodSnaps,
         ghost, disk, OpenRefused, Spend, Blocked, MustExist, Off
  <1>14. CASE ArmRefused
    BY <1>14, ArmOutcome, ArmFrame DEF IInv, Types, CleanGround, NoPoisonedBase, GoodSnaps
  <1>15. CASE ShutdownRefused
    BY <1>15 DEF IInv, Types, TypeBoot, TypeDb, CleanGround, NoPoisonedBase, GoodSnaps,
         ghost, disk, ShutdownRefused, Spend, Off
  <1>16. CASE EraseAppend
    BY <1>16 DEF IInv, Types, TypeBoot, TypeDb, CleanGround, NoPoisonedBase, GoodSnaps,
         ghost, disk, EraseAppend, Writing, FreshIds
  <1>17. CASE EraseCommit
    BY <1>17 DEF IInv, Types, TypeBoot, TypeDb, CleanGround, NoPoisonedBase, GoodSnaps,
         ghost, disk, EraseCommit, Purged
  <1>18. CASE CreateSnapshot
    BY <1>18 DEF IInv, Types, TypeBoot, TypeDb, CleanGround, NoPoisonedBase, GoodSnaps,
         ghost, disk, CreateSnapshot, Writing, Spend
  <1>19. CASE SnapshotMeta
    BY <1>19 DEF IInv, Types, TypeBoot, TypeDb, CleanGround, NoPoisonedBase, GoodSnaps,
         ghost, disk, SnapshotMeta, RotateSnapshots, Marked, FloodMark
  <1>20. CASE WriteCleanShutdown
    BY <1>20 DEF IInv, Types, TypeBoot, TypeDb, CleanGround, NoPoisonedBase, GoodSnaps,
         ghost, disk, WriteCleanShutdown, Flagged, Off
  <1>21. CASE OpenTorn
    BY <1>21 DEF IInv, Types, TypeBoot, TypeDb, CleanGround, NoPoisonedBase, GoodSnaps,
         ghost, disk, OpenTorn, Spend, Off
  <1>22. CASE Cut
    BY <1>22 DEF IInv, Types, TypeBoot, TypeDb, CleanGround, NoPoisonedBase, GoodSnaps,
         ghost, disk, Cut, Spend, Off
  <1>23. CASE DbDamaged
    BY <1>23 DEF IInv, Types, TypeBoot, TypeDb, CleanGround, NoPoisonedBase, GoodSnaps,
         ghost, disk, DbDamaged, Fault, Spend
  <1>24. CASE SqliteLost
    BY <1>24 DEF IInv, Types, TypeBoot, TypeDb, CleanGround, NoPoisonedBase, GoodSnaps,
         ghost, disk, SqliteLost, Fault, Spend
  <1>25. CASE SnapDamaged
    BY <1>25 DEF IInv, Types, TypeBoot, TypeDb, CleanGround, NoPoisonedBase, GoodSnaps,
         ghost, disk, SnapDamaged, Fault, Spend, Damaged
  <1>26. CASE MetaLost
    BY <1>26 DEF IInv, Types, TypeBoot, TypeDb, CleanGround, NoPoisonedBase, GoodSnaps,
         ghost, disk, MetaLost, Fault, Spend, Unmarked
  <1>27. CASE StreamDamaged
    BY <1>27 DEF IInv, Types, TypeBoot, TypeDb, CleanGround, NoPoisonedBase, GoodSnaps,
         ghost, disk, StreamDamaged, Fault, Spend
  <1>28. CASE WitnessLost
    BY <1>28 DEF IInv, Types, TypeBoot, TypeDb, CleanGround, NoPoisonedBase, GoodSnaps,
         ghost, disk, WitnessLost, Spend
  <1> QED
    BY <1>1, <1>2, <1>3, <1>4, <1>5, <1>6, <1>7, <1>8, <1>9, <1>10, <1>11, <1>12, <1>13,
         <1>14, <1>15, <1>16, <1>17, <1>18, <1>19, <1>20, <1>21, <1>22, <1>23, <1>24, <1>25,
         <1>26, <1>27, <1>28 DEF Next, BootStep, Refusal, Session, Environment

\* Every step keeps a witness of the life, if at most one is ever lost.
LEMMA OneBirthStep ==
  ASSUME IInv, OneBirth, Next
  PROVE  OneBirth'
  <1>1. CASE Gate
    BY <1>1 DEF IInv, Types, TypeBoot, TypeLeft, OneBirth, NeverBornAgain, ghost, disk,
         Gate, IntegrityGate, Poisoned, HasAnyLifeWitness, Off
  <1>2. CASE RestoreNothing
    BY <1>2 DEF IInv, Types, TypeBoot, TypeLeft, OneBirth, NeverBornAgain, ghost, disk,
         RestoreNothing, Blocked, Tell, Off
  <1>3. CASE RestoreArchive
    BY <1>3 DEF IInv, Types, TypeBoot, TypeLeft, OneBirth, NeverBornAgain, ghost, disk,
         RestoreArchive
  <1>4. CASE RestoreEvacuate
    BY <1>4 DEF IInv, Types, TypeBoot, TypeLeft, OneBirth, NeverBornAgain, ghost, disk,
         RestoreEvacuate
  <1>5. CASE RestoreCover
    BY <1>5 DEF IInv, Types, TypeBoot, TypeLeft, OneBirth, NeverBornAgain, ghost, disk,
         RestoreCover
  <1>6. CASE RestoreCommit
    BY <1>6 DEF IInv, Types, TypeBoot, TypeLeft, OneBirth, NeverBornAgain, ghost, disk,
         RestoreCommit
  <1>7. CASE OpenDatabase
    BY <1>7 DEF IInv, Types, TypeBoot, TypeLeft, OneBirth, NeverBornAgain, ghost, disk,
         OpenDatabase, Opened, Blank, MustExist
  <1>8. CASE Arm
    BY <1>8 DEF IInv, Types, TypeBoot, TypeLeft, OneBirth, NeverBornAgain, ghost, disk, Arm,
         Woken, Wake, Flagged
  <1>9. CASE WriteBornMarker
    BY <1>9 DEF IInv, Types, TypeBoot, TypeLeft, OneBirth, NeverBornAgain, ghost, disk,
         WriteBornMarker, Spend
  <1>10. CASE DbOk
    BY <1>10 DEF IInv, Types, TypeBoot, TypeLeft, OneBirth, NeverBornAgain, ghost, disk,
         DbOk, Spend
  <1>11. CASE GateUnsure
    BY <1>11 DEF IInv, Types, TypeBoot, TypeLeft, OneBirth, NeverBornAgain, ghost, disk,
         GateUnsure, Spend, Off
  <1>12. CASE RestoreAbandon
    BY <1>12 DEF IInv, Types, TypeBoot, TypeLeft, OneBirth, NeverBornAgain, ghost, disk,
         RestoreAbandon, Spend, Blocked, Off
  <1>13. CASE OpenRefused
    BY <1>13 DEF IInv, Types, TypeBoot, TypeLeft, OneBirth, NeverBornAgain, ghost, disk,
         OpenRefused, Spend, Blocked, MustExist, Off
  <1>14. CASE ArmRefused
    <2>1. left'.lost = left.lost /\ (audit => audit')
      BY <1>14 DEF IInv, Types, TypeLeft, ArmRefused, Spend
    <2>2. UNCHANGED <<born, lived>>
      BY <1>14, ArmFrame, Zenon DEF IInv
    <2>3. /\ boot.pc = "arm" /\ boot'.pc \in {"dbok", "off"}
          /\ boot'.pc = "dbok" => boot'.sansEcriture /\ boot'.verdict = boot.verdict
      BY <1>14, ArmOutcome DEF IInv, Types
    <2>4. NeverBornAgain'
      BY <2>1, <2>2, <2>3 DEF OneBirth, NeverBornAgain
    <2> QED BY <2>1, <2>2, <2>3, <2>4 DEF OneBirth
  <1>15. CASE ShutdownRefused
    BY <1>15 DEF IInv, Types, TypeBoot, TypeLeft, OneBirth, NeverBornAgain, ghost, disk,
         ShutdownRefused, Spend, Off
  <1>16. CASE EraseAppend
    BY <1>16 DEF IInv, Types, TypeBoot, TypeLeft, OneBirth, NeverBornAgain, ghost, disk,
         EraseAppend, Writing, FreshIds
  <1>17. CASE EraseCommit
    BY <1>17 DEF IInv, Types, TypeBoot, TypeLeft, OneBirth, NeverBornAgain, ghost, disk,
         EraseCommit, Purged
  <1>18. CASE CreateSnapshot
    BY <1>18 DEF IInv, Types, TypeBoot, TypeLeft, OneBirth, NeverBornAgain, ghost, disk,
         CreateSnapshot, Writing, Spend
  <1>19. CASE SnapshotMeta
    BY <1>19 DEF IInv, Types, TypeBoot, TypeLeft, OneBirth, NeverBornAgain, ghost, disk,
         SnapshotMeta, RotateSnapshots, Marked, FloodMark
  <1>20. CASE WriteCleanShutdown
    BY <1>20 DEF IInv, Types, TypeBoot, TypeLeft, OneBirth, NeverBornAgain, ghost, disk,
         WriteCleanShutdown, Flagged, Off
  <1>21. CASE OpenTorn
    BY <1>21 DEF IInv, Types, TypeBoot, TypeLeft, OneBirth, NeverBornAgain, ghost, disk,
         OpenTorn, Spend, Off
  <1>22. CASE Cut
    BY <1>22 DEF IInv, Types, TypeBoot, TypeLeft, OneBirth, NeverBornAgain, ghost, disk,
         Cut, Spend, Off
  <1>23. CASE DbDamaged
    BY <1>23 DEF IInv, Types, TypeBoot, TypeLeft, OneBirth, NeverBornAgain, ghost, disk,
         DbDamaged, Fault, Spend
  <1>24. CASE SqliteLost
    BY <1>24 DEF IInv, Types, TypeBoot, TypeLeft, OneBirth, NeverBornAgain, ghost, disk,
         SqliteLost, Fault, Spend
  <1>25. CASE SnapDamaged
    BY <1>25 DEF IInv, Types, TypeBoot, TypeLeft, OneBirth, NeverBornAgain, ghost, disk,
         SnapDamaged, Fault, Spend, Damaged
  <1>26. CASE MetaLost
    BY <1>26 DEF IInv, Types, TypeBoot, TypeLeft, OneBirth, NeverBornAgain, ghost, disk,
         MetaLost, Fault, Spend, Unmarked
  <1>27. CASE StreamDamaged
    BY <1>27 DEF IInv, Types, TypeBoot, TypeLeft, OneBirth, NeverBornAgain, ghost, disk,
         StreamDamaged, Fault, Spend
  <1>28. CASE WitnessLost
    BY <1>28 DEF IInv, Types, TypeBoot, TypeLeft, OneBirth, NeverBornAgain, ghost, disk,
         WitnessLost, Spend
  <1> QED
    BY <1>1, <1>2, <1>3, <1>4, <1>5, <1>6, <1>7, <1>8, <1>9, <1>10, <1>11, <1>12, <1>13,
         <1>14, <1>15, <1>16, <1>17, <1>18, <1>19, <1>20, <1>21, <1>22, <1>23, <1>24, <1>25,
         <1>26, <1>27, <1>28 DEF Next, BootStep, Refusal, Session, Environment

\* Every step keeps the flag honest.
LEMMA FlagSpeaksStep ==
  ASSUME IInv, Next
  PROVE  FlagSpeaks'
  <1>1. CASE Gate
    BY <1>1 DEF IInv, Types, TypeBoot, TypeDb, FlagSpeaks, Pcs, ghost, disk, Gate,
         IntegrityGate, Poisoned, HasAnyLifeWitness, Off
  <1>2. CASE RestoreNothing
    BY <1>2 DEF IInv, Types, TypeBoot, TypeDb, FlagSpeaks, Pcs, ghost, disk, RestoreNothing,
         Blocked, Tell, Off
  <1>3. CASE RestoreArchive
    BY <1>3 DEF IInv, Types, TypeBoot, TypeDb, FlagSpeaks, Pcs, ghost, disk, RestoreArchive
  <1>4. CASE RestoreEvacuate
    BY <1>4 DEF IInv, Types, TypeBoot, TypeDb, FlagSpeaks, Pcs, ghost, disk, RestoreEvacuate
  <1>5. CASE RestoreCover
    BY <1>5 DEF IInv, Types, TypeBoot, TypeDb, FlagSpeaks, Pcs, ghost, disk, RestoreCover
  <1>6. CASE RestoreCommit
    <2>1. snaps[Newest].c.running = 1
      BY <1>6, NewestIsGood DEF IInv, Types, TypeSnaps, CleanGround, FlagSpeaks, RestoreCommit
    <2>2. /\ db'.c = snaps[Newest].c /\ UNCHANGED <<snaps, ghost>>
          /\ boot'.pc = "open" /\ boot'.wake = boot.wake /\ boot.pc = "commit"
      BY <1>6 DEF IInv, Types, TypeBoot, RestoreCommit
    <2> QED BY <2>1, <2>2 DEF IInv, FlagSpeaks, Pcs, ghost
  <1>7. CASE OpenDatabase
    BY <1>7 DEF IInv, Types, TypeBoot, TypeDb, FlagSpeaks, Pcs, ghost, disk, OpenDatabase,
         Opened, Blank, MustExist
  <1>8. CASE Arm
    <2>1. /\ boot.pc = "arm" /\ boot'.pc \in {"born", "dbok", "off"}
          /\ boot'.pc = "off" => boot'.wake = "none"
          /\ boot'.pc = "born" => ~boot'.sansEcriture
          /\ boot'.pc # "off" /\ ~Arm => boot'.sansEcriture
      BY <1>8, ArmOutcome, Zenon DEF IInv, Types
    <2>2. UNCHANGED <<snaps, lived>> /\ db'.kind = db.kind /\ db'.c.life = db.c.life
      BY <1>8, ArmFrame, Zenon DEF IInv
    <2>3. CASE Arm
      <3>1. db'.c.running = 1
        BY <2>3, ArmFrame, Zenon DEF IInv
      <3> QED BY <2>1, <2>2, <3>1 DEF IInv, FlagSpeaks, Pcs
    <2>4. CASE ~Arm
      <3>1. UNCHANGED <<db, cleanEnd>>
        BY <1>8, <2>4, ArmFrame, Zenon DEF IInv
      <3> QED BY <2>1, <2>2, <2>4, <3>1 DEF IInv, FlagSpeaks, Pcs
    <2> QED BY <2>3, <2>4
  <1>9. CASE WriteBornMarker
    BY <1>9 DEF IInv, Types, TypeBoot, TypeDb, FlagSpeaks, Pcs, ghost, disk,
         WriteBornMarker, Spend
  <1>10. CASE DbOk
    BY <1>10 DEF IInv, Types, TypeBoot, TypeDb, FlagSpeaks, Pcs, ghost, disk, DbOk, Spend
  <1>11. CASE GateUnsure
    BY <1>11 DEF IInv, Types, TypeBoot, TypeDb, FlagSpeaks, Pcs, ghost, disk, GateUnsure,
         Spend, Off
  <1>12. CASE RestoreAbandon
    BY <1>12 DEF IInv, Types, TypeBoot, TypeDb, FlagSpeaks, Pcs, ghost, disk,
         RestoreAbandon, Spend, Blocked, Off
  <1>13. CASE OpenRefused
    BY <1>13 DEF IInv, Types, TypeBoot, TypeDb, FlagSpeaks, Pcs, ghost, disk, OpenRefused,
         Spend, Blocked, MustExist, Off
  <1>14. CASE ArmRefused
    <2>1. /\ boot.pc = "arm" /\ boot'.pc \in {"born", "dbok", "off"}
          /\ boot'.pc = "off" => boot'.wake = "none"
          /\ boot'.pc = "born" => ~boot'.sansEcriture
          /\ boot'.pc # "off" /\ ~Arm => boot'.sansEcriture
      BY <1>14, ArmOutcome, Zenon DEF IInv, Types
    <2>2. UNCHANGED <<snaps, lived>> /\ db'.kind = db.kind /\ db'.c.life = db.c.life
      BY <1>14, ArmFrame, Zenon DEF IInv
    <2>3. CASE Arm
      <3>1. db'.c.running = 1
        BY <2>3, ArmFrame, Zenon DEF IInv
      <3> QED BY <2>1, <2>2, <3>1 DEF IInv, FlagSpeaks, Pcs
    <2>4. CASE ~Arm
      <3>1. UNCHANGED <<db, cleanEnd>>
        BY <1>14, <2>4, ArmFrame, Zenon DEF IInv
      <3> QED BY <2>1, <2>2, <2>4, <3>1 DEF IInv, FlagSpeaks, Pcs
    <2> QED BY <2>3, <2>4
  <1>15. CASE ShutdownRefused
    BY <1>15 DEF IInv, Types, TypeBoot, TypeDb, FlagSpeaks, Pcs, ghost, disk,
         ShutdownRefused, Spend, Off
  <1>16. CASE EraseAppend
    BY <1>16 DEF IInv, Types, TypeBoot, TypeDb, FlagSpeaks, Pcs, ghost, disk, EraseAppend,
         Writing, FreshIds
  <1>17. CASE EraseCommit
    <2>1. boot'.pc = "ready" /\ boot'.sansEcriture = boot.sansEcriture
      BY <1>17 DEF IInv, Types, TypeBoot, EraseCommit
    <2> QED BY <1>17, <2>1, EraseOutcome DEF IInv, FlagSpeaks, Pcs, EraseCommit
  <1>18. CASE CreateSnapshot
    BY <1>18 DEF IInv, Types, TypeBoot, TypeDb, FlagSpeaks, Pcs, ghost, disk,
         CreateSnapshot, Writing, Spend
  <1>19. CASE SnapshotMeta
    <2>1. /\ boot'.pc = "ready" /\ boot'.sansEcriture = boot.sansEcriture
          /\ UNCHANGED <<db, ghost>> /\ boot.pc = "snapmeta"
      BY <1>19 DEF IInv, Types, TypeBoot, SnapshotMeta
    <2>2. \A i \in DOMAIN snaps' : i \in DOMAIN snaps /\ snaps'[i].c = snaps[i].c
      BY <1>19, MetaOutcome DEF IInv, Marked
    <2> QED BY <2>1, <2>2 DEF IInv, FlagSpeaks, Pcs, ghost
  <1>20. CASE WriteCleanShutdown
    BY <1>20 DEF IInv, Types, TypeBoot, TypeDb, FlagSpeaks, Pcs, ghost, disk,
         WriteCleanShutdown, Flagged, Off
  <1>21. CASE OpenTorn
    BY <1>21 DEF IInv, Types, TypeBoot, TypeDb, FlagSpeaks, Pcs, ghost, disk, OpenTorn,
         Spend, Off
  <1>22. CASE Cut
    BY <1>22 DEF IInv, Types, TypeBoot, TypeDb, FlagSpeaks, Pcs, ghost, disk, Cut, Spend,
         Off
  <1>23. CASE DbDamaged
    BY <1>23 DEF IInv, Types, TypeBoot, TypeDb, FlagSpeaks, Pcs, ghost, disk, DbDamaged,
         Fault, Spend
  <1>24. CASE SqliteLost
    BY <1>24 DEF IInv, Types, TypeBoot, TypeDb, FlagSpeaks, Pcs, ghost, disk, SqliteLost,
         Fault, Spend
  <1>25. CASE SnapDamaged
    BY <1>25 DEF IInv, Types, TypeBoot, TypeDb, FlagSpeaks, Pcs, ghost, disk, SnapDamaged,
         Fault, Spend, Damaged
  <1>26. CASE MetaLost
    BY <1>26 DEF IInv, Types, TypeBoot, TypeDb, FlagSpeaks, Pcs, ghost, disk, MetaLost,
         Fault, Spend, Unmarked
  <1>27. CASE StreamDamaged
    BY <1>27 DEF IInv, Types, TypeBoot, TypeDb, FlagSpeaks, Pcs, ghost, disk, StreamDamaged,
         Fault, Spend
  <1>28. CASE WitnessLost
    BY <1>28 DEF IInv, Types, TypeBoot, TypeDb, FlagSpeaks, Pcs, ghost, disk, WitnessLost,
         Spend
  <1> QED
    BY <1>1, <1>2, <1>3, <1>4, <1>5, <1>6, <1>7, <1>8, <1>9, <1>10, <1>11, <1>12, <1>13,
         <1>14, <1>15, <1>16, <1>17, <1>18, <1>19, <1>20, <1>21, <1>22, <1>23, <1>24, <1>25,
         <1>26, <1>27, <1>28 DEF Next, BootStep, Refusal, Session, Environment

\* Every step keeps the erasures in a life and in its base.
LEMMA InLifeStep ==
  ASSUME IInv, Next
  PROVE  InLife'
  <1>1. CASE Gate
    BY <1>1 DEF IInv, Types, TypeBoot, TypeDb, FlagSpeaks, InLife, ghost, disk, Gate,
         IntegrityGate, Poisoned, HasAnyLifeWitness, Off
  <1>2. CASE RestoreNothing
    BY <1>2 DEF IInv, Types, TypeBoot, TypeDb, FlagSpeaks, InLife, ghost, disk,
         RestoreNothing, Blocked, Tell, Off
  <1>3. CASE RestoreArchive
    BY <1>3 DEF IInv, Types, TypeBoot, TypeDb, FlagSpeaks, InLife, ghost, disk,
         RestoreArchive
  <1>4. CASE RestoreEvacuate
    BY <1>4 DEF IInv, Types, TypeBoot, TypeDb, FlagSpeaks, InLife, ghost, disk,
         RestoreEvacuate
  <1>5. CASE RestoreCover
    BY <1>5 DEF IInv, Types, TypeBoot, TypeDb, FlagSpeaks, InLife, ghost, disk, RestoreCover
  <1>6. CASE RestoreCommit
    BY <1>6 DEF IInv, Types, TypeBoot, TypeDb, FlagSpeaks, InLife, ghost, disk,
         RestoreCommit
  <1>7. CASE OpenDatabase
    BY <1>7 DEF IInv, Types, TypeBoot, TypeDb, FlagSpeaks, InLife, ghost, disk,
         OpenDatabase, Opened, Blank, MustExist
  <1>8. CASE Arm
    BY <1>8, ArmOutcome, ArmFrame DEF IInv, Types, InLife
  <1>9. CASE WriteBornMarker
    BY <1>9 DEF IInv, Types, TypeBoot, TypeDb, FlagSpeaks, InLife, ghost, disk,
         WriteBornMarker, Spend
  <1>10. CASE DbOk
    BY <1>10 DEF IInv, Types, TypeBoot, TypeDb, FlagSpeaks, InLife, ghost, disk, DbOk, Spend
  <1>11. CASE GateUnsure
    BY <1>11 DEF IInv, Types, TypeBoot, TypeDb, FlagSpeaks, InLife, ghost, disk, GateUnsure,
         Spend, Off
  <1>12. CASE RestoreAbandon
    BY <1>12 DEF IInv, Types, TypeBoot, TypeDb, FlagSpeaks, InLife, ghost, disk,
         RestoreAbandon, Spend, Blocked, Off
  <1>13. CASE OpenRefused
    BY <1>13 DEF IInv, Types, TypeBoot, TypeDb, FlagSpeaks, InLife, ghost, disk,
         OpenRefused, Spend, Blocked, MustExist, Off
  <1>14. CASE ArmRefused
    BY <1>14, ArmOutcome, ArmFrame DEF IInv, Types, InLife
  <1>15. CASE ShutdownRefused
    BY <1>15 DEF IInv, Types, TypeBoot, TypeDb, FlagSpeaks, InLife, ghost, disk,
         ShutdownRefused, Spend, Off
  <1>16. CASE EraseAppend
    BY <1>16 DEF IInv, Types, TypeBoot, TypeDb, FlagSpeaks, InLife, ghost, disk,
         EraseAppend, Writing, FreshIds
  <1>17. CASE EraseCommit
    BY <1>17 DEF IInv, Types, TypeBoot, TypeDb, FlagSpeaks, InLife, ghost, disk,
         EraseCommit, Purged
  <1>18. CASE CreateSnapshot
    BY <1>18 DEF IInv, Types, TypeBoot, TypeDb, FlagSpeaks, InLife, ghost, disk,
         CreateSnapshot, Writing, Spend
  <1>19. CASE SnapshotMeta
    BY <1>19 DEF IInv, Types, TypeBoot, TypeDb, FlagSpeaks, InLife, ghost, disk,
         SnapshotMeta, RotateSnapshots, Marked, FloodMark
  <1>20. CASE WriteCleanShutdown
    BY <1>20 DEF IInv, Types, TypeBoot, TypeDb, FlagSpeaks, InLife, ghost, disk,
         WriteCleanShutdown, Flagged, Off
  <1>21. CASE OpenTorn
    BY <1>21 DEF IInv, Types, TypeBoot, TypeDb, FlagSpeaks, InLife, ghost, disk, OpenTorn,
         Spend, Off
  <1>22. CASE Cut
    BY <1>22 DEF IInv, Types, TypeBoot, TypeDb, FlagSpeaks, InLife, ghost, disk, Cut, Spend,
         Off
  <1>23. CASE DbDamaged
    BY <1>23 DEF IInv, Types, TypeBoot, TypeDb, FlagSpeaks, InLife, ghost, disk, DbDamaged,
         Fault, Spend
  <1>24. CASE SqliteLost
    BY <1>24 DEF IInv, Types, TypeBoot, TypeDb, FlagSpeaks, InLife, ghost, disk, SqliteLost,
         Fault, Spend
  <1>25. CASE SnapDamaged
    BY <1>25 DEF IInv, Types, TypeBoot, TypeDb, FlagSpeaks, InLife, ghost, disk,
         SnapDamaged, Fault, Spend, Damaged
  <1>26. CASE MetaLost
    BY <1>26 DEF IInv, Types, TypeBoot, TypeDb, FlagSpeaks, InLife, ghost, disk, MetaLost,
         Fault, Spend, Unmarked
  <1>27. CASE StreamDamaged
    BY <1>27 DEF IInv, Types, TypeBoot, TypeDb, FlagSpeaks, InLife, ghost, disk,
         StreamDamaged, Fault, Spend
  <1>28. CASE WitnessLost
    BY <1>28 DEF IInv, Types, TypeBoot, TypeDb, FlagSpeaks, InLife, ghost, disk,
         WitnessLost, Spend
  <1> QED
    BY <1>1, <1>2, <1>3, <1>4, <1>5, <1>6, <1>7, <1>8, <1>9, <1>10, <1>11, <1>12, <1>13,
         <1>14, <1>15, <1>16, <1>17, <1>18, <1>19, <1>20, <1>21, <1>22, <1>23, <1>24, <1>25,
         <1>26, <1>27, <1>28 DEF Next, BootStep, Refusal, Session, Environment

\* Every step keeps the stream complete above each of its members.
LEMMA StreamCoversStep ==
  ASSUME IInv, Next
  PROVE  StreamCovers'
  <1>1. CASE Gate
    BY <1>1 DEF IInv, Types, TypeBoot, TypeErase, StreamCovers, LastId, ghost, disk, Gate,
         IntegrityGate, Poisoned, HasAnyLifeWitness, Off
  <1>2. CASE RestoreNothing
    BY <1>2 DEF IInv, Types, TypeBoot, TypeErase, StreamCovers, LastId, ghost, disk,
         RestoreNothing, Blocked, Tell, Off
  <1>3. CASE RestoreArchive
    BY <1>3 DEF IInv, Types, TypeBoot, TypeErase, StreamCovers, LastId, ghost, disk,
         RestoreArchive
  <1>4. CASE RestoreEvacuate
    BY <1>4 DEF IInv, Types, TypeBoot, TypeErase, StreamCovers, LastId, ghost, disk,
         RestoreEvacuate
  <1>5. CASE RestoreCover
    BY <1>5 DEF IInv, Types, TypeBoot, TypeErase, StreamCovers, LastId, ghost, disk,
         RestoreCover
  <1>6. CASE RestoreCommit
    BY <1>6 DEF IInv, Types, TypeBoot, TypeErase, StreamCovers, LastId, ghost, disk,
         RestoreCommit
  <1>7. CASE OpenDatabase
    BY <1>7 DEF IInv, Types, TypeBoot, TypeErase, StreamCovers, LastId, ghost, disk,
         OpenDatabase, Opened, Blank, MustExist
  <1>8. CASE Arm
    BY <1>8, ArmOutcome, ArmFrame DEF IInv, Types, StreamCovers
  <1>9. CASE WriteBornMarker
    BY <1>9 DEF IInv, Types, TypeBoot, TypeErase, StreamCovers, LastId, ghost, disk,
         WriteBornMarker, Spend
  <1>10. CASE DbOk
    BY <1>10 DEF IInv, Types, TypeBoot, TypeErase, StreamCovers, LastId, ghost, disk, DbOk,
         Spend
  <1>11. CASE GateUnsure
    BY <1>11 DEF IInv, Types, TypeBoot, TypeErase, StreamCovers, LastId, ghost, disk,
         GateUnsure, Spend, Off
  <1>12. CASE RestoreAbandon
    BY <1>12 DEF IInv, Types, TypeBoot, TypeErase, StreamCovers, LastId, ghost, disk,
         RestoreAbandon, Spend, Blocked, Off
  <1>13. CASE OpenRefused
    BY <1>13 DEF IInv, Types, TypeBoot, TypeErase, StreamCovers, LastId, ghost, disk,
         OpenRefused, Spend, Blocked, MustExist, Off
  <1>14. CASE ArmRefused
    BY <1>14, ArmOutcome, ArmFrame DEF IInv, Types, StreamCovers
  <1>15. CASE ShutdownRefused
    BY <1>15 DEF IInv, Types, TypeBoot, TypeErase, StreamCovers, LastId, ghost, disk,
         ShutdownRefused, Spend, Off
  <1>16. CASE EraseAppend
    <2>1. PICK id \in FreshIds :
             stream' = [state |-> IF stream.state = "corrupt" THEN "corrupt" ELSE "ok",
                        ids |-> stream.ids \union {id}]
      BY <1>16 DEF EraseAppend
    <2>2. /\ id \in Ids /\ \A e \in erased : e < id
          /\ \A i \in DOMAIN snaps : snaps[i].crue < id
      BY <2>1 DEF FreshIds, UsedIds
    <2>3. stream'.ids = stream.ids \union {id} /\ stream'.ids \subseteq Ids
      BY <2>1, <2>2 DEF IInv, Types, TypeErase
    <2>4. LastId' \in stream'.ids /\ id <= LastId'
      BY <2>3, LatestIsLast DEF LastId
    <2>5. \A i \in DOMAIN snaps : snaps[i].crue \in Nat
      BY SnapTypes DEF IInv
    <2>6. \A i \in DOMAIN snaps : snaps[i].crue < LastId'
      BY <2>2, <2>3, <2>4, <2>5 DEF Ids
    <2>7. \A e \in erased, n \in stream'.ids : e > n => e \in stream'.ids
      <3>1. \A e \in erased : ~(e > id)
        BY <2>2, BoundsAssumption DEF IInv, Types, TypeErase, Ids
      <3> QED BY <2>3, <3>1 DEF IInv, StreamCovers
    <2> QED BY <1>16, <2>3, <2>6, <2>7 DEF StreamCovers, EraseAppend, ghost
  <1>17. CASE EraseCommit
    <2>1. boot'.pc = "ready" /\ UNCHANGED stream /\ erased' = erased \union {LastId}
      BY <1>17 DEF IInv, Types, TypeBoot, EraseCommit
    <2> QED BY <1>17, <2>1, EraseOutcome DEF IInv, StreamCovers
  <1>18. CASE CreateSnapshot
    BY <1>18 DEF IInv, Types, TypeBoot, TypeErase, StreamCovers, LastId, ghost, disk,
         CreateSnapshot, Writing, Spend
  <1>19. CASE SnapshotMeta
    BY <1>19 DEF IInv, Types, TypeBoot, TypeErase, StreamCovers, LastId, ghost, disk,
         SnapshotMeta, RotateSnapshots, Marked, FloodMark
  <1>20. CASE WriteCleanShutdown
    BY <1>20 DEF IInv, Types, TypeBoot, TypeErase, StreamCovers, LastId, ghost, disk,
         WriteCleanShutdown, Flagged, Off
  <1>21. CASE OpenTorn
    BY <1>21 DEF IInv, Types, TypeBoot, TypeErase, StreamCovers, LastId, ghost, disk,
         OpenTorn, Spend, Off
  <1>22. CASE Cut
    BY <1>22 DEF IInv, Types, TypeBoot, TypeErase, StreamCovers, LastId, ghost, disk, Cut,
         Spend, Off
  <1>23. CASE DbDamaged
    BY <1>23 DEF IInv, Types, TypeBoot, TypeErase, StreamCovers, LastId, ghost, disk,
         DbDamaged, Fault, Spend
  <1>24. CASE SqliteLost
    BY <1>24 DEF IInv, Types, TypeBoot, TypeErase, StreamCovers, LastId, ghost, disk,
         SqliteLost, Fault, Spend
  <1>25. CASE SnapDamaged
    BY <1>25 DEF IInv, Types, TypeBoot, TypeErase, StreamCovers, LastId, ghost, disk,
         SnapDamaged, Fault, Spend, Damaged
  <1>26. CASE MetaLost
    BY <1>26 DEF IInv, Types, TypeBoot, TypeErase, StreamCovers, LastId, ghost, disk,
         MetaLost, Fault, Spend, Unmarked
  <1>27. CASE StreamDamaged
    BY <1>27 DEF IInv, Types, TypeBoot, TypeErase, StreamCovers, LastId, ghost, disk,
         StreamDamaged, Fault, Spend
  <1>28. CASE WitnessLost
    BY <1>28 DEF IInv, Types, TypeBoot, TypeErase, StreamCovers, LastId, ghost, disk,
         WitnessLost, Spend
  <1> QED
    BY <1>1, <1>2, <1>3, <1>4, <1>5, <1>6, <1>7, <1>8, <1>9, <1>10, <1>11, <1>12, <1>13,
         <1>14, <1>15, <1>16, <1>17, <1>18, <1>19, <1>20, <1>21, <1>22, <1>23, <1>24, <1>25,
         <1>26, <1>27, <1>28 DEF Next, BootStep, Refusal, Session, Environment

\* Every step that opens a gap leaves a doubt on record.
LEMMA NoDoubtNoGapStep ==
  ASSUME IInv, Next
  PROVE  NoDoubtNoGap'
  <1>1. CASE Gate
    BY <1>1 DEF IInv, Types, TypeBoot, TypeDb, TypeErase, NoDoubtNoGap, ghost, disk, Gate,
         IntegrityGate, Poisoned, HasAnyLifeWitness, Off
  <1>2. CASE RestoreNothing
    BY <1>2 DEF IInv, Types, TypeBoot, TypeDb, TypeErase, NoDoubtNoGap, ghost, disk,
         RestoreNothing, Blocked, Tell, Off
  <1>3. CASE RestoreArchive
    BY <1>3 DEF IInv, Types, TypeBoot, TypeDb, TypeErase, NoDoubtNoGap, ghost, disk,
         RestoreArchive
  <1>4. CASE RestoreEvacuate
    BY <1>4 DEF IInv, Types, TypeBoot, TypeDb, TypeErase, NoDoubtNoGap, ghost, disk,
         RestoreEvacuate
  <1>5. CASE RestoreCover
    <2> DEFINE s == snaps[Newest]
    <2>1. UNCHANGED <<db, snaps, erased>> /\ sentinel' = (sentinel \/ ErasureDoubt(s))
      BY <1>5 DEF RestoreCover, ghost
    <2>2. Newest \in DOMAIN snaps /\ s.crue \in Nat
      BY <1>5, NewestIsGood, BoundsAssumption
         DEF IInv, Types, TypeSnaps, CleanGround, RestoreCover, Snapshot
    <2>3. ASSUME ~sentinel' PROVE erased \subseteq s.c.gone
      <3>1. /\ s.meta /\ stream.state = "ok" /\ \A i \in stream.ids : ~(i > s.crue)
            /\ s.crue = 0 \/ s.crue \in stream.ids
        BY <2>1, <2>3 DEF ErasureDoubt, IInv, Types, TypeErase
      <3>2. s.crue \in stream.ids
        BY <2>2, <3>1 DEF IInv, Types, TypeErase, StreamCovers, Ids
      <3>3. \A e \in erased : e <= s.crue
        BY <2>2, <3>1, <3>2 DEF IInv, Types, TypeErase, StreamCovers, Ids
      <3> QED BY <2>1, <2>2, <2>3, <3>1, <3>3 DEF IInv, NoDoubtNoGap
    <2> QED BY <2>1, <2>3 DEF IInv, NoDoubtNoGap, Newest, GoodSnaps
  <1>6. CASE RestoreCommit
    BY <1>6 DEF IInv, Types, TypeBoot, TypeDb, TypeErase, NoDoubtNoGap, ghost, disk,
         RestoreCommit
  <1>7. CASE OpenDatabase
    <2>1. db' = Opened /\ boot'.pc = "arm" /\ UNCHANGED <<snaps, sentinel, erased>>
      BY <1>7 DEF OpenDatabase, ghost, IInv, Types, TypeBoot
    <2>2. erased \subseteq Blank(~lived).gone
      BY DEF IInv, Types, TypeErase, InLife, Blank
    <2>3. db'.kind = "sound" => db'.c \in {db.c, Blank(~lived)} /\ (db'.c = db.c => db.kind = "sound" \/ db.c = Blank(~lived))
      BY <2>1 DEF IInv, Types, TypeDb, Opened
    <2> QED BY <2>1, <2>2, <2>3 DEF IInv, NoDoubtNoGap
  <1>8. CASE Arm
    BY <1>8, ArmOutcome, ArmFrame DEF IInv, Types, NoDoubtNoGap
  <1>9. CASE WriteBornMarker
    BY <1>9 DEF IInv, Types, TypeBoot, TypeDb, TypeErase, NoDoubtNoGap, ghost, disk,
         WriteBornMarker, Spend
  <1>10. CASE DbOk
    BY <1>10 DEF IInv, Types, TypeBoot, TypeDb, TypeErase, NoDoubtNoGap, ghost, disk, DbOk,
         Spend
  <1>11. CASE GateUnsure
    BY <1>11 DEF IInv, Types, TypeBoot, TypeDb, TypeErase, NoDoubtNoGap, ghost, disk,
         GateUnsure, Spend, Off
  <1>12. CASE RestoreAbandon
    BY <1>12 DEF IInv, Types, TypeBoot, TypeDb, TypeErase, NoDoubtNoGap, ghost, disk,
         RestoreAbandon, Spend, Blocked, Off
  <1>13. CASE OpenRefused
    BY <1>13 DEF IInv, Types, TypeBoot, TypeDb, TypeErase, NoDoubtNoGap, ghost, disk,
         OpenRefused, Spend, Blocked, MustExist, Off
  <1>14. CASE ArmRefused
    BY <1>14, ArmOutcome, ArmFrame DEF IInv, Types, NoDoubtNoGap
  <1>15. CASE ShutdownRefused
    BY <1>15 DEF IInv, Types, TypeBoot, TypeDb, TypeErase, NoDoubtNoGap, ghost, disk,
         ShutdownRefused, Spend, Off
  <1>16. CASE EraseAppend
    BY <1>16 DEF IInv, Types, TypeBoot, TypeDb, TypeErase, NoDoubtNoGap, ghost, disk,
         EraseAppend, Writing, FreshIds
  <1>17. CASE EraseCommit
    <2>1. /\ boot'.pc = "ready" /\ UNCHANGED <<snaps, sentinel>>
          /\ erased' = erased \union {LastId} /\ boot.pc = "erasing"
      BY <1>17 DEF IInv, Types, TypeBoot, EraseCommit
    <2>2. \A i \in DOMAIN snaps : ~(LastId <= snaps[i].crue)
      <3>1. \A i \in DOMAIN snaps : snaps[i].crue \in Nat
        BY SnapTypes DEF IInv
      <3>2. LastId \in Nat
        BY <1>17, EraseOutcome DEF IInv, Ids
      <3> QED BY <2>1, <3>1, <3>2 DEF IInv, StreamCovers
    <2> QED BY <1>17, <2>1, <2>2, EraseOutcome DEF IInv, NoDoubtNoGap
  <1>18. CASE CreateSnapshot
    BY <1>18 DEF IInv, Types, TypeBoot, TypeDb, TypeErase, NoDoubtNoGap, ghost, disk,
         CreateSnapshot, Writing, Spend
  <1>19. CASE SnapshotMeta
    <2>1. /\ boot'.pc = "ready" /\ UNCHANGED <<db, sentinel, erased>>
          /\ boot.pc = "snapmeta"
      BY <1>19 DEF IInv, Types, TypeBoot, SnapshotMeta, ghost
    <2>2. Marked(snaps[1]).c = db.c /\ db.kind = "sound"
      BY <2>1 DEF IInv, InLife, Marked
    <2> QED BY <1>19, <2>1, <2>2, MetaOutcome DEF IInv, NoDoubtNoGap
  <1>20. CASE WriteCleanShutdown
    <2>1. db'.kind = db.kind /\ db'.c.gone = db.c.gone
      BY <1>20, Zenon DEF IInv, Types, TypeDb, Contents, WriteCleanShutdown, Flagged
    <2> QED BY <1>20, <2>1 DEF IInv, NoDoubtNoGap, WriteCleanShutdown, Off
  <1>21. CASE OpenTorn
    BY <1>21 DEF IInv, Types, TypeBoot, TypeDb, TypeErase, NoDoubtNoGap, ghost, disk,
         OpenTorn, Spend, Off
  <1>22. CASE Cut
    BY <1>22 DEF IInv, Types, TypeBoot, TypeDb, TypeErase, NoDoubtNoGap, ghost, disk, Cut,
         Spend, Off
  <1>23. CASE DbDamaged
    BY <1>23 DEF IInv, Types, TypeBoot, TypeDb, TypeErase, NoDoubtNoGap, ghost, disk,
         DbDamaged, Fault, Spend
  <1>24. CASE SqliteLost
    BY <1>24 DEF IInv, Types, TypeBoot, TypeDb, TypeErase, NoDoubtNoGap, ghost, disk,
         SqliteLost, Fault, Spend
  <1>25. CASE SnapDamaged
    BY <1>25 DEF IInv, Types, TypeBoot, TypeDb, TypeErase, NoDoubtNoGap, ghost, disk,
         SnapDamaged, Fault, Spend, Damaged
  <1>26. CASE MetaLost
    BY <1>26 DEF IInv, Types, TypeBoot, TypeDb, TypeErase, NoDoubtNoGap, ghost, disk,
         MetaLost, Fault, Spend, Unmarked
  <1>27. CASE StreamDamaged
    BY <1>27 DEF IInv, Types, TypeBoot, TypeDb, TypeErase, NoDoubtNoGap, ghost, disk,
         StreamDamaged, Fault, Spend
  <1>28. CASE WitnessLost
    BY <1>28 DEF IInv, Types, TypeBoot, TypeDb, TypeErase, NoDoubtNoGap, ghost, disk,
         WitnessLost, Spend
  <1> QED
    BY <1>1, <1>2, <1>3, <1>4, <1>5, <1>6, <1>7, <1>8, <1>9, <1>10, <1>11, <1>12, <1>13,
         <1>14, <1>15, <1>16, <1>17, <1>18, <1>19, <1>20, <1>21, <1>22, <1>23, <1>24, <1>25,
         <1>26, <1>27, <1>28 DEF Next, BootStep, Refusal, Session, Environment

\* Every step keeps a doubt on record told in the session.
LEMMA DoubtToldStep ==
  ASSUME IInv, Next
  PROVE  DoubtTold'
  <1>1. CASE Gate
    BY <1>1 DEF IInv, Types, TypeBoot, DoubtTold, ghost, disk, Gate, IntegrityGate,
         Poisoned, HasAnyLifeWitness, Off
  <1>2. CASE RestoreNothing
    BY <1>2 DEF IInv, Types, TypeBoot, DoubtTold, ghost, disk, RestoreNothing, Blocked,
         Tell, Off
  <1>3. CASE RestoreArchive
    BY <1>3 DEF IInv, Types, TypeBoot, DoubtTold, ghost, disk, RestoreArchive
  <1>4. CASE RestoreEvacuate
    BY <1>4 DEF IInv, Types, TypeBoot, DoubtTold, ghost, disk, RestoreEvacuate
  <1>5. CASE RestoreCover
    BY <1>5 DEF IInv, Types, TypeBoot, DoubtTold, ghost, disk, RestoreCover
  <1>6. CASE RestoreCommit
    BY <1>6 DEF IInv, Types, TypeBoot, DoubtTold, ghost, disk, RestoreCommit
  <1>7. CASE OpenDatabase
    BY <1>7 DEF IInv, Types, TypeBoot, DoubtTold, ghost, disk, OpenDatabase, Opened, Blank,
         MustExist
  <1>8. CASE Arm
    BY <1>8, ArmOutcome, ArmFrame DEF IInv, Types, DoubtTold
  <1>9. CASE WriteBornMarker
    BY <1>9 DEF IInv, Types, TypeBoot, DoubtTold, ghost, disk, WriteBornMarker, Spend
  <1>10. CASE DbOk
    BY <1>10 DEF IInv, Types, TypeBoot, DoubtTold, ghost, disk, DbOk, Spend
  <1>11. CASE GateUnsure
    BY <1>11 DEF IInv, Types, TypeBoot, DoubtTold, ghost, disk, GateUnsure, Spend, Off
  <1>12. CASE RestoreAbandon
    BY <1>12 DEF IInv, Types, TypeBoot, DoubtTold, ghost, disk, RestoreAbandon, Spend,
         Blocked, Off
  <1>13. CASE OpenRefused
    BY <1>13 DEF IInv, Types, TypeBoot, DoubtTold, ghost, disk, OpenRefused, Spend, Blocked,
         MustExist, Off
  <1>14. CASE ArmRefused
    BY <1>14, ArmOutcome, ArmFrame DEF IInv, Types, DoubtTold
  <1>15. CASE ShutdownRefused
    BY <1>15 DEF IInv, Types, TypeBoot, DoubtTold, ghost, disk, ShutdownRefused, Spend, Off
  <1>16. CASE EraseAppend
    BY <1>16 DEF IInv, Types, TypeBoot, DoubtTold, ghost, disk, EraseAppend, Writing,
         FreshIds
  <1>17. CASE EraseCommit
    BY <1>17 DEF IInv, Types, TypeBoot, DoubtTold, ghost, disk, EraseCommit, Purged
  <1>18. CASE CreateSnapshot
    BY <1>18 DEF IInv, Types, TypeBoot, DoubtTold, ghost, disk, CreateSnapshot, Writing,
         Spend
  <1>19. CASE SnapshotMeta
    BY <1>19 DEF IInv, Types, TypeBoot, DoubtTold, ghost, disk, SnapshotMeta,
         RotateSnapshots, Marked, FloodMark
  <1>20. CASE WriteCleanShutdown
    BY <1>20 DEF IInv, Types, TypeBoot, DoubtTold, ghost, disk, WriteCleanShutdown, Flagged,
         Off
  <1>21. CASE OpenTorn
    BY <1>21 DEF IInv, Types, TypeBoot, DoubtTold, ghost, disk, OpenTorn, Spend, Off
  <1>22. CASE Cut
    BY <1>22 DEF IInv, Types, TypeBoot, DoubtTold, ghost, disk, Cut, Spend, Off
  <1>23. CASE DbDamaged
    BY <1>23 DEF IInv, Types, TypeBoot, DoubtTold, ghost, disk, DbDamaged, Fault, Spend
  <1>24. CASE SqliteLost
    BY <1>24 DEF IInv, Types, TypeBoot, DoubtTold, ghost, disk, SqliteLost, Fault, Spend
  <1>25. CASE SnapDamaged
    BY <1>25 DEF IInv, Types, TypeBoot, DoubtTold, ghost, disk, SnapDamaged, Fault, Spend,
         Damaged
  <1>26. CASE MetaLost
    BY <1>26 DEF IInv, Types, TypeBoot, DoubtTold, ghost, disk, MetaLost, Fault, Spend,
         Unmarked
  <1>27. CASE StreamDamaged
    BY <1>27 DEF IInv, Types, TypeBoot, DoubtTold, ghost, disk, StreamDamaged, Fault, Spend
  <1>28. CASE WitnessLost
    BY <1>28 DEF IInv, Types, TypeBoot, DoubtTold, ghost, disk, WitnessLost, Spend
  <1> QED
    BY <1>1, <1>2, <1>3, <1>4, <1>5, <1>6, <1>7, <1>8, <1>9, <1>10, <1>11, <1>12, <1>13,
         <1>14, <1>15, <1>16, <1>17, <1>18, <1>19, <1>20, <1>21, <1>22, <1>23, <1>24, <1>25,
         <1>26, <1>27, <1>28 DEF Next, BootStep, Refusal, Session, Environment

-----------------------------------------------------------------------------
(* The invariant and the theorems.                                         *)

\* A home where nobody has lived satisfies the invariant.
LEMMA InitInv == Init => IInv
  <1> SUFFICES ASSUME Init PROVE IInv
    OBVIOUS
  <1>1. TypeBoot /\ boot.pc = "off" /\ boot.wake = "none"
    BY Zenon DEF Init, TypeBoot, Off, Pcs
  <1>2. TypeDb
    BY Zenon DEF Init, TypeDb, Blank, Contents
  <1>3. TypeLeft /\ left.snaps = MaxSnaps
    BY BoundsAssumption DEF Init, TypeLeft
  <1>4. TypeErase
    BY <1>1 DEF Init, TypeErase
  <1>5. TypeSnaps
    BY <1>1, <1>3, BoundsAssumption DEF Init, TypeSnaps
  <1>6. HasBase /\ DoubtTold
    BY <1>1 DEF HasBase, DoubtTold
  <1>7. CleanGround
    BY <1>1 DEF Init, CleanGround, NoPoisonedBase
  <1>8. FlagSpeaks
    BY <1>1 DEF Init, FlagSpeaks
  <1>9. InLife /\ StreamCovers /\ NoDoubtNoGap
    BY <1>1 DEF Init, InLife, StreamCovers, NoDoubtNoGap
  <1> QED BY <1>1, <1>2, <1>3, <1>4, <1>5, <1>6, <1>7, <1>8, <1>9 DEF IInv, Types

\* Every step keeps the invariant.
LEMMA NextInv == IInv /\ [Next]_vars => IInv'
  <1>1. ASSUME IInv, Next PROVE IInv'
    <2>1. Types'
      BY <1>1, TypeBootStep, TypeDbStep, TypeLeftStep, TypeEraseStep, TypeSnapsStep,
         HasBaseStep DEF IInv, Types
    <2> QED BY <1>1, <2>1, CleanGroundStep, FlagSpeaksStep, InLifeStep,
               StreamCoversStep, NoDoubtNoGapStep, DoubtToldStep DEF IInv
  <1>2. ASSUME IInv, UNCHANGED vars PROVE IInv'
    <2>1. UNCHANGED <<db, wal, archived, snaps, stream, sentinel, born, audit, boot,
                      lived, cleanEnd, erased, left>>
      BY <1>2 DEF vars, disk, ghost
    <2>2. Types'
      BY <1>2, <2>1 DEF IInv, Types, TypeBoot, TypeDb, TypeLeft, TypeErase, TypeSnaps, HasBase
    <2>3. CleanGround' /\ FlagSpeaks'
      BY <1>2, <2>1 DEF IInv, CleanGround, NoPoisonedBase, GoodSnaps, FlagSpeaks
    <2>4. InLife' /\ StreamCovers' /\ DoubtTold'
      BY <1>2, <2>1 DEF IInv, InLife, StreamCovers, LastId, DoubtTold
    <2>5. NoDoubtNoGap'
      BY <1>2, <2>1 DEF IInv, NoDoubtNoGap, Newest, GoodSnaps
    <2> QED BY <2>2, <2>3, <2>4, <2>5 DEF IInv
  <1> QED BY <1>1, <1>2

\* The invariant holds through every life of the home.
THEOREM Invariance == Spec => []IInv
  BY InitInv, NextInv, PTL DEF Spec

\* Every variable keeps to its type, and every bound is kept (all of boot/index.ts).
THEOREM TypeCorrect == Spec => []TypeOK
  <1>1. IInv => TypeOK
    <2> SUFFICES ASSUME IInv PROVE TypeOK
      OBVIOUS
    <2>1. Len(snaps) <= MaxSnaps
      BY LenProperties, BoundsAssumption DEF IInv, Types, TypeSnaps, TypeLeft
    <2> QED BY <2>1, Zenon DEF IInv, Types, TypeBoot, TypeDb, TypeLeft, TypeErase, TypeSnaps,
               HasBase, TypeOK, Pcs
  <1> QED BY <1>1, Invariance, PTL

\* A sound base never stands beside the -wal of another one, wherever the restoration
\* is cut, refused or abandoned (restore.ts: archive, evacuate, cover, commit).
THEOREM NeverPoisoned == Spec => []NoPoisonedBase
  <1>1. IInv => NoPoisonedBase
    BY DEF IInv, CleanGround
  <1> QED BY <1>1, Invariance, PTL

\* What was erased never comes back in silence, whatever snapshot is restored and
\* wherever the restoration is cut (restore.ts: checkErasureCoverage, the sentinel).
THEOREM ErasureKept == Spec => []NoSilentResurrection
  <1>1. IInv => NoSilentResurrection
    <2> SUFFICES ASSUME IInv, boot.pc = "ready", db.kind = "sound", ~(erased \subseteq db.c.gone)
                 PROVE  "OUBLI" \in boot.alerts
      BY DEF NoSilentResurrection
    <2>1. sentinel
      BY DEF IInv, NoDoubtNoGap
    <2> QED BY <2>1 DEF IInv, DoubtTold
  <1> QED BY <1>1, Invariance, PTL

\* "propre" is only said when the last session that armed its flag ended by the clean
\* shutdown (boot/index.ts: wake-up and arming; shutdown/index.ts: its last write).
THEOREM WakesHonestly == Spec => HonestWake
  <1> DEFINE Honest == boot.pc = "arm" /\ boot'.wake = "propre" /\ lived /\ db.c.life
                          => cleanEnd
  <1>1. IInv /\ [Next]_vars => [Honest]_vars
    <2> SUFFICES ASSUME IInv, Next, boot.pc = "arm", boot'.wake = "propre", lived, db.c.life
                 PROVE  cleanEnd
      OBVIOUS
    <2>1. CASE Arm \/ ArmRefused
      <3>1. Wake = "propre"
        BY <2>1, ArmOutcome, Zenon DEF IInv, Types
      <3>2. db.kind = "sound" /\ db.c.running = 0
        BY <3>1 DEF Wake
      <3> QED BY <3>2 DEF IInv, FlagSpeaks
    <2>2. CASE Cut
      <3>1. boot' = Off
        BY <2>2, Zenon DEF Cut
      <3>2. boot'.wake = "none"
        BY <3>1, Zenon DEF Off
      <3> QED BY <3>2
    <2> QED
      BY <2>1, <2>2 DEF Next, BootStep, Refusal, Session, Environment, Gate, RestoreNothing,
         RestoreArchive, RestoreEvacuate, RestoreCover, RestoreCommit, OpenDatabase,
         WriteBornMarker, DbOk, GateUnsure, RestoreAbandon, OpenRefused, ShutdownRefused,
         EraseAppend, EraseCommit, CreateSnapshot, SnapshotMeta, WriteCleanShutdown, Writing,
         OpenTorn, DbDamaged, SqliteLost, SnapDamaged, MetaLost, StreamDamaged, WitnessLost,
         Fault
  <1> QED BY <1>1, Invariance, PTL DEF Spec, HonestWake

\* She is born once, whatever is cut, refused, damaged or vanishes, as long as no more than
\* one of the two plain witnesses is lost (boot/index.ts: hasAnyLifeWitness).
THEOREM BornOnce ==
  ASSUME MaxLost <= 1
  PROVE  Spec => []NeverBornAgain
  <1>1. Init => OneBirth
    <2> SUFFICES ASSUME Init PROVE OneBirth
      OBVIOUS
    <2>1. boot.pc = "off" /\ left.lost = MaxLost /\ ~lived
      BY DEF Init, Off
    <2> QED BY <2>1 DEF OneBirth, NeverBornAgain
  <1>2. IInv /\ OneBirth /\ [Next]_vars => OneBirth'
    <2>1. ASSUME IInv, OneBirth, UNCHANGED vars PROVE OneBirth'
      BY <2>1 DEF vars, disk, ghost, OneBirth, NeverBornAgain
    <2> QED BY <2>1, OneBirthStep
  <1>3. OneBirth => NeverBornAgain
    BY DEF OneBirth
  <1> QED BY <1>1, <1>2, <1>3, Invariance, PTL DEF Spec
=============================================================================
