----------------------------- MODULE Lifecycle -----------------------------
(***************************************************************************)
(* A home directory through many lives of the orchestrator: boot/index.ts  *)
(* (integrity gate, restoration, wake-up, arming), boot/restore.ts,        *)
(* db/durability.ts (snapshots), audit/index.ts (witnesses) and the last   *)
(* durable act of shutdown/index.ts.                                       *)
(*                                                                         *)
(* The disk outlives the process: every durable write is a step of its own *)
(* and the process may be cut between any two of them.  The contents of    *)
(* the memory base are reduced to what the promises tell apart: is it      *)
(* readable, does it descend from the base she was born with, which        *)
(* erasures has it undergone, and its "running" flag.                      *)
(***************************************************************************)
EXTENDS Integers, Sequences, FiniteSets

CONSTANTS MaxErase,     \* erasures asked for in the life of the home
          KeepN,        \* snapshots kept by the rotation
          MaxSnaps,     \* snapshots taken
          MaxFaults,    \* losses and corruptions of .sqlite, meta and stream
          MaxCuts,      \* cuts of the process
          MaxRefusals,  \* transient refusals of the file system
          MaxLost       \* losses among the two plain witnesses, .born and audit

ASSUME BoundsAssumption ==
  /\ {MaxErase, MaxSnaps, MaxFaults, MaxCuts, MaxRefusals, MaxLost} \subseteq Nat
  /\ KeepN \in Nat \ {0}

VARIABLES
  db,        \* the file of truth
  wal,       \* its -wal: none, its own, or that of another base
  archived,  \* some .corrupt-N is there
  snaps,     \* snapshots, newest first
  stream,    \* erasures.log
  sentinel,  \* restore-pending: alerts not yet acknowledged
  born,      \* .born is there
  audit,     \* the audit log is not empty
  boot,      \* the process: where it is and what it has decided so far
  lived,     \* ghost: some boot that may write memories reached DB_OK
  cleanEnd,  \* ghost: the last session that armed its flag ended by Quit
  erased,    \* ghost: the erasures committed so far
  left       \* what remains of each bound

disk  == <<db, wal, archived, snaps, stream, sentinel, born, audit>>
ghost == <<lived, cleanEnd, erased>>
vars  == <<disk, boot, ghost, left>>

Ids      == 1..MaxErase
Contents == [running : {0, 1}, life : BOOLEAN, gone : SUBSET Ids]
Snapshot == [good : BOOLEAN, meta : BOOLEAN, crue : 0..MaxErase, c : Contents]
Alerts   == {"OUBLI", "MEMOIRE", "SALE"}

\* A base just laid.  The one she is born with will hold everything later erased; one
\* laid after she has lived holds nothing that could come back.
Blank(life) == [running |-> 0, life |-> life, gone |-> IF life THEN {} ELSE Ids]

\* The contents of the base with its running flag set to f, or without what i erased.
Flagged(f) == [db.c EXCEPT !.running = f]
Purged(i)  == [db.c EXCEPT !.gone = @ \union {i}]

Off == [pc |-> "off", verdict |-> "NONE", wake |-> "none", sansEcriture |-> FALSE,
        restaure |-> FALSE, doubt |-> FALSE, alerts |-> {}]

TypeOK ==
  /\ db \in [kind : {"absent", "blank", "corrupt", "sound"}, c : Contents]
  /\ wal \in {"none", "own", "alien"}
  /\ {archived, sentinel, born, audit, lived, cleanEnd} \subseteq BOOLEAN
  /\ snaps \in Seq(Snapshot) /\ Len(snaps) <= MaxSnaps
  /\ stream \in [state : {"absent", "ok", "corrupt"}, ids : SUBSET Ids]
  /\ boot \in [pc : {"off", "restore", "evacuate", "cover", "commit", "open", "arm",
                     "born", "dbok", "ready", "erasing", "snapmeta"},
               verdict : {"NONE", "SAINE", "PREMIER_BOOT", "STRUCTUREL", "AMBIGU"},
               wake : {"none", "premier", "propre", "sale"},
               sansEcriture : BOOLEAN, restaure : BOOLEAN, doubt : BOOLEAN,
               alerts : SUBSET Alerts]
  /\ boot.pc \in {"arm", "born", "dbok", "ready", "erasing", "snapmeta"}
        => db.kind \in {"sound", "corrupt"}
  /\ erased \subseteq Ids
  /\ left \in [{"snaps", "faults", "cuts", "refusals", "lost"} -> Nat]

Init ==
  /\ db = [kind |-> "absent", c |-> Blank(TRUE)]
  /\ wal = "none" /\ archived = FALSE /\ snaps = <<>>
  /\ stream = [state |-> "absent", ids |-> {}]
  /\ sentinel = FALSE /\ born = FALSE /\ audit = FALSE
  /\ boot = Off
  /\ lived = FALSE /\ cleanEnd = FALSE /\ erased = {}
  /\ left = [snaps |-> MaxSnaps, faults |-> MaxFaults, cuts |-> MaxCuts,
             refusals |-> MaxRefusals, lost |-> MaxLost]

Spend(k) == left[k] > 0 /\ left' = [left EXCEPT ![k] = @ - 1]

\* Tell Yohann: the code of every alert goes to the audit log.
Tell(a)  == [boot EXCEPT !.alerts = @ \union {a}]
-----------------------------------------------------------------------------
(***************************************************************************)
(* The integrity gate.                                                     *)
(***************************************************************************)
\* Bug: the last snapshots and the erasures are the only traces looked for.
WitnessByInference == snaps # <<>> \/ stream.ids # {} \/ archived

HasAnyLifeWitness ==
  \/ born
  \/ stream.ids # {} \/ stream.state = "corrupt"
  \/ audit \/ sentinel             \* re-surfacing an alert has just fed the audit log
  \/ snaps # <<>>
  \/ archived

\* Beside the -wal of another base a file reads as damaged.
Poisoned == wal = "alien" /\ db.kind # "absent"

IntegrityGate ==
  IF db.kind = "corrupt" \/ Poisoned THEN "STRUCTUREL"
  ELSE IF db.kind = "sound" THEN "SAINE"
  ELSE IF HasAnyLifeWitness THEN "STRUCTUREL" ELSE "PREMIER_BOOT"

\* A boot starts: pending alerts are told again, then the base is judged.
Gate ==
  /\ boot.pc = "off"
  /\ audit' = (audit \/ sentinel)
  /\ boot' = [Off EXCEPT !.pc = IF IntegrityGate = "STRUCTUREL" THEN "restore" ELSE "open",
                         !.verdict = IntegrityGate,
                         !.alerts = IF sentinel THEN {"OUBLI"} ELSE {}]
  /\ UNCHANGED <<db, wal, archived, snaps, stream, sentinel, born, ghost, left>>

\* The probe itself cannot open the file: no judgement, and no restoration.
GateUnsure ==
  /\ boot.pc = "off" /\ db.kind # "absent"
  /\ Spend("refusals")
  /\ audit' = TRUE
  /\ boot' = [Off EXCEPT !.pc = "open", !.verdict = "AMBIGU", !.sansEcriture = TRUE,
                         !.alerts = {"MEMOIRE"} \union IF sentinel THEN {"OUBLI"} ELSE {}]
  /\ UNCHANGED <<db, wal, archived, snaps, stream, sentinel, born, ghost>>

(***************************************************************************)
(* Restoration.                                                            *)
(***************************************************************************)
\* Bug: the newest snapshot, good or not, is the only candidate.
NewestOrNothing == {i \in DOMAIN snaps : i = 1 /\ snaps[1].good}

GoodSnaps == {i \in DOMAIN snaps : snaps[i].good}
Newest    == CHOOSE i \in GoodSnaps : \A j \in GoodSnaps : i <= j

\* The base is missing and nothing can replace it: refuse to start.
Blocked == boot' = Off /\ audit' = TRUE

RestoreNothing ==
  /\ boot.pc = "restore" /\ GoodSnaps = {}
  /\ audit' = TRUE
  /\ boot' = IF db.kind = "absent" THEN Off
             ELSE [Tell("MEMOIRE") EXCEPT !.pc = "open", !.sansEcriture = TRUE]
  /\ UNCHANGED <<db, wal, archived, snaps, stream, sentinel, born, ghost, left>>

\* The doubtful base is set aside; its -wal is still in place and belongs to no base.
RestoreArchive ==
  /\ boot.pc = "restore" /\ GoodSnaps # {}
  /\ IF db.kind = "absent" THEN UNCHANGED <<db, wal, archived>>
     ELSE /\ db' = [db EXCEPT !.kind = "absent"]
          /\ archived' = TRUE
          /\ wal' = IF wal = "none" THEN "none" ELSE "alien"
  /\ boot' = [boot EXCEPT !.pc = "evacuate"]
  /\ UNCHANGED <<snaps, stream, sentinel, born, audit, ghost, left>>

RestoreEvacuate ==
  /\ boot.pc = "evacuate"
  /\ wal' = "none"
  /\ boot' = [boot EXCEPT !.pc = "cover"]
  /\ UNCHANGED <<db, archived, snaps, stream, sentinel, born, audit, ghost, left>>

\* Bug: a -wal that could not be moved is left where it is and the restoration goes on.
InstallAnyway ==
  /\ boot.pc = "evacuate" /\ wal # "none"
  /\ Spend("refusals")
  /\ boot' = [boot EXCEPT !.pc = "cover"]
  /\ UNCHANGED <<db, wal, archived, snaps, stream, sentinel, born, audit, ghost>>

\* A locker holds the -wal: give up, the base stays archived, the next boot retries.
RestoreAbandon ==
  /\ boot.pc = "evacuate" /\ wal # "none"
  /\ Spend("refusals")
  /\ Blocked
  /\ UNCHANGED <<db, wal, archived, snaps, stream, sentinel, born, ghost>>

\* Bug: a missing erasure log reads as "nothing was erased".
DoubtFailOpen(s) ==
  \/ ~s.meta
  \/ stream.state = "corrupt"
  \/ stream.state = "ok" /\ s.crue # 0 /\ s.crue \notin stream.ids
  \/ \E i \in stream.ids : i > s.crue

\* Is there a doubt about erasures later than snapshot s?
ErasureDoubt(s) ==
  \/ ~s.meta                                     \* CRUE_ABSENTE
  \/ stream.state \in {"absent", "corrupt"}      \* TEMOIN_ABSENT, TEMOIN_CORROMPU
  \/ s.crue # 0 /\ s.crue \notin stream.ids      \* TEMOIN_EN_RETARD
  \/ \E i \in stream.ids : i > s.crue            \* EFFACEMENT_PEUT_ETRE_REVENU

\* The doubt is made durable before the base is back.
RestoreCover ==
  /\ boot.pc = "cover"
  /\ sentinel' = (sentinel \/ ErasureDoubt(snaps[Newest]))
  /\ boot' = [boot EXCEPT !.pc = "commit", !.doubt = ErasureDoubt(snaps[Newest])]
  /\ UNCHANGED <<db, wal, archived, snaps, stream, born, audit, ghost, left>>

\* The atomic rename of the copy; the alerts are told after it.
RestoreCommit ==
  /\ boot.pc = "commit"
  /\ db' = [kind |-> "sound", c |-> snaps[Newest].c]
  /\ audit' = TRUE
  /\ boot' = [boot EXCEPT !.pc = "open", !.restaure = TRUE,
                          !.alerts = @ \union {"MEMOIRE"}
                                       \union IF boot.doubt THEN {"OUBLI"} ELSE {}]
  /\ UNCHANGED <<wal, archived, snaps, stream, sentinel, born, ghost, left>>

(***************************************************************************)
(* Opening for writing, wake-up, arming.                                   *)
(***************************************************************************)
\* The schema and the singleton rows are laid in a file that has none; a -wal of
\* another base is replayed over the one it stands beside.
Opened ==
  IF wal = "alien" THEN [db EXCEPT !.kind = "corrupt"]
  ELSE IF db.kind \in {"absent", "blank"} THEN [kind |-> "sound", c |-> Blank(~lived)]
  ELSE db

MustExist == boot.verdict # "PREMIER_BOOT"

OpenDatabase ==
  /\ boot.pc = "open"
  /\ db.kind = "absent" => ~MustExist
  /\ db' = Opened
  /\ wal' = "own"
  /\ boot' = [boot EXCEPT !.pc = "arm"]
  /\ UNCHANGED <<archived, snaps, stream, sentinel, born, audit, ghost, left>>

\* Refused (lock, permissions, extension): told, and the boot is blocked.
OpenRefused ==
  /\ boot.pc = "open"
  /\ \/ db.kind = "corrupt" /\ UNCHANGED left
     \/ Spend("refusals")
  /\ Blocked
  /\ \/ UNCHANGED db
     \/ db.kind = "absent" /\ ~MustExist /\ db' = [db EXCEPT !.kind = "blank"]
  /\ UNCHANGED <<wal, archived, snaps, stream, sentinel, born, ghost>>

\* Cut after the file is created and before the schema is in it.
OpenTorn ==
  /\ boot.pc = "open" /\ db.kind = "absent" /\ ~MustExist
  /\ Spend("cuts")
  /\ db' = [db EXCEPT !.kind = "blank"]
  /\ boot' = Off
  /\ UNCHANGED <<wal, archived, snaps, stream, sentinel, born, audit, ghost>>

Wake == IF boot.verdict = "PREMIER_BOOT" THEN "premier"
        ELSE IF db.kind = "sound" /\ db.c.running = 0 THEN "propre" ELSE "sale"

Woken == LET told == IF Wake = "sale" /\ ~boot.restaure THEN {"SALE"} ELSE {}
         IN  [boot EXCEPT !.wake = Wake, !.alerts = @ \union told]

\* Bug: arming is skipped in the degraded path.
ArmHealthyOnly ==
  /\ boot.pc = "arm"
  /\ audit' = (audit \/ "SALE" \in Woken.alerts)
  /\ db' = IF boot.sansEcriture THEN db ELSE [db EXCEPT !.c = Flagged(1)]
  /\ cleanEnd' = FALSE
  /\ boot' = [Woken EXCEPT !.pc = IF boot.sansEcriture THEN "dbok" ELSE "born"]
  /\ UNCHANGED <<wal, archived, snaps, stream, sentinel, born, lived, erased, left>>

\* The wake-up is read, then the flag is armed durably; a sound base that refuses
\* it makes the boot fail.
Arm ==
  /\ boot.pc = "arm"
  /\ audit' = (audit \/ "SALE" \in Woken.alerts)
  /\ db' = [db EXCEPT !.c = Flagged(1)]
  /\ cleanEnd' = FALSE
  /\ boot' = [Woken EXCEPT !.pc = IF boot.sansEcriture THEN "dbok" ELSE "born"]
  /\ UNCHANGED <<wal, archived, snaps, stream, sentinel, born, lived, erased, left>>

\* Refused: the healthy boot throws and lets go of everything; the degraded one goes on.
ArmRefused ==
  /\ boot.pc = "arm"
  /\ \/ db.kind = "corrupt" /\ UNCHANGED left
     \/ Spend("refusals")
  /\ audit' = (audit \/ "SALE" \in Woken.alerts)
  /\ IF boot.sansEcriture
     THEN boot' = [Woken EXCEPT !.pc = "dbok"] /\ UNCHANGED wal
     ELSE boot' = Off /\ wal' = "none"
  /\ UNCHANGED <<db, archived, snaps, stream, sentinel, born, ghost>>

\* The positive proof of a life; failing to write it is not fatal.
WriteBornMarker ==
  /\ boot.pc = "born"
  /\ \/ born' = TRUE /\ UNCHANGED left
     \/ ~born /\ Spend("lost") /\ UNCHANGED born
  /\ boot' = [boot EXCEPT !.pc = "dbok"]
  /\ UNCHANGED <<db, wal, archived, snaps, stream, sentinel, audit, ghost>>

\* The phase is recorded in the audit log; an append that fails is swallowed.
DbOk ==
  /\ boot.pc = "dbok"
  /\ \/ audit' = TRUE /\ UNCHANGED left
     \/ ~audit /\ Spend("lost") /\ UNCHANGED audit
  /\ lived' = (lived \/ ~boot.sansEcriture)
  /\ boot' = [boot EXCEPT !.pc = "ready"]
  /\ UNCHANGED <<db, wal, archived, snaps, stream, sentinel, born, cleanEnd, erased>>
-----------------------------------------------------------------------------
(***************************************************************************)
(* A session: erasures, snapshots, the clean end.                          *)
(***************************************************************************)
Writing == boot.pc = "ready" /\ ~boot.sansEcriture /\ db.kind = "sound"

\* The caller's numbering: an id written to the stream is never used again, even when
\* its transaction did not commit.
UsedIds == stream.ids \union erased \union {snaps[i].crue : i \in DOMAIN snaps}
FreshIds == {i \in Ids : \A j \in UsedIds : j < i}

\* The witness is durable before the erasure commits.
EraseAppend ==
  /\ Writing
  /\ \E id \in FreshIds :
        /\ \A j \in FreshIds : id <= j
        /\ stream' = [state |-> IF stream.state = "corrupt" THEN "corrupt" ELSE "ok",
                      ids |-> stream.ids \union {id}]
  /\ boot' = [boot EXCEPT !.pc = "erasing"]
  /\ UNCHANGED <<db, wal, archived, snaps, sentinel, born, audit, ghost, left>>

Latest(ids) == CHOOSE i \in ids : \A j \in ids : j <= i
LastId      == Latest(stream.ids)

EraseCommit ==
  /\ boot.pc = "erasing"
  /\ db' = [db EXCEPT !.c = Purged(LastId)]
  /\ erased' = erased \union {LastId}
  /\ boot' = [boot EXCEPT !.pc = "ready"]
  /\ UNCHANGED <<wal, archived, snaps, stream, sentinel, born, audit, lived, cleanEnd, left>>

\* VACUUM INTO, fsync, rename: the commit.  The flood mark is a file of its own.
CreateSnapshot ==
  /\ Writing /\ Spend("snaps")
  /\ snaps' = <<[good |-> TRUE, meta |-> FALSE, crue |-> 0, c |-> db.c]>> \o snaps
  /\ boot' = [boot EXCEPT !.pc = "snapmeta"]
  /\ UNCHANGED <<db, wal, archived, stream, sentinel, born, audit, ghost>>

\* Keep the newest KeepN.
RotateSnapshots(s) == SubSeq(s, 1, IF Len(s) < KeepN THEN Len(s) ELSE KeepN)

FloodMark == IF stream.ids = {} THEN 0 ELSE LastId
Marked(s) == [good |-> s.good, meta |-> TRUE, crue |-> FloodMark, c |-> s.c]

SnapshotMeta ==
  /\ boot.pc = "snapmeta"
  /\ snaps' = RotateSnapshots([snaps EXCEPT ![1] = Marked(snaps[1])])
  /\ boot' = [boot EXCEPT !.pc = "ready"]
  /\ UNCHANGED <<db, wal, archived, stream, sentinel, born, audit, ghost, left>>

\* running=0 is the last durable act, then the base is closed.
WriteCleanShutdown ==
  /\ boot.pc = "ready"
  /\ db' = [db EXCEPT !.c = Flagged(0)]
  /\ cleanEnd' = TRUE
  /\ wal' = "none"
  /\ boot' = Off
  /\ audit' = TRUE
  /\ UNCHANGED <<archived, snaps, stream, sentinel, born, lived, erased, left>>

\* The write of the flag fails: the process leaves all the same.
ShutdownRefused ==
  /\ boot.pc = "ready"
  /\ \/ db.kind = "corrupt" /\ UNCHANGED left
     \/ Spend("refusals")
  /\ wal' = "none"
  /\ boot' = Off
  /\ UNCHANGED <<db, archived, snaps, stream, sentinel, born, audit, ghost>>

\* Power cut, kill, or an exception that makes the boot fail: between any two steps.
Cut ==
  /\ boot.pc # "off" /\ Spend("cuts")
  /\ boot' = Off
  /\ UNCHANGED <<disk, ghost>>
-----------------------------------------------------------------------------
(***************************************************************************)
(* What the disk may do while nobody runs.                                 *)
(***************************************************************************)
Fault == boot.pc = "off" /\ Spend("faults") /\ UNCHANGED <<boot, ghost>>

DbDamaged ==
  /\ Fault /\ db.kind = "sound"
  /\ \E k \in {"corrupt", "blank"} : db' = [db EXCEPT !.kind = k]
  /\ UNCHANGED <<wal, archived, snaps, stream, sentinel, born, audit>>

\* Every *.sqlite vanishes, the base with its snapshots.
SqliteLost ==
  /\ Fault /\ (db.kind # "absent" \/ snaps # <<>>)
  /\ db' = [db EXCEPT !.kind = "absent"]
  /\ wal' = IF wal = "none" THEN "none" ELSE "alien"
  /\ snaps' = <<>>
  /\ UNCHANGED <<archived, stream, sentinel, born, audit>>

Damaged(s)  == [good |-> FALSE, meta |-> s.meta, crue |-> s.crue, c |-> s.c]
Unmarked(s) == [good |-> s.good, meta |-> FALSE, crue |-> 0, c |-> s.c]

SnapDamaged ==
  /\ Fault
  /\ \E i \in DOMAIN snaps :
        snaps[i].good /\ snaps' = [snaps EXCEPT ![i] = Damaged(snaps[i])]
  /\ UNCHANGED <<db, wal, archived, stream, sentinel, born, audit>>

MetaLost ==
  /\ Fault
  /\ \E i \in DOMAIN snaps :
        snaps[i].meta /\ snaps' = [snaps EXCEPT ![i] = Unmarked(snaps[i])]
  /\ UNCHANGED <<db, wal, archived, stream, sentinel, born, audit>>

StreamDamaged ==
  /\ Fault /\ stream.state = "ok"
  /\ \/ stream' = [state |-> "absent", ids |-> {}]
     \/ stream' = [stream EXCEPT !.state = "corrupt"]
  /\ UNCHANGED <<db, wal, archived, snaps, sentinel, born, audit>>

WitnessLost ==
  /\ boot.pc = "off" /\ Spend("lost")
  /\ \/ born /\ born' = FALSE /\ UNCHANGED audit
     \/ audit /\ audit' = FALSE /\ UNCHANGED born
  /\ UNCHANGED <<db, wal, archived, snaps, stream, sentinel, boot, ghost>>
-----------------------------------------------------------------------------
BootStep == \/ Gate \/ RestoreNothing \/ RestoreArchive \/ RestoreEvacuate
            \/ RestoreCover \/ RestoreCommit \/ OpenDatabase \/ Arm
            \/ WriteBornMarker \/ DbOk

Refusal == GateUnsure \/ RestoreAbandon \/ OpenRefused \/ ArmRefused \/ ShutdownRefused

Session == \/ EraseAppend \/ EraseCommit \/ CreateSnapshot \/ SnapshotMeta
           \/ WriteCleanShutdown

Environment == \/ OpenTorn \/ Cut \/ DbDamaged \/ SqliteLost \/ SnapDamaged
               \/ MetaLost \/ StreamDamaged \/ WitnessLost

Next == BootStep \/ Refusal \/ Session \/ Environment

Spec == Init /\ [][Next]_vars

\* The user starts her again, and a process that runs goes on running.
FairSpec == Spec /\ WF_vars(BootStep) /\ WF_vars(EraseCommit \/ SnapshotMeta)
-----------------------------------------------------------------------------
\* She is born once.  A boot that takes itself for the first one, and so may create
\* the base, never happens after a life that reached DB_OK: whatever one cut, one lost
\* .sqlite set and one lost witness leave behind, another witness speaks.
NeverBornAgain ==
  boot.verdict = "PREMIER_BOOT" /\ boot.pc \in {"open", "arm", "born", "dbok"} => ~lived

\* An honest wake-up.  "propre" is said only when the last session that armed its flag
\* ended by the clean shutdown, through restorations, refusals and degraded sessions.
HonestWake ==
  [][boot.pc = "arm" /\ boot'.wake = "propre" /\ lived /\ db.c.life => cleanEnd]_vars

\* What was erased never comes back in silence: if the base she lives with holds
\* something Yohann had her erase, this session has told him so, even if the boot
\* that restored it was cut before it could.
NoSilentResurrection ==
  boot.pc = "ready" /\ db.kind = "sound" /\ ~(erased \subseteq db.c.gone)
    => "OUBLI" \in boot.alerts

\* A sound base never stands beside the -wal of another one: SQLite would replay it
\* over the base that was just restored.
NoPoisonedBase == db.kind = "sound" => wal # "alien"

\* Something she can wake up from: her base, or a snapshot of it.
Recoverable ==
  lived /\ (db.kind = "sound" \/ \E i \in DOMAIN snaps : snaps[i].good)

\* She always wakes again: as long as a base or a good snapshot remains, boots that are
\* cut, refused or abandoned half-way end in a boot that is ready.
AwakensAgain == []<>(boot.pc = "ready" \/ ~Recoverable)

\* "jamais une vierge hors premier boot" (boot/index.ts:361): a session that says nothing
\* about its memory lives with the memory she was born with.
NoSilentAmnesia ==
  boot.pc = "ready" /\ boot.alerts \cap {"MEMOIRE"} = {} => db.c.life
=============================================================================
