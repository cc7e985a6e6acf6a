-------------------------- MODULE PayloadAtomicProofs --------------------------
(***************************************************************************)
(* For every number of commit paths, batches, identifiers and versions: an *)
(* install is one atomic step (PayloadTransaction implements AtomicInstall)*)
(* and a reported success survives a power cut, until a failed read takes  *)
(* the account of a published transaction away.  Both rest on AInv, which  *)
(* adds to the invariant of PayloadTransactionProofs where the objects of  *)
(* each tree were extracted, and what the medium holds from the marker on. *)
(***************************************************************************)
EXTENDS PayloadTransactionProofs

-----------------------------------------------------------------------------
(* The payload and the prior payload a disk stands for, and the steps of   *)
(* AtomicInstall from disk d to disk e.                                    *)

MapsTo(d, e) ==
    \/ Payload(e) = Payload(d) /\ Prior(e) = Prior(d)
    \/ Payload(d) = Prior(d) /\ Payload(e) \in Extracted /\ Prior(e) = Prior(d)
    \/ Payload(e) = Prior(d) /\ Prior(e) = Prior(d)
    \/ Payload(e) = Payload(d) /\ Prior(e) = Payload(d)
    \/ Payload(d) = Prior(d) /\ Payload(e) \in Tree /\ Prior(e) = Payload(e)

LEMMA PayloadKept ==
  ASSUME NEW d \in Disk, Consistent(d), Pending(d), ~Published(d)
  PROVE  Payload(d) = d.journal.before /\ Prior(d) = d.journal.before
<1>1. d.journal.before \in Tree
  BY DEF Disk, Pending, Journal
<1>2. \A p \in Path : /\ d.journal.had[p] <=> d.journal.before[p] # NoFile
                      /\ Accounted(d, p)
  BY DEF Consistent, Undoable
<1>3. \A p \in Path : RolledBack(d)[p] = d.journal.before[p]
  BY <1>2 DEF Accounted, RolledBack
<1>4. RolledBack(d) = d.journal.before
  BY <1>1, <1>3 DEF RolledBack, Tree
<1> QED
  BY <1>4 DEF Payload, Prior

LEMMA PayloadLive ==
  ASSUME NEW d, ~Pending(d) \/ Published(d)
  PROVE  /\ Payload(d) = d.live
         /\ Prior(d) = IF Pending(d) THEN d.journal.before ELSE d.live
  BY DEF Payload, Prior

(* Inside a transaction that is not published, or no longer, every step is *)
(* a stutter or takes the install back.                                    *)
LEMMA InFlightMaps ==
  ASSUME NEW d, InFlight(d), NEW e, InFlight(e),
         e.journal = d.journal, ~Published(e)
  PROVE  MapsTo(d, e)
<1>1. Payload(e) = e.journal.before /\ Prior(e) = e.journal.before
  BY PayloadKept DEF InFlight, Consistent
<1>2. Prior(d) = d.journal.before
  BY DEF InFlight, Prior
<1> QED
  BY <1>1, <1>2 DEF MapsTo

(* A published transaction, or none, whose live tree does not change.      *)
LEMMA LiveMaps ==
  ASSUME NEW d, NEW e, e.live = d.live,
         Pending(d) => Published(d), Pending(e) => Published(e),
         Pending(e) => Pending(d) /\ e.journal.before = d.journal.before
  PROVE  MapsTo(d, e)
  BY PayloadLive DEF MapsTo

LEMMA MapsToSelf == \A d : MapsTo(d, d)
  BY DEF MapsTo

-----------------------------------------------------------------------------
(* The ways a step of a run can go, once for all steps.                    *)

Tracks(d, r) == Apart(d) /\ Holds(d, r)

(* What every step has to show.                                            *)
Goal == Traced' /\ settled' \in {settled, disk'} /\ MapsTo(disk, disk')

LEMMA OffHolds == \A d : Holds(d, Off)
  BY OffType DEF Holds, Committing, Undoing

LEMMA GoalFrame ==
  ASSUME Traced, settled' \in {settled, disk'},
         Tracks(disk', run'), MapsTo(disk, disk')
  PROVE  Goal
  BY DEF Traced, Tracks, Goal

LEMMA ProceedGoal ==
  ASSUME Traced, NEW d, NEW next, Tracks(d, next), MapsTo(disk, d), Proceed(d, next)
  PROVE  Goal
  BY GoalFrame DEF Proceed, Goto

LEMMA FailGoal ==
  ASSUME Traced, disk' = disk, settled' = settled, Fail
  PROVE  Goal
<1>1. Tracks(disk', run')
  BY OffHolds DEF Traced, Tracks, Fail
<1> QED
  BY <1>1, GoalFrame, MapsToSelf

LEMMA RaiseGoal ==
  ASSUME Traced, Raises(Fail)
  PROVE  Goal
  BY FailGoal DEF Raises

LEMMA AttemptFailGoal ==
  ASSUME Traced, NEW d, NEW next, Tracks(d, next), MapsTo(disk, d),
         Attempt(d, next, Fail)
  PROVE  Goal
<1>1. Tracks(d, Off) /\ Tracks(disk, Off)
  BY OffHolds DEF Traced, Tracks
<1>2. Tracks(disk', run') /\ settled' \in {settled, disk'}
  BY <1>1 DEF Attempt, Goto, Fail
<1>3. MapsTo(disk, disk')
  BY MapsToSelf DEF Attempt
<1> QED
  BY <1>2, <1>3, GoalFrame

LEMMA AttemptWithdrawGoal ==
  ASSUME Traced, NEW d, NEW next, Tracks(d, next), MapsTo(disk, d),
         Attempt(d, next, Withdraw),
         Tracks(d, Rollback("error")), Tracks(disk, Rollback("error"))
  PROVE  Goal
<1>1. Tracks(d, Off)
  BY OffHolds DEF Tracks
<1>2. Tracks(disk', run') /\ settled' \in {settled, disk'}
  BY <1>1 DEF Attempt, Goto, Withdraw
<1>3. MapsTo(disk, disk')
  BY MapsToSelf DEF Attempt
<1> QED
  BY <1>2, <1>3, GoalFrame

(* A place of a run that asks nothing of where the objects come from.      *)
LEMMA FreeHolds ==
  ASSUME NEW d, NEW r, r.pc \in {"off", "recover", "probe", "adopt", "adopted", "plan",
                            "publish", "settle", "dropBackup", "dropStage",
                            "sync", "done"}
  PROVE  Holds(d, r)
  BY DEF Holds, Committing, Undoing

LEMMA CaughtGoal ==
  ASSUME Traced, NEW r, Tracks(disk, r), Caught(r)
  PROVE  Goal
<1>1. Tracks(disk', run') /\ disk' = disk /\ settled' = settled
  BY DEF Caught, Goto, Traced, Tracks
<1> QED
  BY <1>1, MapsToSelf, GoalFrame

LEMMA MoveGoal ==
  ASSUME Sure, Traced, NEW s \in {"recover", "probe", "adopt", "plan", "dropStage", "sync", "done"},
         Proceed(disk, At(s)) \/ Caught(At(s))
  PROVE  Goal
<1>1. At(s).pc = s
  BY AtType, Here DEF Steps
<1>2. Tracks(disk, At(s))
  BY <1>1, FreeHolds DEF Traced, Tracks
<1> QED
  BY <1>2, MapsToSelf, ProceedGoal, CaughtGoal

-----------------------------------------------------------------------------
(* One lemma per step.                                                     *)

LEMMA StartGoal ==
  ASSUME Sure, Traced, Start
  PROVE  Goal
<1>1. PICK force \in BOOLEAN : run' = [Off EXCEPT !.pc = "recover", !.force = force]
  BY DEF Start, Launch
<1>2. settled' = settled /\ disk' = disk
  BY DEF Start, Launch
<1> DEFINE r == [Off EXCEPT !.pc = "recover", !.force = force]
<1>3. Tracks(disk', run')
  <2>1. r.pc = "recover"
    BY OffType DEF Run
  <2> HIDE DEF r
  <2>2. Tracks(disk, r)
    BY <2>1, FreeHolds DEF Traced, Tracks
  <2>3. run' = r
    BY <1>1 DEF r
  <2> QED
    BY <1>2, <2>2, <2>3 DEF Tracks
<1> QED
  BY <1>2, <1>3, MapsToSelf, GoalFrame

LEMMA RollbackHolds ==
  ASSUME Sure, NEW d, Foreign(d), NEW g \in {"probe", "done", "error"}
  PROVE  Holds(d, Rollback(g))
<1>1. Rollback(g).pc = "rollback"
  BY GoalType, Here
<1> QED
  BY <1>1 DEF Holds, Committing, Undoing

(* A published transaction whose backup is still complete is a transaction *)
(* like any other to a rollback: nothing new is staged any more, and what  *)
(* is live was sealed.                                                     *)
LEMMA PublishedForeign ==
  ASSUME NEW d, Published(d), Consistent(d), Undoable(d), Apart(d)
  PROVE  Foreign(d)
<1>1. /\ Pending(d) /\ Sound(d.live) /\ d.marker.seal = d.live /\ SameTid(d)
  BY DEF Published, Ready, SameTid
<1>2. \A p \in Path : /\ d.live[p] # NoFile
                      /\ d.live[p].batch \notin Batches(d.journal.before)
  BY <1>1 DEF Apart, Sound
<1>3. \A p \in Path : d.live[p] # d.journal.before[p]
  BY <1>2 DEF Batches
<1>4. \A p \in Path : d.stage[p] = NoFile
  BY <1>2, <1>3 DEF Undoable, Accounted
<1> QED
  BY <1>2, <1>4 DEF Foreign

LEMMA RecoverGoal ==
  ASSUME Sure, Traced, Recover, ~Mistaken
  PROVE  Goal
<1>1. CASE Proceed(disk, At("probe"))
  BY <1>1, MoveGoal
<1>2. CASE UNCHANGED <<disk, settled>> /\ Fail
  BY <1>2, FailGoal
<1>3. CASE Proceed(disk, Cleanup("probe"))
  <2>1. Tracks(disk, Cleanup("probe"))
    BY GoalType, Here, FreeHolds DEF Traced, Tracks
  <2> QED
    BY <1>3, <2>1, MapsToSelf, ProceedGoal
<1>4. CASE Pending(disk) /\ ~Published(disk) /\ Proceed(disk, Rollback("probe"))
  <2>1. Tracks(disk, Rollback("probe"))
    BY <1>4, RollbackHolds DEF Traced, Apart, Tracks
  <2> QED
    BY <1>4, <2>1, MapsToSelf, ProceedGoal
<1>5. CASE Published(disk) /\ Caught(Rollback("probe"))
  <2>1. run'.pc = "rollback"
    BY <1>5, GoalType, Here DEF Caught, Goto
  <2>2. Undoable(disk)
    BY <1>5, <2>1 DEF Mistaken, Recover
  <2>3. Foreign(disk) /\ Apart(disk)
    BY <1>5, <2>2, Here, PublishedForeign DEF Traced
  <2>4. Tracks(disk, Rollback("probe"))
    BY <2>3, RollbackHolds DEF Tracks
  <2> QED
    BY <1>5, <2>4, CaughtGoal
<1> QED
  BY <1>1, <1>2, <1>3, <1>4, <1>5 DEF Recover, Raises

LEMMA SucceedGoal ==
  ASSUME Traced, NEW code, Succeed(code)
  PROVE  Goal
<1>1. Tracks(disk', run') /\ settled' = settled /\ disk' = disk
  BY OffHolds DEF Succeed, Traced, Tracks
<1> QED
  BY <1>1, MapsToSelf, GoalFrame

LEMMA ProbeGoal ==
  ASSUME Sure, Traced, Probe
  PROVE  Goal
  BY MoveGoal, SucceedGoal DEF Probe

LEMMA ReportGoal ==
  ASSUME Sure, Traced, Report
  PROVE  Goal
  BY RaiseGoal, SucceedGoal DEF Report

LEMMA AdoptGoal ==
  ASSUME Sure, Traced, Adopt, ~Mistaken
  PROVE  Goal
<1>0. disk \in Disk
  BY Here
<1>1. CASE Proceed(disk, At("plan")) \/ Caught(At("plan"))
  BY <1>1, MoveGoal
<1>2. ASSUME NEW t \in Tid, FreshTid(t), Attempt(Marked(t), At("adopted"), Fail)
      PROVE  Goal
  <2> DEFINE e == Marked(t)
  <2>0. CASE Pending(disk)
    BY <1>2, <2>0, AdoptPending, FailGoal
  <2>p. CASE ~Pending(disk)
    <3>1. e.live = disk.live /\ e.stage = disk.stage /\ ~Pending(e)
      BY <2>p, MarkedFacts, Here DEF Pending
    <3>2. Attempt(e, At("adopted"), Fail)
      BY <1>2
    <3> HIDE DEF e
    <3>3. Apart(e)
      BY <2>p, <3>1 DEF Traced, Apart
    <3>4. At("adopted").pc = "adopted"
      BY AtType, Here DEF Steps
    <3>5. Tracks(e, At("adopted"))
      BY <3>3, <3>4, FreeHolds DEF Tracks
    <3>6. MapsTo(disk, e)
      BY <2>p, <3>1, LiveMaps
    <3> QED
      BY <3>2, <3>5, <3>6, AttemptFailGoal
  <2> QED
    BY <2>0, <2>p
<1> QED
  BY <1>1, <1>2, RaiseGoal DEF Adopt

(* A step that only changes the stage of a disk with no transaction        *)
(* pending, or with a published one.                                       *)
LEMMA StageTracks ==
  ASSUME NEW d \in Disk, Consistent(d), Apart(d), Pending(d) => Published(d),
         NEW t \in Tree, NEW e, e = [d EXCEPT !.stage = t],
         ~Pending(d) => \A p \in Path : t[p] # NoFile => t[p].batch \notin Batches(d.live)
  PROVE  /\ Apart(e) /\ MapsTo(d, e)
         /\ e.live = d.live /\ e.stage = t
         /\ Pending(e) <=> Pending(d)
<1>1. /\ e.live = d.live /\ e.journal = d.journal
      /\ Pending(e) <=> Pending(d)
      /\ Published(e) <=> Published(d)
  BY StageFree
<1>2. e.stage = t /\ e.marker = d.marker
  BY DEF Disk
<1>3. Apart(e)
  BY <1>1, <1>2 DEF Apart, SameTid
<1>4. MapsTo(d, e)
  BY <1>1, LiveMaps
<1> QED
  BY <1>1, <1>2, <1>3, <1>4

LEMMA EmptyStage == \A p \in Path : Empty[p] = NoFile
  BY DEF Empty

LEMMA PlanGoal ==
  ASSUME Sure, Traced, Plan
  PROVE  Goal
<1> DEFINE r(g) == [AtPath("extract", 1) EXCEPT !.plan = g]
<1>0. /\ Pending(disk) => Published(disk)
      /\ disk \in Disk /\ disk.live \in Tree /\ disk.stage \in Tree
      /\ Consistent(disk) /\ Apart(disk)
  BY Here DEF Plan, Knows, Before, Disk, Traced
<1>1. ASSUME NEW g \in Batch
      PROVE  r(g).pc = "extract" /\ r(g).plan = g /\ r(g).idx = 1
  <2>1. /\ AtPath("extract", 1) \in Run /\ AtPath("extract", 1).pc = "extract"
        /\ AtPath("extract", 1).idx = 1
    BY NAssumption, AtType, Here DEF Steps
  <2> QED
    BY <2>1 DEF Run
<1>2. ASSUME NEW g \in Batch, NEW d, Pending(d) \/ g \notin Batches(d.live)
      PROVE  Holds(d, r(g))
  <2> HIDE DEF r
  <2> QED
    BY <1>1, <1>2 DEF Holds, Path, Committing, Undoing
<1>3. ASSUME NEW g \in Batches(disk.stage), Proceed(disk, r(g))
      PROVE  Goal
  <2>1. g \in Batch
    BY <1>0, <1>3, BatchType
  <2>2. Pending(disk) \/ g \notin Batches(disk.live)
    BY <1>0, <1>3 DEF Apart, Batches
  <2>3. Tracks(disk, r(g))
    BY <1>0, <1>2, <2>1, <2>2 DEF Tracks
  <2> QED
    BY <1>3, <2>3, MapsToSelf, ProceedGoal
<1>4. ASSUME NEW g \in Batch \ (UsedBatches(disk) \cup UsedBatches(settled)),
             Proceed([disk EXCEPT !.stage = Empty], r(g))
      PROVE  Goal
  <2> DEFINE e == [disk EXCEPT !.stage = Empty]
  <2>1. Apart(e) /\ MapsTo(disk, e) /\ e.live = disk.live
    BY <1>0, EmptyType, EmptyStage, StageTracks
  <2>2. Proceed(e, r(g))
    BY <1>4
  <2>3. g \notin Batches(disk.live)
    BY <1>4 DEF UsedBatches
  <2> HIDE DEF e
  <2>4. Tracks(e, r(g))
    BY <1>2, <2>1, <2>3 DEF Tracks
  <2> QED
    BY <2>1, <2>2, <2>4, ProceedGoal
<1>5. CASE UNCHANGED <<disk, settled>> /\ Fail
  BY <1>5, FailGoal
<1> QED
  BY <1>3, <1>4, <1>5 DEF Plan

LEMMA ExtractGoal ==
  ASSUME Sure, Traced, Extract
  PROVE  Goal
<1>0. /\ run.pc = "extract" /\ run \in Run /\ run.plan \in Batch /\ run.idx \in 0..N+1
      /\ Pending(disk) => Published(disk)
      /\ disk \in Disk /\ disk.live \in Tree /\ disk.stage \in Tree
      /\ Consistent(disk) /\ Apart(disk)
      /\ Pending(disk) \/ run.plan \notin Batches(disk.live)
      /\ \A p \in Path : p < run.idx => disk.stage[p] = New(run)
  BY Here DEF Extract, Knows, Before, Disk, Traced, Holds, Sure, TypeOK
<1>1. CASE run.idx > N /\ Proceed(disk, At("check"))
  <2>1. At("check").pc = "check" /\ At("check").plan = run.plan
    BY AtType, Here DEF Steps
  <2>2. \A p \in Path : disk.stage[p] = New(run)
    BY <1>0, <1>1, NAssumption DEF Path
  <2>3. Tracks(disk, At("check"))
    BY <1>0, <2>1, <2>2 DEF Tracks, Holds, Committing, Undoing, New
  <2> QED
    BY <1>1, <2>3, MapsToSelf, ProceedGoal
<1>2. ASSUME run.idx \in Path
      PROVE  /\ AtPath("extract", run.idx + 1).pc = "extract"
             /\ AtPath("extract", run.idx + 1).plan = run.plan
             /\ AtPath("extract", run.idx + 1).idx = run.idx + 1
  <2>1. run.idx + 1 \in 0..N+1 /\ "extract" \in Steps
    BY <1>2, NAssumption DEF Path, Steps
  <2> QED
    BY <2>1, AtType, Here
<1>3. Staged("intact") = New(run)
  BY DEF Staged, New
<1>4. CASE /\ run.idx \in Path /\ disk.stage[run.idx] = Staged("intact")
           /\ Proceed(disk, AtPath("extract", run.idx + 1))
  <2> DEFINE r == AtPath("extract", run.idx + 1)
  <2>1. r.pc = "extract" /\ r.plan = run.plan /\ r.idx = run.idx + 1
    BY <1>2, <1>4
  <2> HIDE DEF r
  <2>2. New(r) = New(run)
    BY <2>1 DEF New
  <2>3. \A p \in Path : p < r.idx => disk.stage[p] = New(r)
    BY <1>0, <1>3, <1>4, <2>1, <2>2 DEF Path
  <2>4. Tracks(disk, r)
    BY <1>0, <2>1, <2>3 DEF Tracks, Holds, Committing, Undoing
  <2> QED
    BY <1>4, <2>4, MapsToSelf, ProceedGoal DEF r
<1>5. ASSUME NEW f \in Form, run.idx \in Path
      PROVE  LET e == Stage(run.idx, Staged(f))
             IN /\ Apart(e) /\ MapsTo(disk, e)
                /\ Pending(e) \/ run.plan \notin Batches(e.live)
                /\ e.stage = [disk.stage EXCEPT ![run.idx] = Staged(f)]
  <2> DEFINE t == [disk.stage EXCEPT ![run.idx] = Staged(f)]
             e == Stage(run.idx, Staged(f))
  <2>1. Staged(f) \in Object /\ Staged(f).batch = run.plan
    BY <1>0 DEF Staged, Object
  <2>2. t \in Tree /\ e = [disk EXCEPT !.stage = t]
    BY <1>0, <1>5, <2>1, TreeUpdate DEF Stage, Disk
  <2>3. ASSUME ~Pending(disk), NEW p \in Path, t[p] # NoFile
        PROVE  t[p].batch \notin Batches(disk.live)
    BY <1>0, <1>5, <2>1, <2>3 DEF Apart, Tree
  <2> HIDE DEF t, e
  <2>4. /\ Apart(e) /\ MapsTo(disk, e)
        /\ e.live = disk.live /\ e.stage = t
        /\ Pending(e) <=> Pending(disk)
    BY <1>0, <2>2, <2>3, StageTracks
  <2> QED
    BY <1>0, <2>4 DEF e, t
<1>6. CASE run.idx \in Path /\ Proceed(Stage(run.idx, Staged("broken")), run)
  <2> DEFINE e == Stage(run.idx, Staged("broken"))
  <2>1. /\ Apart(e) /\ MapsTo(disk, e)
        /\ Pending(e) \/ run.plan \notin Batches(e.live)
        /\ e.stage = [disk.stage EXCEPT ![run.idx] = Staged("broken")]
    BY <1>5, <1>6 DEF Form
  <2>2. Proceed(e, run)
    BY <1>6
  <2> HIDE DEF e
  <2>3. \A p \in Path : p < run.idx => e.stage[p] = New(run)
    BY <1>0, <1>6, <2>1 DEF Path, Tree
  <2>4. Tracks(e, run)
    BY <1>0, <2>1, <2>3 DEF Tracks, Holds, Committing, Undoing
  <2> QED
    BY <2>1, <2>2, <2>4, ProceedGoal
<1>7. CASE /\ run.idx \in Path
           /\ Proceed(Stage(run.idx, Staged("intact")), AtPath("extract", run.idx + 1))
  <2> DEFINE e == Stage(run.idx, Staged("intact"))
             r == AtPath("extract", run.idx + 1)
  <2>1. /\ Apart(e) /\ MapsTo(disk, e)
        /\ Pending(e) \/ run.plan \notin Batches(e.live)
        /\ e.stage = [disk.stage EXCEPT ![run.idx] = Staged("intact")]
    BY <1>5, <1>7 DEF Form
  <2>2. Proceed(e, r) /\ r.pc = "extract" /\ r.plan = run.plan /\ r.idx = run.idx + 1
    BY <1>2, <1>7
  <2> HIDE DEF e, r
  <2>3. New(r) = New(run)
    BY <2>2 DEF New
  <2>4. ASSUME NEW p \in Path, p < r.idx
        PROVE  e.stage[p] = New(r)
    <3>1. CASE p = run.idx
      BY <1>0, <1>3, <1>7, <2>1, <2>3, <3>1 DEF Tree
    <3>2. CASE p # run.idx
      <4>1. p < run.idx
        BY <1>7, <2>2, <2>4, <3>2, NAssumption DEF Path
      <4> QED
        BY <1>0, <1>7, <2>1, <2>3, <3>2, <4>1 DEF Tree
    <3> QED
      BY <3>1, <3>2
  <2>5. Tracks(e, r)
    BY <1>0, <2>1, <2>2, <2>4 DEF Tracks, Holds, Committing, Undoing
  <2> QED
    BY <2>1, <2>2, <2>5, ProceedGoal
<1> QED
  BY <1>1, <1>4, <1>6, <1>7, RaiseGoal DEF Extract

LEMMA CheckGoal ==
  ASSUME Sure, Traced, Check
  PROVE  Goal
<1>0. /\ run.pc = "check" /\ disk \in Disk /\ Consistent(disk) /\ Apart(disk)
      /\ Pending(disk) => Published(disk)
      /\ run.plan \in Batch
      /\ Pending(disk) \/ run.plan \notin Batches(disk.live)
      /\ \A p \in Path : disk.stage[p] = New(run)
  BY Here DEF Check, Knows, Before, Traced, Holds
<1>1. CASE Proceed(disk, At("journal"))
  <2>1. At("journal").pc = "journal" /\ At("journal").plan = run.plan
    BY AtType, Here DEF Steps
  <2>2. Tracks(disk, At("journal"))
    BY <1>0, <2>1 DEF Tracks, Holds, Committing, Undoing, New
  <2> QED
    BY <1>1, <2>2, MapsToSelf, ProceedGoal
<1>2. CASE disk' = [disk EXCEPT !.stage = Empty] /\ UNCHANGED settled /\ Fail
  <2>1. Apart(disk') /\ MapsTo(disk, disk')
    BY <1>0, <1>2, EmptyType, EmptyStage, StageTracks
  <2>2. Tracks(disk', run')
    BY <1>2, <2>1, OffHolds DEF Fail, Tracks
  <2> QED
    BY <1>2, <2>1, <2>2, GoalFrame
<1> QED
  BY <1>1, <1>2, RaiseGoal DEF Check

LEMMA OpenJournalGoal ==
  ASSUME Sure, Traced, OpenJournal
  PROVE  Goal
<1>0. /\ run.pc = "journal" /\ disk \in Disk /\ Consistent(disk) /\ Apart(disk)
      /\ recipe \in Recipe /\ disk.live \in Tree /\ disk.stage \in Tree
      /\ run.plan \in Batch
      /\ Pending(disk) \/ run.plan \notin Batches(disk.live)
      /\ \A p \in Path : disk.stage[p] = New(run)
  BY Here DEF OpenJournal, Traced, Holds, Disk, Sure, TypeOK
<1>1. CASE UNCHANGED <<disk, settled>> /\ Fail
  BY <1>1, FailGoal
<1>2. ASSUME disk.backup = Empty, ~Pending(disk), NEW t \in Tid, FreshTid(t),
             Attempt(Opened(t), At("announce"), Fail)
      PROVE  Goal
  <2> DEFINE e == Opened(t)
             j == [tid |-> t, recipe |-> recipe,
                   had |-> [p \in Path |-> disk.live[p] # NoFile],
                   published |-> FALSE, before |-> disk.live]
  <2>0. j \in Journal
    BY <1>0, <1>2 DEF Journal
  <2>1. j # NoRecord
    BY <2>0, NoRecordAssumption
  <2>2. e = [disk EXCEPT !.journal = j]
    BY DEF Opened
  <2>3. /\ j.tid = t /\ j.before = disk.live
        /\ \A p \in Path : j.had[p] <=> disk.live[p] # NoFile
    OBVIOUS
  <2>4. Attempt(e, At("announce"), Fail)
    BY <1>2
  <2> HIDE DEF e, j
  <2>5. /\ e \in Disk /\ e.journal = j /\ e.live = disk.live /\ e.stage = disk.stage
        /\ e.backup = disk.backup /\ e.marker = disk.marker /\ Pending(e)
    BY <1>0, <2>0, <2>1, <2>2 DEF Disk, Pending
  <2>6. ~SameTid(e) /\ ~Published(e)
    BY <1>2, <2>3, <2>5 DEF SameTid, FreshTid, Published, Ready
  <2>7. \A p \in Path : ~NewIsLive(e, p)
    BY <1>2, <2>3, <2>5 DEF NewIsLive, Empty
  <2>8. Foreign(e)
    BY <1>0, <1>2, <2>3, <2>5, <2>7 DEF Foreign, Apart
  <2>9. At("announce").pc = "announce" /\ At("announce").plan = run.plan
    BY AtType, Here DEF Steps
  <2>10. Tracks(e, At("announce"))
    BY <1>0, <1>2, <2>3, <2>5, <2>6, <2>8, <2>9
       DEF Tracks, Apart, Holds, New, Committing, Undoing
  <2>11. MapsTo(disk, e)
    <3>1. Consistent(e)
      BY <1>2, <2>3, <2>5 DEF Consistent, Undoable, Accounted, Empty
    <3>2. Payload(e) = disk.live /\ Prior(e) = disk.live
      BY <2>3, <2>5, <2>6, <3>1, PayloadKept
    <3>3. Payload(disk) = disk.live /\ Prior(disk) = disk.live
      BY <1>2, PayloadLive
    <3> QED
      BY <3>2, <3>3 DEF MapsTo
  <2> QED
    BY <2>4, <2>10, <2>11, AttemptFailGoal
<1> QED
  BY <1>1, <1>2 DEF OpenJournal
-----------------------------------------------------------------------------
(* While a transaction is open.                                            *)

(* What a commit knows at each of its steps.                               *)
LEMMA CommitHere ==
  ASSUME Sure, Traced, run.pc \in Committing
  PROVE  /\ InFlight(disk) /\ disk \in Disk /\ run \in Run /\ run.idx \in 0..N+1
         /\ disk.live \in Tree /\ disk.stage \in Tree /\ disk.backup \in Tree
         /\ disk.journal.before \in Tree
         /\ run.plan \in Batch \ Batches(disk.journal.before)
         /\ ~SameTid(disk) /\ ~Published(disk) /\ Foreign(disk)
<1>1. InFlight(disk) /\ disk \in Disk /\ run \in Run /\ run.idx \in 0..N+1
  BY Here, InFlightHere
<1>2. /\ disk.live \in Tree /\ disk.stage \in Tree /\ disk.backup \in Tree
      /\ disk.journal.before \in Tree
  BY <1>1 DEF InFlight, Disk, Pending, Journal
<1>3. /\ run.plan \in Batch \ Batches(disk.journal.before)
      /\ ~SameTid(disk) /\ Foreign(disk)
  BY DEF Traced, Holds
<1> QED
  BY <1>1, <1>2, <1>3 DEF Published, Ready, SameTid

(* A disk that holds no old object where a new one belongs, whose marker   *)
(* is not yet of this transaction, may be rolled back.                     *)
LEMMA MayWithdraw ==
  ASSUME Sure, NEW d, Pending(d), Foreign(d), ~SameTid(d)
  PROVE  Tracks(d, Rollback("error"))
<1>1. Apart(d)
  BY DEF Apart
<1> QED
  BY <1>1, RollbackHolds DEF Tracks

LEMMA WithdrawGoal ==
  ASSUME Sure, Traced, run.pc \in Committing,
         disk' = disk, settled' = settled, Withdraw
  PROVE  Goal
<1>1. Tracks(disk, Rollback("error"))
  BY CommitHere, MayWithdraw DEF InFlight
<1>2. Tracks(disk', run')
  BY <1>1 DEF Withdraw, Goto
<1> QED
  BY <1>2, MapsToSelf, GoalFrame

LEMMA AnnounceGoal ==
  ASSUME Sure, Traced, Announce
  PROVE  Goal
<1>0. /\ run.pc = "announce" /\ Apart(disk) /\ Foreign(disk) /\ ~SameTid(disk)
      /\ run.plan \in Batch \ Batches(disk.journal.before)
      /\ \A p \in Path : disk.stage[p] = New(run)
  BY CommitHere DEF Announce, Committing, Traced, Holds
<1>1. CASE Proceed(disk, AtPath("backup", 1))
  <2> DEFINE r == AtPath("backup", 1)
  <2>1. r.pc = "backup" /\ r.idx = 1 /\ r.plan = run.plan
    BY AtType, Here, NAssumption DEF Steps
  <2> HIDE DEF r
  <2>2. \A p \in Path : ~(p < r.idx)
    BY <2>1, NAssumption DEF Path
  <2>3. Tracks(disk, r)
    BY <1>0, <2>1, <2>2 DEF Tracks, Holds, New, Committing, Undoing
  <2> QED
    BY <1>1, <2>3, MapsToSelf, ProceedGoal DEF r
<1> QED
  BY <1>1, RaiseGoal DEF Announce

LEMMA BackUpGoal ==
  ASSUME Sure, Traced, BackUp
  PROVE  Goal
<1>0. /\ run.pc = "backup" /\ run.pc \in Committing /\ Apart(disk)
      /\ \A p \in Path : IF p < run.idx THEN disk.live[p] = New(run)
                                        ELSE disk.stage[p] = New(run)
  BY DEF BackUp, Committing, Traced, Holds
<1>c. /\ InFlight(disk) /\ run \in Run /\ run.idx \in 0..N+1
      /\ run.plan \in Batch \ Batches(disk.journal.before)
      /\ ~SameTid(disk) /\ Foreign(disk)
  BY <1>0, CommitHere
<1>1. CASE run.idx > N /\ Proceed(disk, At("mark"))
  <2>1. At("mark").pc = "mark" /\ At("mark").plan = run.plan
    BY AtType, Here DEF Steps
  <2>2. \A p \in Path : p < run.idx
    BY <1>1, <1>c, NAssumption DEF Path
  <2>3. Tracks(disk, At("mark"))
    BY <1>0, <1>c, <2>1, <2>2 DEF Tracks, Holds, New, Committing, Undoing
  <2> QED
    BY <1>1, <2>3, MapsToSelf, ProceedGoal
<1>2. ASSUME NEW bad, Intruded(bad) \/ Raises(Withdraw)
      PROVE  Goal
  BY <1>0, <1>2, WithdrawGoal DEF Intruded, Raises
<1>3. ASSUME NEW s \in {"install", "setAside"}
      PROVE  Tracks(disk, At(s))
  <2>1. At(s).pc = s /\ At(s).plan = run.plan /\ At(s).idx = run.idx
    BY AtType, Here DEF Steps
  <2> QED
    BY <1>0, <1>c, <2>1 DEF Tracks, Holds, New, Committing, Undoing
<1>4. Tracks(disk, Rollback("error"))
  BY <1>c, MayWithdraw DEF InFlight
<1>5. CASE Proceed(disk, At("setAside"))
  BY <1>3, <1>5, MapsToSelf, ProceedGoal
<1>6. CASE Attempt(disk, At("install"), Withdraw)
  BY <1>3, <1>4, <1>6, MapsToSelf, AttemptWithdrawGoal
<1> QED
  BY <1>1, <1>2, <1>5, <1>6 DEF BackUp

LEMMA MoveAsideGoal ==
  ASSUME Sure, Traced, MoveAside
  PROVE  Goal
<1> DEFINE e == SetAside(disk, run.idx)
<1>0. /\ run.pc = "setAside" /\ run.pc \in Committing /\ run.idx \in Path
      /\ disk.journal.had[run.idx]
      /\ disk.live[run.idx] # NoFile /\ disk.backup[run.idx] = NoFile
      /\ \A p \in Path : IF p < run.idx THEN disk.live[p] = New(run)
                                        ELSE disk.stage[p] = New(run)
  BY Here DEF MoveAside, Committing, Moving, Knows, Traced, Holds
<1>c. /\ InFlight(disk) /\ disk \in Disk /\ run \in Run /\ run.idx \in 0..N+1
      /\ disk.live \in Tree /\ disk.stage \in Tree /\ disk.backup \in Tree
      /\ run.plan \in Batch \ Batches(disk.journal.before)
      /\ ~SameTid(disk) /\ Foreign(disk)
  BY <1>0, CommitHere
<1>1. /\ e \in Disk /\ e.journal = disk.journal /\ e.stage = disk.stage
      /\ e.live = [disk.live EXCEPT ![run.idx] = NoFile]
      /\ e.backup = [disk.backup EXCEPT ![run.idx] = disk.live[run.idx]]
  <2>1. disk \in Disk /\ run.idx \in Path
    BY <1>0, <1>c
  <2> QED
    BY <2>1, SetAsideFacts, Zenon
<1>2. e.marker = disk.marker
  BY <1>c DEF SetAside, Disk
<1>3. Attempt(e, At("install"), Withdraw) \/ (UNCHANGED <<disk, settled>> /\ Withdraw)
  BY DEF MoveAside, Rename
<1> HIDE DEF e
<1>4. Undoable(e)
  BY <1>0, <1>c, <1>1 DEF InFlight, Undoable, Accounted, Tree
<1>5. InFlight(e) /\ ~SameTid(e)
  BY <1>c, <1>1, <1>2, <1>4 DEF InFlight, Pending, SameTid
<1>6. Foreign(e)
  BY <1>0, <1>c, <1>1 DEF Foreign, NewIsLive, Tree
<1>7. MapsTo(disk, e)
  BY <1>c, <1>1, <1>5, InFlightMaps DEF Published, Ready, SameTid
<1>8. Tracks(e, Rollback("error")) /\ Tracks(disk, Rollback("error"))
  BY <1>c, <1>5, <1>6, MayWithdraw DEF InFlight
<1>9. ASSUME NEW p \in Path
      PROVE  IF p < run.idx THEN e.live[p] = New(run) ELSE e.stage[p] = New(run)
  BY <1>0, <1>c, <1>1 DEF Path, Tree
<1>10. At("install").pc = "install" /\ At("install").plan = run.plan
       /\ At("install").idx = run.idx
  BY AtType, Here DEF Steps
<1>11. Tracks(e, At("install"))
  BY <1>c, <1>1, <1>5, <1>6, <1>9, <1>10
     DEF Tracks, Apart, InFlight, Holds, New, Committing, Undoing
<1> QED
  BY <1>0, <1>3, <1>7, <1>8, <1>11, AttemptWithdrawGoal, WithdrawGoal

LEMMA InstallGoal ==
  ASSUME Sure, Traced, Install
  PROVE  Goal
<1>0. /\ run.pc = "install" /\ run.pc \in Committing /\ Apart(disk)
      /\ \A p \in Path : IF p < run.idx THEN disk.live[p] = New(run)
                                        ELSE disk.stage[p] = New(run)
  BY DEF Install, Committing, Traced, Holds
<1>c. /\ run.plan \in Batch \ Batches(disk.journal.before)
      /\ ~SameTid(disk) /\ Foreign(disk)
  BY <1>0, CommitHere
<1>1. CASE Intruded(~Vacant(run.idx)) \/ Raises(Withdraw)
  BY <1>0, <1>1, WithdrawGoal DEF Intruded, Raises
<1>2. CASE Proceed(disk, At("goLive"))
  <2>1. At("goLive").pc = "goLive" /\ At("goLive").plan = run.plan
        /\ At("goLive").idx = run.idx
    BY AtType, Here DEF Steps
  <2>2. Tracks(disk, At("goLive"))
    BY <1>0, <1>c, <2>1 DEF Tracks, Holds, New, Committing, Undoing
  <2> QED
    BY <1>2, <2>2, MapsToSelf, ProceedGoal
<1> QED
  BY <1>1, <1>2 DEF Install

LEMMA MoveLiveGoal ==
  ASSUME Sure, Traced, MoveLive
  PROVE  Goal
<1> DEFINE e == GoLive(disk, run.idx)
           r == AtPath("backup", run.idx + 1)
<1>0. /\ run.pc = "goLive" /\ run.pc \in Committing /\ run.idx \in Path
      /\ disk.live[run.idx] = NoFile
      /\ \A p \in Path : IF p < run.idx THEN disk.live[p] = New(run)
                                        ELSE disk.stage[p] = New(run)
  BY Here DEF MoveLive, Committing, Moving, Knows, Traced, Holds
<1>c. /\ InFlight(disk) /\ disk \in Disk
      /\ disk.live \in Tree /\ disk.stage \in Tree /\ disk.backup \in Tree
      /\ run.plan \in Batch \ Batches(disk.journal.before)
      /\ ~SameTid(disk) /\ Foreign(disk)
  BY <1>0, CommitHere
<1>1. /\ e \in Disk /\ e.journal = disk.journal /\ e.backup = disk.backup
      /\ e.live = [disk.live EXCEPT ![run.idx] = disk.stage[run.idx]]
      /\ e.stage = [disk.stage EXCEPT ![run.idx] = NoFile]
  <2>1. disk \in Disk /\ run.idx \in Path
    BY <1>0, <1>c
  <2> QED
    BY <2>1, GoLiveFacts, Zenon
<1>2. e.marker = disk.marker
  BY <1>c DEF GoLive, Disk
<1>3. Attempt(e, r, Withdraw) \/ (UNCHANGED <<disk, settled>> /\ Withdraw)
  BY DEF MoveLive, Rename
<1>4. r.pc = "backup" /\ r.plan = run.plan /\ r.idx = run.idx + 1
  <2>1. run.idx + 1 \in 0..N+1
    BY <1>0, NAssumption DEF Path
  <2> QED
    BY <2>1, AtType, Here DEF Steps
<1> HIDE DEF e, r
<1>5. Undoable(e)
  BY <1>0, <1>c, <1>1 DEF InFlight, Undoable, Accounted, Tree
<1>6. InFlight(e) /\ ~SameTid(e)
  BY <1>c, <1>1, <1>2, <1>5 DEF InFlight, Pending, SameTid
<1>7. Foreign(e)
  BY <1>0, <1>c, <1>1 DEF Foreign, NewIsLive, Tree
<1>8. MapsTo(disk, e)
  BY <1>c, <1>1, <1>6, InFlightMaps DEF Published, Ready, SameTid
<1>9. Tracks(e, Rollback("error")) /\ Tracks(disk, Rollback("error"))
  BY <1>c, <1>6, <1>7, MayWithdraw DEF InFlight
<1>10. ASSUME NEW p \in Path
       PROVE  IF p < r.idx THEN e.live[p] = New(run) ELSE e.stage[p] = New(run)
  <2>1. CASE p = run.idx
    <3>1. ~(p < run.idx) /\ p < r.idx
      BY <1>0, <1>4, <2>1, NAssumption DEF Path
    <3> QED
      BY <1>0, <1>c, <1>1, <2>1, <3>1 DEF Tree
  <2>2. CASE p # run.idx
    <3>1. p < r.idx <=> p < run.idx
      BY <1>0, <1>4, <2>2, NAssumption DEF Path
    <3> QED
      BY <1>0, <1>c, <1>1, <2>2, <3>1 DEF Tree
  <2> QED
    BY <2>1, <2>2
<1>11. Tracks(e, r)
  BY <1>c, <1>1, <1>4, <1>6, <1>7, <1>10
     DEF Tracks, Apart, InFlight, Holds, New, Committing, Undoing
<1> QED
  BY <1>0, <1>3, <1>8, <1>9, <1>11, AttemptWithdrawGoal, WithdrawGoal

LEMMA MarkGoal ==
  ASSUME Sure, Traced, Mark
  PROVE  Goal
<1>0. /\ run.pc = "mark" /\ run.pc \in Committing /\ Apart(disk)
      /\ \A p \in Path : disk.live[p] = New(run)
  BY DEF Mark, Committing, Traced, Holds
<1>c. /\ InFlight(disk) /\ disk \in Disk /\ disk.live \in Tree
      /\ disk.journal.before \in Tree
      /\ run.plan \in Batch \ Batches(disk.journal.before)
      /\ ~SameTid(disk) /\ ~Published(disk) /\ Foreign(disk)
  BY <1>0, CommitHere
<1>1. ASSUME NEW bad, Intruded(bad)  PROVE Goal
  BY <1>0, <1>1, WithdrawGoal DEF Intruded
<1>2. CASE Raises(Withdraw)
  BY <1>0, <1>2, WithdrawGoal DEF Raises
<1>3. CASE /\ Sound(disk.live)
           /\ Attempt(Marked(disk.journal.tid), At("publish"), Withdraw)
  <2>1. PICK t \in Tid : t = disk.journal.tid
    BY <1>c DEF InFlight, Disk, Pending, Journal
  <2> DEFINE e == Marked(t)
  <2>2. /\ e \in Disk /\ e.marker # NoRecord
        /\ e.live = disk.live /\ e.stage = disk.stage
        /\ e.backup = disk.backup /\ e.journal = disk.journal
        /\ e.marker = [tid |-> t, recipe |-> recipe, seal |-> disk.live]
    BY MarkedFacts, Here
  <2>3. Attempt(e, At("publish"), Withdraw)
    BY <1>3, <2>1
  <2> HIDE DEF e
  <2>4. InFlight(e)
    BY <1>c, <2>2 DEF InFlight, Undoable, Accounted, Pending
  <2>5. Published(e)
    BY <1>3, <2>1, <2>2, <2>4 DEF Published, Ready, InFlight
  <2>6. Foreign(e)
    BY <1>c, <2>2 DEF Foreign, NewIsLive
  <2>7. ASSUME NEW p \in Path
        PROVE  /\ e.marker.seal[p] # NoFile
               /\ e.marker.seal[p].batch \notin Batches(e.journal.before)
    <3>1. e.marker.seal[p] = New(run) /\ e.journal.before = disk.journal.before
      BY <1>0, <2>2
    <3>2. New(run).batch = run.plan /\ New(run) # NoFile
      BY <1>c, NoFileAssumption DEF New, Object, Form
    <3> QED
      BY <1>c, <3>1, <3>2
  <2>8. Apart(e)
    BY <2>4, <2>5, <2>7 DEF Apart, InFlight
  <2>9. Tracks(e, At("publish"))
    <3>1. At("publish").pc = "publish"
      BY AtType, Here DEF Steps
    <3> QED
      BY <2>8, <3>1, FreeHolds DEF Tracks
  <2>10. Tracks(e, Rollback("error"))
    BY <2>6, <2>8, RollbackHolds DEF Tracks
  <2>11. Tracks(disk, Rollback("error"))
    BY <1>c, MayWithdraw DEF InFlight
  <2>12. MapsTo(disk, e)
    <3>1. Payload(disk) = disk.journal.before /\ Prior(disk) = disk.journal.before
      BY <1>c, PayloadKept DEF InFlight, Consistent
    <3>2. Payload(e) = disk.live /\ Prior(e) = disk.journal.before
      BY <2>2, <2>4, <2>5, PayloadLive DEF InFlight
    <3>3. disk.live = [p \in Path |-> [batch |-> run.plan, form |-> "intact"]]
      BY <1>0, <1>c DEF New, Tree
    <3>4. disk.live \in Extracted
      BY <1>c, <3>3 DEF Extracted
    <3> QED
      BY <3>1, <3>2, <3>4 DEF MapsTo
  <2> QED
    BY <2>3, <2>9, <2>10, <2>11, <2>12, AttemptWithdrawGoal
<1> QED
  BY <1>1, <1>2, <1>3 DEF Mark
-----------------------------------------------------------------------------
(* Past the marker.                                                        *)

LEMMA FinishHere ==
  ASSUME Sure, Traced, run.pc \in Finishing
  PROVE  /\ Published(disk) /\ Pending(disk) /\ disk \in Disk /\ Consistent(disk)
         /\ Apart(disk) /\ disk.stage \in Tree /\ disk.backup \in Tree
  BY Here DEF Knows, Traced, Published, Disk

(* A published disk of which only the backup, the stage or the journal's   *)
(* flag changes.                                                           *)
LEMMA StillPublished ==
  ASSUME NEW d, Published(d), Apart(d),
         NEW e, Pending(e), e.live = d.live, e.marker = d.marker,
         e.journal.tid = d.journal.tid, e.journal.recipe = d.journal.recipe,
         e.journal.before = d.journal.before
  PROVE  Published(e) /\ Apart(e) /\ MapsTo(d, e)
<1>1. Published(e) /\ Pending(d)
  BY DEF Published, Ready
<1>2. Apart(e)
  BY <1>1 DEF Apart, SameTid
<1> QED
  BY <1>1, <1>2, LiveMaps

LEMMA PublishGoal ==
  ASSUME Sure, Traced, Publish
  PROVE  Goal
<1>0. /\ Published(disk) /\ Pending(disk) /\ disk \in Disk /\ Apart(disk)
  BY FinishHere DEF Publish, Finishing
<1>1. CASE Attempt([disk EXCEPT !.journal.published = TRUE],
                   At("settle"), Goto(At("settle")))
  <2> DEFINE j == [disk.journal EXCEPT !.published = TRUE]
             e == [disk EXCEPT !.journal.published = TRUE]
  <2>1. disk.journal \in Journal
    BY <1>0 DEF Disk, Pending
  <2>2. /\ j \in Journal /\ j.before = disk.journal.before
        /\ j.tid = disk.journal.tid /\ j.recipe = disk.journal.recipe
    BY <2>1 DEF Journal
  <2>3. e = [disk EXCEPT !.journal = j]
    BY <1>0 DEF Disk
  <2>4. Attempt(e, At("settle"), Goto(At("settle")))
    BY <1>1
  <2> HIDE DEF j, e
  <2>5. /\ e.journal = j /\ e.live = disk.live /\ e.marker = disk.marker
    BY <1>0, <2>3 DEF Disk
  <2>6. Pending(e)
    BY <2>2, <2>5, NoRecordAssumption DEF Pending
  <2>7. Apart(e) /\ MapsTo(disk, e)
    BY <1>0, <2>2, <2>5, <2>6, StillPublished
  <2>8. At("settle").pc = "settle"
    BY AtType, Here DEF Steps
  <2>9. Tracks(e, At("settle")) /\ Tracks(disk, At("settle")) /\ Tracks(e, Off)
    BY <1>0, <2>7, <2>8, FreeHolds, OffHolds DEF Tracks
  <2>10. Tracks(disk', run') /\ settled' \in {settled, disk'}
    BY <2>4, <2>9 DEF Attempt, Goto
  <2>11. MapsTo(disk, disk')
    BY <2>4, <2>7, MapsToSelf DEF Attempt
  <2> QED
    BY <2>10, <2>11, GoalFrame
<1>2. CASE Attempt(disk, Cleanup("done"), Fail)
  <2>1. Tracks(disk, Cleanup("done"))
    BY <1>0, GoalType, Here, FreeHolds DEF Tracks
  <2> QED
    BY <1>2, <2>1, MapsToSelf, AttemptFailGoal
<1> QED
  BY <1>1, <1>2 DEF Publish

LEMMA DropBackupGoal ==
  ASSUME Sure, Traced, Drop, run.pc = "dropBackup"
  PROVE  Goal
<1>0. /\ Published(disk) /\ Pending(disk) /\ disk \in Disk /\ Apart(disk)
  BY FinishHere DEF Finishing
<1>1. ASSUME NEW p \in Path, NEW o, Proceed([disk EXCEPT !.backup[p] = o], run)
      PROVE  Goal
  <2> DEFINE e == [disk EXCEPT !.backup[p] = o]
  <2>1. /\ e.live = disk.live /\ e.marker = disk.marker /\ e.journal = disk.journal
    BY <1>0 DEF Disk
  <2>2. Proceed(e, run)
    BY <1>1
  <2> HIDE DEF e
  <2>3. Apart(e) /\ MapsTo(disk, e)
    BY <1>0, <2>1, StillPublished DEF Pending
  <2>4. Tracks(e, run)
    BY <2>3, FreeHolds DEF Tracks
  <2> QED
    BY <2>2, <2>3, <2>4, ProceedGoal
<1>2. CASE Proceed(disk, At("dropStage"))
  BY <1>2, MoveGoal
<1>3. CASE Caught([At("dropStage") EXCEPT !.clean = FALSE])
  <2> DEFINE r == [At("dropStage") EXCEPT !.clean = FALSE]
  <2>1. r.pc = "dropStage"
    BY AtType, Here DEF Steps, Run
  <2> HIDE DEF r
  <2>2. Tracks(disk, r)
    BY <1>0, <2>1, FreeHolds DEF Tracks
  <2> QED
    BY <1>3, <2>2, CaughtGoal DEF r
<1> QED
  BY <1>1, <1>2, <1>3 DEF Drop

LEMMA DropStageGoal ==
  ASSUME Sure, Traced, Drop, run.pc = "dropStage"
  PROVE  Goal
<1>0. /\ Published(disk) /\ Pending(disk) /\ disk \in Disk /\ Apart(disk)
  BY FinishHere DEF Finishing
<1>1. ASSUME NEW p \in Path, NEW o, Proceed([disk EXCEPT !.stage[p] = o], run)
      PROVE  Goal
  <2> DEFINE e == [disk EXCEPT !.stage[p] = o]
  <2>1. /\ e.live = disk.live /\ e.marker = disk.marker /\ e.journal = disk.journal
    BY <1>0 DEF Disk
  <2>2. Proceed(e, run)
    BY <1>1
  <2> HIDE DEF e
  <2>3. Apart(e) /\ MapsTo(disk, e)
    BY <1>0, <2>1, StillPublished DEF Pending
  <2>4. Tracks(e, run)
    BY <2>3, FreeHolds DEF Tracks
  <2> QED
    BY <2>2, <2>3, <2>4, ProceedGoal
<1>2. At("dropJournal") \in Run /\ At("dropJournal").pc = "dropJournal"
  BY AtType, Here DEF Steps
<1>3. CASE disk.stage = Empty /\ Proceed(disk, At("dropJournal"))
  <2>1. Tracks(disk, At("dropJournal"))
    BY <1>0, <1>2, <1>3 DEF Tracks, Holds, Committing, Undoing
  <2> QED
    BY <1>3, <2>1, MapsToSelf, ProceedGoal
<1>4. CASE Caught([At("dropJournal") EXCEPT !.clean = FALSE])
  <2> DEFINE r == [At("dropJournal") EXCEPT !.clean = FALSE]
  <2>1. r.pc = "dropJournal" /\ ~r.clean
    BY <1>2 DEF Run
  <2> HIDE DEF r
  <2>2. Tracks(disk, r)
    BY <1>0, <2>1 DEF Tracks, Holds, Committing, Undoing
  <2> QED
    BY <1>4, <2>2, CaughtGoal DEF r
<1> QED
  BY <1>1, <1>3, <1>4 DEF Drop

LEMMA DropJournalGoal ==
  ASSUME Sure, Traced, Drop, run.pc = "dropJournal"
  PROVE  Goal
<1>0. /\ Published(disk) /\ Pending(disk) /\ disk \in Disk /\ Apart(disk)
      /\ run.clean => disk.stage = Empty
  BY FinishHere DEF Finishing, Traced, Holds
<1>1. At("sync").pc = "sync"
  BY AtType, Here DEF Steps
<1>2. CASE run.clean /\ Proceed([disk EXCEPT !.journal = NoRecord], At("sync"))
  <2> DEFINE e == [disk EXCEPT !.journal = NoRecord]
  <2>1. ~Pending(e) /\ e.live = disk.live /\ e.stage = Empty
    BY <1>0, <1>2 DEF Disk, Pending
  <2> HIDE DEF e
  <2>2. Apart(e)
    BY <2>1, EmptyStage DEF Apart
  <2>3. Tracks(e, At("sync"))
    BY <1>1, <2>2, FreeHolds DEF Tracks
  <2>4. MapsTo(disk, e)
    BY <1>0, <2>1, LiveMaps
  <2> QED
    BY <1>2, <2>3, <2>4, ProceedGoal DEF e
<1>3. CASE Proceed(disk, At("sync"))
  BY <1>3, MoveGoal
<1>4. CASE Caught(At("sync"))
  <2>1. Tracks(disk, At("sync"))
    BY <1>0, <1>1, FreeHolds DEF Tracks
  <2> QED
    BY <1>4, <2>1, CaughtGoal
<1> QED
  BY <1>2, <1>3, <1>4 DEF Drop, JournalMayGo

LEMMA SyncGoal ==
  ASSUME Sure, Traced, SyncWorkspace
  PROVE  Goal
<1>1. run.goal \in {"probe", "done"}
  BY Here DEF SyncWorkspace, Knows, Cleaning, Run
<1>2. At(run.goal).pc = run.goal
  BY <1>1, AtType, Here DEF Steps
<1>3. Tracks(disk, At(run.goal))
  BY <1>1, <1>2, FreeHolds DEF Traced, Tracks
<1>4. CASE disk' = disk /\ settled' = disk /\ Goto(At(run.goal))
  <2>1. Tracks(disk', run')
    BY <1>3, <1>4 DEF Goto
  <2> QED
    BY <1>4, <2>1, MapsToSelf, GoalFrame
<1>5. CASE Caught(At(run.goal))
  BY <1>3, <1>5, CaughtGoal
<1> QED
  BY <1>4, <1>5 DEF SyncWorkspace
-----------------------------------------------------------------------------
(* Rolling back, and the steps between runs.                               *)

(* What a rollback knows at each of its steps.                             *)
LEMMA UndoHere ==
  ASSUME Sure, Traced, run.pc \in Undoing
  PROVE  /\ InFlight(disk) /\ disk \in Disk /\ Pending(disk)
         /\ disk.live \in Tree /\ disk.stage \in Tree /\ disk.backup \in Tree
         /\ Apart(disk) /\ Foreign(disk)
         /\ SameTid(disk) =>
                \A p \in Path : /\ disk.marker.seal[p] # NoFile
                                /\ disk.marker.seal[p].batch \notin
                                       Batches(disk.journal.before)
         /\ \A d, r : Apart(d) /\ Foreign(d) /\ r.pc \in Undoing => Tracks(d, r)
<1>1. /\ InFlight(disk) /\ disk.live \in Tree /\ disk.stage \in Tree
      /\ disk.backup \in Tree /\ disk \in Disk
  BY UndoFacts, Here
<1>2. Apart(disk) /\ Foreign(disk)
  BY DEF Traced, Holds
<1>3. Pending(disk)
  BY <1>1 DEF InFlight
<1>4. \A d, r : Apart(d) /\ Foreign(d) /\ r.pc \in Undoing => Tracks(d, r)
  BY DEF Tracks, Holds, Committing, Undoing
<1> QED
  BY <1>1, <1>2, <1>3, <1>4 DEF Apart

LEMMA RollbackPathGoal ==
  ASSUME Sure, Traced, RollbackPath
  PROVE  Goal
<1>0. Apart(disk) /\ Foreign(disk)
  BY UndoHere DEF RollbackPath, Undoing
<1>1. ASSUME NEW r, r.pc \in Undoing, Proceed(disk, r)
      PROVE  Goal
  <2>1. Tracks(disk, r)
    BY <1>0, <1>1 DEF Tracks, Holds, Committing, Undoing
  <2> QED
    BY <1>1, <2>1, MapsToSelf, ProceedGoal
<1>2. CASE UNCHANGED <<disk, settled>> /\ Fail
  BY <1>2, FailGoal
<1>3. \A s \in Undoing : At(s).pc \in Undoing
  BY AtType, Here DEF Undoing, Steps
<1>4. CASE run.idx \in Path /\ Proceed(disk, AtPath("rollback", run.idx - 1))
  BY <1>1, <1>4, NextPath DEF Undoing
<1> QED
  BY <1>1, <1>2, <1>3, <1>4 DEF RollbackPath, Raises, Undoing

LEMMA MoveBackGoal ==
  ASSUME Sure, Traced, MoveBack
  PROVE  Goal
<1> DEFINE e == TakeBack(disk, run.idx)
           next == IF disk.journal.had[run.idx] THEN At("restore")
                   ELSE AtPath("rollback", run.idx - 1)
<1>0. /\ run.pc \in Undoing /\ run.idx \in Path /\ Returns(disk, run.idx)
  BY Here DEF MoveBack, Undoing, Moving, Knows
<1>c. /\ InFlight(disk) /\ disk \in Disk /\ Pending(disk)
      /\ disk.live \in Tree /\ disk.stage \in Tree /\ disk.backup \in Tree
      /\ Apart(disk) /\ Foreign(disk)
      /\ SameTid(disk) =>
             \A p \in Path : /\ disk.marker.seal[p] # NoFile
                             /\ disk.marker.seal[p].batch \notin
                                    Batches(disk.journal.before)
  BY <1>0, UndoHere
<1>1. /\ e \in Disk /\ e.journal = disk.journal /\ e.backup = disk.backup
      /\ e.live = [disk.live EXCEPT ![run.idx] = NoFile]
      /\ e.stage = [disk.stage EXCEPT ![run.idx] = disk.live[run.idx]]
  <2>1. disk \in Disk /\ run.idx \in Path
    BY <1>0, <1>c
  <2> QED
    BY <2>1, TakeBackFacts, Zenon
<1>2. e.marker = disk.marker
  BY <1>c DEF TakeBack, Disk
<1>3. Attempt(e, next, Fail) \/ (UNCHANGED <<disk, settled>> /\ Fail)
  BY DEF MoveBack, Rename
<1>4. next.pc \in Undoing
  <2>1. At("restore").pc = "restore" /\ AtPath("rollback", run.idx - 1).pc = "rollback"
    BY <1>0, NextPath, AtType, Here DEF Steps
  <2> QED
    BY <2>1 DEF Undoing
<1> HIDE DEF e, next
<1>5. Undoable(e)
  BY <1>0, <1>c, <1>1 DEF InFlight, Undoable, Accounted, Returns, Blocked, Tree
<1>6. InFlight(e)
  BY <1>c, <1>1, <1>5 DEF InFlight, Pending
<1>7. ~Published(e)
  BY <1>0, <1>c, <1>1 DEF Published, Ready, Sound, Tree
<1>8. Foreign(e)
  BY <1>0, <1>c, <1>1 DEF Foreign, NewIsLive, Returns, Tree
<1>9. Apart(e)
  BY <1>c, <1>1, <1>2, <1>8 DEF Apart, SameTid, Pending
<1>10. MapsTo(disk, e)
  BY <1>c, <1>1, <1>6, <1>7, InFlightMaps
<1>11. Tracks(e, next)
  BY <1>0, <1>4, <1>8, <1>9, UndoHere
<1> QED
  BY <1>3, <1>10, <1>11, AttemptFailGoal, FailGoal

LEMMA PutBackGoal ==
  ASSUME Sure, Traced, PutBack
  PROVE  Goal
<1> DEFINE e == Restore(disk, run.idx)
           r == AtPath("rollback", run.idx - 1)
<1>0. /\ run.pc \in Undoing /\ run.idx \in Path /\ Restores(disk, run.idx)
  BY Here DEF PutBack, Undoing, Moving, Knows
<1>c. /\ InFlight(disk) /\ disk \in Disk /\ Pending(disk)
      /\ disk.live \in Tree /\ disk.stage \in Tree /\ disk.backup \in Tree
      /\ Apart(disk) /\ Foreign(disk)
      /\ SameTid(disk) =>
             \A p \in Path : /\ disk.marker.seal[p] # NoFile
                             /\ disk.marker.seal[p].batch \notin
                                    Batches(disk.journal.before)
  BY <1>0, UndoHere
<1>1. /\ e \in Disk /\ e.journal = disk.journal /\ e.stage = disk.stage
      /\ e.backup = [disk.backup EXCEPT ![run.idx] = NoFile]
      /\ e.live = [disk.live EXCEPT ![run.idx] = disk.backup[run.idx]]
  <2>1. disk \in Disk /\ run.idx \in Path
    BY <1>0, <1>c
  <2> QED
    BY <2>1, RestoreFacts, Zenon
<1>2. e.marker = disk.marker
  BY <1>c DEF Restore, Disk
<1>3. Attempt(e, r, Fail) \/ (UNCHANGED <<disk, settled>> /\ Fail)
  BY DEF PutBack, Rename
<1>4. r.pc \in Undoing
  BY <1>0, NextPath DEF Undoing
<1> HIDE DEF e, r
<1>5. disk.backup[run.idx] = disk.journal.before[run.idx]
  BY <1>0, <1>c DEF InFlight, Undoable, Accounted, Restores
<1>6. Undoable(e)
  BY <1>0, <1>c, <1>1, <1>5 DEF InFlight, Undoable, Accounted, Restores, Tree
<1>7. InFlight(e)
  BY <1>c, <1>1, <1>6 DEF InFlight, Pending
<1>8. e.live[run.idx] = e.journal.before[run.idx]
  BY <1>0, <1>c, <1>1, <1>5 DEF Tree
<1>9. ~Published(e)
  <2>1. SUFFICES ASSUME Published(e) PROVE FALSE
    OBVIOUS
  <2>2. SameTid(disk) /\ disk.marker.seal = e.live
    BY <1>1, <1>2, <2>1 DEF Published, Ready, SameTid
  <2>3. /\ disk.marker.seal[run.idx] # NoFile
        /\ disk.marker.seal[run.idx].batch \notin Batches(disk.journal.before)
    BY <1>0, <1>c, <2>2
  <2>4. disk.marker.seal[run.idx] = disk.journal.before[run.idx]
    BY <1>1, <1>8, <2>2
  <2> QED
    BY <1>0, <2>3, <2>4 DEF Batches
<1>10. Foreign(e)
  BY <1>0, <1>c, <1>1 DEF Foreign, NewIsLive, Restores, Tree
<1>11. Apart(e)
  BY <1>c, <1>1, <1>2, <1>10 DEF Apart, SameTid, Pending
<1>12. MapsTo(disk, e)
  BY <1>c, <1>1, <1>7, <1>9, InFlightMaps
<1>13. Tracks(e, r)
  BY <1>0, <1>4, <1>10, <1>11, UndoHere
<1> QED
  BY <1>3, <1>12, <1>13, AttemptFailGoal, FailGoal

LEMMA ClearJournalGoal ==
  ASSUME Sure, Traced, ClearJournal
  PROVE  Goal
<1>0. /\ InFlight(disk) /\ disk.live \in Tree /\ disk \in Disk
      /\ run.pc = "clear" /\ Apart(disk) /\ Foreign(disk)
      /\ \A p \in Path : disk.live[p] = disk.journal.before[p]
  BY UndoFacts, Here DEF ClearJournal, Undoing, Traced, Holds, Undone
<1>1. CASE UNCHANGED <<disk, settled>> /\ Fail
  BY <1>1, FailGoal
<1>2. disk.live = disk.journal.before
  <2>1. disk.journal.before \in Tree
    BY <1>0 DEF InFlight, Disk, Pending, Journal
  <2> QED
    BY <1>0, <2>1 DEF Tree
<1>3. ASSUME NEW e, e = [disk EXCEPT !.journal = NoRecord],
             \/ disk' = e /\ settled' = e /\ AfterRollback
             \/ disk' \in {disk, e} /\ UNCHANGED settled /\ Fail
             \/ disk' = e /\ UNCHANGED settled /\ Goto(Off)
      PROVE  Goal
  <2>1. ~Pending(e) /\ e.live = disk.live /\ e.stage = disk.stage
    BY <1>0, <1>3 DEF Disk, Pending
  <2>2. Apart(e)
    BY <1>0, <1>2, <2>1 DEF Apart, Foreign
  <2>3. At("probe").pc = "probe"
    BY AtType, Here DEF Steps
  <2>4. Tracks(e, At("probe")) /\ Tracks(e, Off) /\ Tracks(disk, Off)
    BY <1>0, <2>2, <2>3, FreeHolds, OffHolds DEF Tracks
  <2>5. Tracks(disk', run') /\ settled' \in {settled, disk'}
    BY <1>3, <2>4 DEF AfterRollback, Goto, Fail
  <2>6. MapsTo(disk, e)
    <3>1. Payload(e) = disk.live /\ Prior(e) = disk.live
      BY <2>1, PayloadLive
    <3>2. Prior(disk) = disk.live
      BY <1>0, <1>2 DEF Prior, InFlight
    <3> QED
      BY <3>1, <3>2 DEF MapsTo
  <2>7. MapsTo(disk, disk')
    BY <1>3, <2>6, MapsToSelf
  <2> QED
    BY <2>5, <2>7, GoalFrame
<1> QED
  BY <1>1, <1>3 DEF ClearJournal

LEMMA EditGoal ==
  ASSUME Sure, Traced, Edit
  PROVE  Goal
<1>1. PICK p \in Path, o \in Object \cup {NoFile} :
         /\ disk.live[p] # NoFile /\ disk' = [disk EXCEPT !.live[p] = o]
         /\ o # NoFile => o.batch = disk.live[p].batch
  <2>1. PICK p \in Path : \E o \in Damages(disk.live[p]) :
            disk.live[p] # NoFile /\ disk' = [disk EXCEPT !.live[p] = o]
    BY DEF Edit, Touch
  <2>2. PICK o \in Damages(disk.live[p]) :
            disk.live[p] # NoFile /\ disk' = [disk EXCEPT !.live[p] = o]
    BY <2>1
  <2>3. disk.live[p] \in Object
    BY <2>2, Here DEF Disk, Tree
  <2>4. o \in Object \cup {NoFile} /\ (o # NoFile => o.batch = disk.live[p].batch)
    BY <2>3 DEF Damages, Object, Form
  <2> QED
    BY <2>2, <2>4
<1> DEFINE t == [disk.live EXCEPT ![p] = o]
<1>2. /\ disk'.live = t /\ disk'.stage = disk.stage
      /\ ~Pending(disk) /\ ~Pending(disk') /\ t \in Tree /\ disk.live \in Tree
      /\ run' = Off /\ settled' = settled
  BY <1>1, TreeUpdate, Here DEF Edit, Touch, Disk, Pending
<1>3. Batches(t) \subseteq Batches(disk.live)
  <2>1. ASSUME NEW q \in Path, t[q] # NoFile
        PROVE  disk.live[q] # NoFile /\ t[q].batch = disk.live[q].batch
    BY <1>1, <1>2, <2>1 DEF Tree
  <2> QED
    BY <2>1 DEF Batches
<1> HIDE DEF t
<1>4. Apart(disk')
  BY <1>2, <1>3 DEF Traced, Apart
<1>5. Tracks(disk', run')
  BY <1>2, <1>4, OffHolds DEF Tracks
<1>6. MapsTo(disk, disk')
  BY <1>2, PayloadLive DEF MapsTo
<1> QED
  BY <1>2, <1>5, <1>6, GoalFrame

LEMMA RunGoal ==
  ASSUME Sure, Traced, RunStep, ~Mistaken
  PROVE  Goal
<1>1. CASE Drop
  BY <1>1, DropBackupGoal, DropStageGoal, DropJournalGoal DEF Drop
<1> QED
  BY <1>1, RecoverGoal, ProbeGoal, AdoptGoal, PlanGoal, ExtractGoal, CheckGoal,
     OpenJournalGoal, AnnounceGoal, BackUpGoal, MoveAsideGoal, InstallGoal,
     MoveLiveGoal, MarkGoal, PublishGoal, SyncGoal, ReportGoal, RollbackPathGoal,
     MoveBackGoal, PutBackGoal, ClearJournalGoal
     DEF RunStep

(* All steps but the power cut, which puts the disk back.                  *)
LEMMA NextGoal ==
  ASSUME Sure, Traced, Next, RunStep => ~Mistaken, ~PowerCut
  PROVE  Goal
<1>1. CASE RunStep
  BY <1>1, RunGoal
<1>2. CASE Start
  BY <1>2, StartGoal
<1>3. CASE Kill
  <2>1. Tracks(disk', run') /\ disk' = disk /\ settled' = settled
    BY <1>3, OffHolds DEF Kill, Traced, Tracks
  <2> QED
    BY <2>1, MapsToSelf, GoalFrame
<1>4. CASE Writeback
  <2>1. Tracks(disk', run') /\ disk' = disk /\ settled' \in {settled, disk'}
    BY <1>4 DEF Writeback, Traced, Tracks
  <2> QED
    BY <2>1, MapsToSelf, GoalFrame
<1>5. CASE Edit
  BY <1>5, EditGoal
<1>6. CASE Upgrade
  <2>1. Tracks(disk', run') /\ disk' = disk /\ settled' = settled
    BY <1>6 DEF Upgrade, Traced, Tracks
  <2> QED
    BY <2>1, MapsToSelf, GoalFrame
<1> QED
  BY <1>1, <1>2, <1>3, <1>4, <1>5, <1>6 DEF Next
-----------------------------------------------------------------------------
(* Where the objects come from, at every moment.                           *)

LEMMA TracedInit == Init => Traced
<1> SUFFICES ASSUME Init PROVE Traced
  OBVIOUS
<1>1. ~Pending(disk) /\ disk.stage = Empty /\ settled = disk
  BY DEF Init, Pending
<1>2. Apart(disk)
  BY <1>1, EmptyStage DEF Apart
<1> QED
  BY <1>1, <1>2, OffHolds DEF Init, Traced

LEMMA TracedStep ==
  ASSUME Sure, Traced, [Next]_vars, RunStep => ~Mistaken
  PROVE  Traced'
<1>1. CASE Next /\ ~PowerCut
  BY <1>1, NextGoal DEF Goal
<1>2. CASE PowerCut
  <2>1. disk' = settled /\ settled' = settled /\ run' = Off
    BY <1>2 DEF PowerCut
  <2> QED
    BY <2>1, OffHolds DEF Traced
<1>3. CASE UNCHANGED vars
  BY <1>3 DEF vars, Traced
<1> QED
  BY <1>1, <1>2, <1>3

(* Until a failed read takes the account of a transaction away, its        *)
(* objects are never mixed with those it replaces, on disk or after a      *)
(* power cut, and a commit never reaches the marker with less than one     *)
(* whole extraction (commit_stage, Extract, rollback_transaction).         *)
THEOREM ObjectsAreTraced == Spec => [](misread \/ Traced)
<1>1. Init => (misread \/ Traced)
  BY TracedInit
<1>2. IInv /\ (misread \/ Traced) /\ [Next]_vars => (misread \/ Traced)'
  BY MisreadStep, TracedStep DEF IInv, SharedInv, Sure
<1> QED
  BY <1>1, <1>2, Inductive, PTL DEF Spec
-----------------------------------------------------------------------------
(* The refinement.                                                         *)

LEMMA AtomicInit == Init => Installs!Init
<1> SUFFICES ASSUME Init PROVE Installs!Init
  OBVIOUS
<1>1. PICK t \in Tree :
         disk = [live |-> t, stage |-> Empty, backup |-> Empty,
                 journal |-> NoRecord, marker |-> NoRecord]
  BY DEF Init
<1>2. Payload(disk) = t /\ Prior(disk) = t
  BY <1>1, PayloadLive DEF Pending
<1>3. settled = disk /\ misread = FALSE
  BY DEF Init
<1> QED
  BY <1>2, <1>3 DEF Installs!Init, Installs!Settled

(* The five shapes of MapsTo are the five moves of AtomicInstall.          *)
LEMMA AtomicMove ==
  ASSUME MapsTo(disk, disk'), settled' \in {settled, disk'}, ~misread, ~misread'
  PROVE  Installs!Next
<1> DEFINE P(d) == [payload |-> Payload(d), prior |-> Prior(d)]
<1>1. P(settled)' \in {P(settled), P(disk)'}
  OBVIOUS
<1>2. Installs!Persisted
  BY <1>1 DEF Installs!Persisted
<1>3. CASE Payload(disk') = Payload(disk) /\ Prior(disk') = Prior(disk)
  BY <1>2, <1>3 DEF Installs!Next
<1>4. CASE /\ Payload(disk) = Prior(disk) /\ Payload(disk') \in Extracted
           /\ Prior(disk') = Prior(disk)
  BY <1>2, <1>4 DEF Installs!Next, Installs!Publish
<1>5. CASE Payload(disk') = Prior(disk) /\ Prior(disk') = Prior(disk)
  BY <1>2, <1>5 DEF Installs!Next, Installs!Withdraw, Installs!Settled
<1>6. CASE Payload(disk') = Payload(disk) /\ Prior(disk') = Payload(disk)
  BY <1>2, <1>6 DEF Installs!Next, Installs!Confirm, Installs!Settled
<1>7. CASE /\ Payload(disk) = Prior(disk) /\ Payload(disk') \in Tree
           /\ Prior(disk') = Payload(disk')
  BY <1>2, <1>7 DEF Installs!Next, Installs!Edit, Installs!Settled
<1> QED
  BY <1>3, <1>4, <1>5, <1>6, <1>7 DEF MapsTo

(* What is taken for a bad payload is a published one, and no part of it   *)
(* was there before.                                                       *)
LEMMA MistakenDoubt ==
  ASSUME Sure, Traced, RunStep, Mistaken
  PROVE  Payload(disk) # Prior(disk)
<1>1. Published(disk) /\ Pending(disk)
  BY Here DEF Mistaken, Knows, Before, Published
<1>2. Payload(disk) = disk.live /\ Prior(disk) = disk.journal.before
  BY <1>1, PayloadLive
<1>3. /\ SameTid(disk) /\ disk.marker.seal = disk.live /\ Apart(disk)
  BY <1>1 DEF Published, Ready, SameTid, Traced
<1>4. 1 \in Path
  BY NAssumption DEF Path
<1>5. disk.live[1] # NoFile /\ disk.live[1].batch \notin Batches(disk.journal.before)
  BY <1>1, <1>3, <1>4 DEF Apart
<1> QED
  BY <1>2, <1>4, <1>5 DEF Batches

LEMMA AtomicStep ==
  IInv /\ (misread \/ Traced) /\ [Next]_vars => [Installs!Next]_(Installs!vars)
<1> SUFFICES ASSUME IInv, misread \/ Traced, [Next]_vars
             PROVE  [Installs!Next]_(Installs!vars)
  OBVIOUS
<1>b. misread \in BOOLEAN /\ misread' \in BOOLEAN
  BY IInvStep DEF IInv, SharedInv, TypeOK
<1>1. CASE misread
  <2>1. misread'
    BY <1>1, <1>b DEF Next, RunStep, Start, Kill, PowerCut, Writeback, Edit, Touch,
                 Upgrade, vars, history
  <2> QED
    BY <1>1, <2>1 DEF Installs!Next
<1>2. CASE ~misread /\ misread'
  <2>1. RunStep /\ Mistaken
    BY <1>2, <1>b DEF Next, RunStep, Start, Kill, PowerCut, Writeback, Edit, Touch,
                 Upgrade, vars, history
  <2>2. Payload(disk) # Prior(disk)
    BY <1>2, <2>1, MistakenDoubt DEF IInv, SharedInv, Sure
  <2> QED
    BY <1>2, <2>2 DEF Installs!Next, Installs!Doubt
<1>3. CASE ~misread /\ ~misread'
  <2>0. Sure /\ Traced /\ (RunStep => ~Mistaken)
    BY <1>3, MisreadStep DEF IInv, SharedInv, Sure
  <2>1. CASE Next /\ ~PowerCut
    BY <1>3, <2>0, <2>1, NextGoal, AtomicMove DEF Goal
  <2>2. CASE PowerCut
    <3>1. disk' = settled /\ settled' = settled
      BY <2>2 DEF PowerCut
    <3>2. Installs!PowerCut
      BY <3>1 DEF Installs!PowerCut
    <3> QED
      BY <1>3, <3>2 DEF Installs!Next
  <2>3. CASE UNCHANGED vars
    <3>1. disk' = disk /\ settled' = settled /\ misread' = misread
      BY <2>3 DEF vars, history
    <3> QED
      BY <3>1 DEF Installs!vars
  <2> QED
    BY <2>1, <2>2, <2>3
<1> QED
  BY <1>1, <1>2, <1>3

(* An install is one step for any number of paths and faults: wherever the *)
(* process dies, the power goes or an operation fails, the next run finds  *)
(* or makes the whole new payload or the whole old one (commit_stage,      *)
(* recover_transaction, rollback_transaction); a published payload that a  *)
(* failed read makes it doubt while it can still be withdrawn ends that.   *)
THEOREM InstallIsAlwaysAtomic == Spec => InstallIsAtomic
<1>1. Init => Installs!Init
  BY AtomicInit
<1>2. IInv /\ (misread \/ Traced) /\ [Next]_vars => [Installs!Next]_(Installs!vars)
  BY AtomicStep
<1> QED
  BY <1>1, <1>2, Inductive, ObjectsAreTraced, PTL
     DEF Spec, InstallIsAtomic, Installs!Spec
-----------------------------------------------------------------------------
(* What a success rests on.  A step is quiet when it leads to a place from *)
(* which no success follows without another fsync.                         *)

Quiet(r) == /\ r.pc \notin {"off", "adopted", "publish", "settle", "done"}
            /\ r.pc \in Cleaning => r.goal # "done"

Secure == /\ Lasting(disk, recipe) /\ Lasting(settled, recipe)
          /\ settled.live = disk.live

LEMMA QuietStep ==
  ASSUME \/ Quiet(run') /\ outcome' = "none"
         \/ run' = Off /\ outcome' \in {"none", "error"}
  PROVE  Assured'
<1>1. Off.pc = "off"
  BY OffType
<1>2. ~Succeeding'
  BY <1>1 DEF Succeeding, Quiet, Cleaning
<1>3. SuccessIsDurable'
  BY DEF SuccessIsDurable
<1> QED
  BY <1>1, <1>2, <1>3 DEF Assured, Quiet

LEMMA SecureStep ==
  ASSUME Secure', outcome' = "none"
  PROVE  Assured'
  BY DEF Secure, Assured, SuccessIsDurable

LEMMA QuietProceed ==
  ASSUME Assured, run.pc # "off", NEW d, NEW next, Quiet(next),
         Proceed(d, next) \/ Caught(next)
  PROVE  Assured'
  BY QuietStep DEF Assured, Proceed, Caught, Goto

LEMMA QuietFail ==
  ASSUME Fail
  PROVE  Assured'
  BY QuietStep DEF Fail

LEMMA QuietAttempt ==
  ASSUME Assured, run.pc # "off", NEW d, NEW next, Quiet(next), Attempt(d, next, Fail)
  PROVE  Assured'
  BY QuietStep DEF Assured, Attempt, Goto, Fail

(* Places a step can lead to.                                              *)
Early == {"recover", "probe", "adopt", "plan", "extract", "check", "journal",
          "announce", "backup", "setAside", "install", "goLive", "mark", "rollback",
          "takeBack", "restore", "clear"}

LEMMA QuietPlaces ==
  ASSUME Sure
  PROVE  /\ \A s \in Early : Quiet(At(s))
         /\ \A s \in Early, i \in 0..N+1 : Quiet(AtPath(s, i))
         /\ \A g \in {"probe", "done", "error"} : Quiet(Rollback(g))
         /\ Quiet(Cleanup("probe"))
         /\ \A r : r.pc \in Early => Quiet(r)
<1>1. \A r : r.pc \in Early => Quiet(r)
  BY DEF Early, Quiet, Cleaning
<1>2. ASSUME NEW s \in Early
      PROVE  s \in Steps
  BY DEF Early, Steps
<1>3. ASSUME NEW s \in Early  PROVE Quiet(At(s))
  BY <1>1, <1>2, NAssumption, AtType, Here
<1>4. ASSUME NEW s \in Early, NEW i \in 0..N+1  PROVE Quiet(AtPath(s, i))
  BY <1>1, <1>2, AtType, Here
<1>5. ASSUME NEW g \in {"probe", "done", "error"}  PROVE Quiet(Rollback(g))
  BY <1>1, GoalType, Here DEF Early
<1>6. Quiet(Cleanup("probe"))
  BY GoalType, Here DEF Quiet, Cleaning
<1> QED
  BY <1>1, <1>3, <1>4, <1>5, <1>6

LEMMA QuietWithdraw ==
  ASSUME Sure, Assured, run.pc # "off", Withdraw
  PROVE  Assured'
  BY QuietStep, QuietPlaces DEF Withdraw, Goto, Assured

LEMMA QuietAttemptWithdraw ==
  ASSUME Sure, Assured, run.pc # "off", NEW d, NEW next, Quiet(next),
         Attempt(d, next, Withdraw)
  PROVE  Assured'
<1>1. CASE Withdraw
  BY <1>1, QuietWithdraw
<1>2. CASE Goto(next) \/ Goto(Off)
  BY <1>2, QuietStep DEF Goto, Assured
<1> QED
  BY <1>1, <1>2 DEF Attempt

(* The steps before the marker, and those of a rollback.                   *)
LEMMA EarlySteps ==
  ASSUME Sure, Assured,
         \/ Recover \/ Plan \/ Extract \/ Check \/ OpenJournal \/ Announce
         \/ BackUp \/ MoveAside \/ Install \/ MoveLive
         \/ RollbackPath \/ MoveBack \/ PutBack \/ ClearJournal
  PROVE  Assured'
<1> USE QuietPlaces
<1>0. run.idx \in 0..N+1 /\ run \in Run /\ N \in Nat /\ N # 0
  BY Here, NAssumption
<1>i. ASSUME run.idx \in Path
      PROVE  run.idx + 1 \in 0..N+1 /\ run.idx - 1 \in 0..N+1
  BY <1>0, <1>i DEF Path
<1>1. CASE Recover
  BY <1>1, QuietProceed, QuietFail DEF Recover, Early, Raises
<1>2. CASE Plan
  <2>1. ASSUME NEW g  PROVE Quiet([AtPath("extract", 1) EXCEPT !.plan = g])
    <3>1. AtPath("extract", 1) \in Run /\ AtPath("extract", 1).pc = "extract"
      BY AtType, Here, NAssumption DEF Steps
    <3>2. [AtPath("extract", 1) EXCEPT !.plan = g].pc = "extract"
      BY <3>1 DEF Run
    <3> QED
      BY <3>2 DEF Quiet, Cleaning
  <2> QED
    BY <1>2, <2>1, QuietProceed, QuietFail DEF Plan
<1>3. CASE Extract
  <2>1. Quiet(run)
    BY <1>3 DEF Extract, Early
  <2> QED
    BY <1>3, <1>i, <2>1, QuietProceed, QuietFail DEF Extract, Early, Raises
<1>4. CASE Check
  BY <1>4, QuietProceed, QuietFail DEF Check, Early, Raises
<1>5. CASE OpenJournal
  BY <1>5, QuietAttempt, QuietFail DEF OpenJournal, Early
<1>6. CASE Announce
  BY <1>0, <1>6, QuietProceed, QuietFail DEF Announce, Early, Raises
<1>7. CASE BackUp
  BY <1>7, QuietProceed, QuietWithdraw, QuietAttemptWithdraw
     DEF BackUp, Early, Intruded, Raises
<1>m. run.pc \in Moving => run.idx \in Path
  BY Here
<1>8. CASE Install
  BY <1>8, QuietProceed, QuietWithdraw DEF Install, Early, Intruded, Raises
<1>9. CASE RollbackPath
  BY <1>9, <1>i, QuietProceed, QuietFail DEF RollbackPath, Early, Raises
<1>11. CASE MoveAside
  BY <1>11, QuietAttemptWithdraw, QuietWithdraw DEF MoveAside, Rename, Early
<1>12. CASE MoveLive
  <2>1. Quiet(AtPath("backup", run.idx + 1))
    BY <1>12, <1>i, <1>m DEF MoveLive, Moving, Early
  <2> QED
    BY <1>12, <2>1, QuietAttemptWithdraw, QuietWithdraw DEF MoveLive, Rename
<1>13. CASE MoveBack
  <2>1. Quiet(AtPath("rollback", run.idx - 1)) /\ Quiet(At("restore"))
    BY <1>13, <1>i, <1>m DEF MoveBack, Moving, Early
  <2>2. Quiet(IF disk.journal.had[run.idx] THEN At("restore")
                                            ELSE AtPath("rollback", run.idx - 1))
    BY <2>1
  <2> QED
    BY <1>13, <2>2, QuietAttempt, QuietFail DEF MoveBack, Rename
<1>14. CASE PutBack
  <2>1. Quiet(AtPath("rollback", run.idx - 1))
    BY <1>14, <1>i, <1>m DEF PutBack, Moving, Early
  <2> QED
    BY <1>14, <2>1, QuietAttempt, QuietFail DEF PutBack, Rename
<1>10. CASE ClearJournal
  BY <1>10, QuietStep, QuietFail
     DEF ClearJournal, AfterRollback, Goto, Early, Assured
<1> QED
  BY <1>1, <1>2, <1>3, <1>4, <1>5, <1>6, <1>7, <1>8, <1>9, <1>10,
     <1>11, <1>12, <1>13, <1>14

(* Reporting: the outcome is "error", or what the run has made true.       *)
LEMMA SucceedAssured ==
  ASSUME Assured, recipe' = recipe, NEW code, Succeed(code),
         Secure \/ (code = "ready" /\ Lasting(disk, recipe))
  PROVE  Assured'
<1>1. CASE outcome' = "error"
  BY <1>1, QuietStep DEF Succeed
<1>2. CASE outcome' = code
  <2>1. run' = Off /\ disk' = disk /\ settled' = settled
    BY DEF Succeed
  <2>2. SuccessIsDurable'
    BY <1>2, <2>1 DEF SuccessIsDurable, Secure
  <2>3. run'.pc = "off" /\ ~Succeeding'
    BY <2>1, OffType DEF Succeeding, Cleaning
  <2> QED
    BY <2>2, <2>3 DEF Assured
<1> QED
  BY <1>1, <1>2 DEF Succeed

LEMMA ProbeAssured ==
  ASSUME Sure, Assured, recipe' = recipe, Probe
  PROVE  Assured'
<1>1. Ready(disk, recipe) => Lasting(disk, recipe)
  BY Here DEF Probe, Knows, Before, Lasting
<1> QED
  BY <1>1, QuietPlaces, QuietProceed, SucceedAssured DEF Probe, Early

LEMMA ReportAssured ==
  ASSUME Sure, Assured, recipe' = recipe, Report
  PROVE  Assured'
<1>1. Secure
  BY DEF Report, Assured, Succeeding, Secure
<1> QED
  BY <1>1, SucceedAssured, QuietFail DEF Report, Raises

LEMMA AdoptAssured ==
  ASSUME Sure, Assured, recipe' = recipe, Adopt, ~Mistaken
  PROVE  Assured'
<1>0. outcome = "none"
  BY DEF Adopt, Assured
<1>1. CASE Proceed(disk, At("plan")) \/ Caught(At("plan"))
  BY <1>1, QuietPlaces, QuietProceed DEF Adopt, Early
<1>2. ASSUME Sound(disk.live), NEW t \in Tid, FreshTid(t),
             Attempt(Marked(t), At("adopted"), Fail)
      PROVE  Assured'
  <2> DEFINE e == Marked(t)
  <2>1. /\ e.live = disk.live /\ e.marker # NoRecord /\ e.journal = disk.journal
        /\ e.marker = [tid |-> t, recipe |-> recipe, seal |-> disk.live]
    BY MarkedFacts, Here
  <2>2. Attempt(e, At("adopted"), Fail)
    BY <1>2
  <2>3. Pending(disk) => Fail
    BY <1>2, AdoptPending
  <2> HIDE DEF e
  <2>4. ~Pending(disk) => Lasting(e, recipe)
    BY <1>2, <2>1 DEF Ready, Lasting, Pending
  <2>5. CASE ~Pending(disk) /\ disk' = e /\ settled' = e /\ Goto(At("adopted"))
    BY <1>0, <2>4, <2>5, SecureStep DEF Secure, Goto
  <2>6. CASE Fail
    BY <2>6, QuietFail
  <2>7. CASE Goto(Off)
    BY <1>0, <2>7, QuietStep DEF Goto
  <2> QED
    BY <2>2, <2>3, <2>5, <2>6, <2>7 DEF Attempt
<1> QED
  BY <1>1, <1>2, QuietFail DEF Adopt, Raises

LEMMA MarkAssured ==
  ASSUME Sure, Assured, recipe' = recipe, Mark
  PROVE  Assured'
<1>0. outcome = "none" /\ run.pc # "off" /\ run.pc \in Committing
  BY DEF Mark, Assured, Committing
<1>1. CASE Withdraw
  BY <1>0, <1>1, QuietWithdraw
<1>2. CASE Sound(disk.live) /\ Attempt(Marked(disk.journal.tid), At("publish"), Withdraw)
  <2>0. InFlight(disk)
    BY <1>0, InFlightHere
  <2>1. PICK t \in Tid : t = disk.journal.tid
    BY <2>0 DEF InFlight, Disk, Pending, Journal
  <2> DEFINE e == Marked(t)
  <2>2. /\ e.live = disk.live /\ e.marker # NoRecord /\ e.journal = disk.journal
        /\ e.marker = [tid |-> t, recipe |-> recipe, seal |-> disk.live]
    BY MarkedFacts, Here
  <2>3. Attempt(e, At("publish"), Withdraw)
    BY <1>2, <2>1
  <2> HIDE DEF e
  <2>4. Lasting(e, recipe)
    BY <1>2, <2>0, <2>1, <2>2 DEF Ready, Lasting, Published, InFlight
  <2>5. CASE disk' = e /\ settled' = e /\ Goto(At("publish"))
    BY <1>0, <2>4, <2>5, SecureStep DEF Secure, Goto
  <2>6. CASE Goto(Off)
    BY <1>0, <2>6, QuietStep DEF Goto
  <2> QED
    BY <1>1, <2>3, <2>5, <2>6 DEF Attempt
<1> QED
  BY <1>1, <1>2 DEF Mark, Intruded, Raises

LEMMA PublishAssured ==
  ASSUME Sure, Assured, recipe' = recipe, Publish
  PROVE  Assured'
<1>0. outcome = "none" /\ Secure
  BY DEF Publish, Assured, Succeeding, Secure
<1>1. CASE Attempt([disk EXCEPT !.journal.published = TRUE],
                   At("settle"), Goto(At("settle")))
  <2> DEFINE e == [disk EXCEPT !.journal.published = TRUE]
  <2>0. disk \in Disk /\ Published(disk)
    BY Here DEF Publish, Knows, Finishing
  <2>1. /\ e.live = disk.live /\ e.marker = disk.marker
        /\ e.journal.tid = disk.journal.tid /\ e.journal.recipe = disk.journal.recipe
    BY <2>0 DEF Disk, Published, Pending, Journal
  <2>2. Attempt(e, At("settle"), Goto(At("settle")))
    BY <1>1
  <2> HIDE DEF e
  <2>3. Lasting(e, recipe)
    BY <1>0, <2>0, <2>1 DEF Secure, Lasting, Ready, Published
  <2>4. CASE disk' \in {disk, e} /\ settled' \in {settled, e} /\ outcome' = outcome
    BY <1>0, <2>1, <2>3, <2>4, SecureStep DEF Secure
  <2> QED
    BY <2>2, <2>4 DEF Attempt, Goto
<1>2. CASE Attempt(disk, Cleanup("done"), Fail)
  <2>1. CASE Fail
    BY <2>1, QuietFail
  <2>2. CASE disk' = disk /\ settled' \in {settled, disk} /\ outcome' = outcome
    BY <1>0, <2>2, SecureStep DEF Secure
  <2> QED
    BY <1>2, <2>1, <2>2 DEF Attempt, Goto
<1> QED
  BY <1>1, <1>2 DEF Publish

(* A cleanup touches neither what is live nor the marker.                  *)
LEMMA CleaningSteps ==
  ASSUME Sure, Assured, recipe' = recipe, Drop \/ SyncWorkspace
  PROVE  Assured'
<1>0. /\ outcome = "none" /\ run \in Run /\ run.pc \in Cleaning
      /\ disk \in Disk /\ run.goal \in {"probe", "done"}
  BY Here DEF Drop, SyncWorkspace, Assured, Cleaning, Knows, Run
<1>1. /\ disk'.live = disk.live /\ disk'.marker = disk.marker
      /\ disk'.journal \in {disk.journal, NoRecord}
      /\ settled' \in {settled, disk'} /\ outcome' = outcome
  BY <1>0 DEF Drop, SyncWorkspace, Proceed, Caught, Goto, Disk
<1>2. CASE run.goal = "done"
  <2>1. Secure
    BY <1>0, <1>2 DEF Assured, Succeeding, Secure
  <2>2. Lasting(disk', recipe)
    BY <1>1, <2>1 DEF Secure, Lasting, Ready, Published, Pending
  <2>3. Secure'
    BY <1>1, <2>1, <2>2 DEF Secure
  <2> QED
    BY <1>0, <1>1, <2>3, SecureStep
<1>3. CASE run.goal = "probe"
  <2>1. ASSUME NEW s \in {"dropStage", "dropJournal", "sync", "probe"}
        PROVE  Quiet(At(s)) /\ Quiet([At(s) EXCEPT !.clean = FALSE])
    <3>1. At(s) \in Run /\ At(s).pc = s /\ At(s).goal = "probe"
      BY <1>3, AtType, Here DEF Steps
    <3>2. /\ [At(s) EXCEPT !.clean = FALSE].pc = s
          /\ [At(s) EXCEPT !.clean = FALSE].goal = "probe"
      BY <3>1 DEF Run
    <3> QED
      BY <3>1, <3>2 DEF Quiet
  <2>2. Quiet(run)
    BY <1>0, <1>3 DEF Quiet, Cleaning
  <2>3. Quiet(run')
    BY <1>3, <2>1, <2>2 DEF Drop, SyncWorkspace, Proceed, Caught, Goto
  <2> QED
    BY <1>0, <1>1, <2>3, QuietStep
<1> QED
  BY <1>0, <1>2, <1>3
-----------------------------------------------------------------------------
LEMMA AssuredStep ==
  ASSUME Sure, Assured, [Next]_vars, RunStep => ~Mistaken
  PROVE  Assured'
<1>1. CASE RunStep
  BY <1>1, EarlySteps, ProbeAssured, ReportAssured, AdoptAssured, MarkAssured,
     PublishAssured, CleaningSteps DEF RunStep
<1>2. CASE Start
  <2>1. PICK force \in BOOLEAN : run' = [Off EXCEPT !.pc = "recover", !.force = force]
    BY <1>2 DEF Start, Launch
  <2> DEFINE r == [Off EXCEPT !.pc = "recover", !.force = force]
  <2>2. r.pc = "recover"
    BY OffType DEF Run
  <2>3. run' = r
    BY <2>1
  <2> HIDE DEF r
  <2>4. Quiet(run')
    BY <2>2, <2>3 DEF Quiet, Cleaning
  <2> QED
    BY <1>2, <2>4, QuietStep DEF Start, Launch
<1>3. CASE Kill
  <2>1. /\ run' = Off /\ disk' = disk /\ settled' = settled
        /\ recipe' = recipe /\ outcome' = outcome /\ misread' = misread
    BY <1>3 DEF Kill, history
  <2>2. SuccessIsDurable'
    BY <2>1 DEF Assured, SuccessIsDurable
  <2>3. run'.pc = "off" /\ ~Succeeding'
    BY <2>1, OffType DEF Succeeding, Cleaning
  <2> QED
    BY <2>2, <2>3 DEF Assured
<1>4. CASE PowerCut \/ Edit \/ Upgrade
  BY <1>4, QuietStep DEF PowerCut, Edit, Touch, Upgrade
<1>5. CASE Writeback
  <2>1. /\ settled' = disk /\ disk' = disk /\ run' = run
        /\ recipe' = recipe /\ outcome' = outcome /\ misread' = misread
    BY <1>5 DEF Writeback, history
  <2> QED
    BY <2>1 DEF Assured, SuccessIsDurable, Succeeding
<1>6. CASE UNCHANGED vars
  BY <1>6 DEF vars, history, Assured, SuccessIsDurable, Succeeding
<1> QED
  BY <1>1, <1>2, <1>3, <1>4, <1>5, <1>6 DEF Next

LEMMA AssuredInit == Init => Assured
  BY OffType DEF Init, Assured, SuccessIsDurable, Succeeding, Cleaning

(* The whole invariant the checks and the proofs share: the types, the     *)
(* journal's account of the trees, where the objects come from and what a  *)
(* success rests on, until a failed read takes that account away           *)
(* (recover_transaction, try_adopt_existing).                              *)
THEOREM WholeInvariant == Spec => []AInv
<1>1. Init => AInv
  BY IInvInit, TracedInit, AssuredInit DEF AInv
<1>2. AInv /\ [Next]_vars => AInv'
  <2> SUFFICES ASSUME AInv, [Next]_vars PROVE AInv'
    OBVIOUS
  <2>1. IInv'
    BY IInvStep DEF AInv
  <2>2. ASSUME ~misread'  PROVE Traced' /\ Assured'
    BY <2>2, MisreadStep, TracedStep, AssuredStep DEF AInv, IInv, SharedInv, Sure
  <2> QED
    BY <2>1, <2>2 DEF AInv
<1> QED
  BY <1>1, <1>2, PTL DEF Spec

(* Whoever is told "installed" or "adopted" still has that payload, with a *)
(* marker that names it, after a power cut; whoever is told "ready" has it *)
(* at the next start (the fsyncs before finish("success")).                *)
THEOREM SuccessIsAlwaysDurable == Spec => []SuccessIsDurable
<1>1. AInv => SuccessIsDurable
  BY DEF AInv, Assured, SuccessIsDurable
<1> QED
  BY <1>1, WholeInvariant, PTL
=============================================================================
