---------------------- MODULE PayloadTransactionProofs ----------------------
(***************************************************************************)
(* For every number of commit paths, batches, identifiers and versions,    *)
(* and with no bound on faults and stops other than being one.  Whoever    *)
(* writes to the paths beside it, no step of the installer destroys what   *)
(* was there when it looked.  With the game directory to itself, and until *)
(* a failed read makes it give a transaction up (misread), it never loses  *)
(* the old payload before the new one is published and its rollback never  *)
(* meets a state it refuses.                                               *)
(***************************************************************************)
EXTENDS PayloadTransaction, TLAPS

-----------------------------------------------------------------------------
(* What the values the steps are made of are.                              *)

LEMMA EmptyType == Empty \in Tree
  BY DEF Empty, Tree

LEMMA OffType == Off \in Run /\ Off.pc = "off"
<1>1. 0 \in 0..N+1
  BY NAssumption
<1>2. Off.pc = "off"
  BY DEF Off
<1>3. Off \in Run
  BY <1>1 DEF Off, Run, Steps
<1> QED
  BY <1>2, <1>3

LEMMA AtType ==
  ASSUME run \in Run, NEW s \in Steps, NEW i \in 0..N+1
  PROVE  /\ At(s) \in Run /\ At(s).pc = s
         /\ At(s).idx = run.idx /\ At(s).plan = run.plan
         /\ At(s).goal = run.goal /\ At(s).clean = run.clean
         /\ AtPath(s, i) \in Run /\ AtPath(s, i).pc = s
         /\ AtPath(s, i).idx = i /\ AtPath(s, i).plan = run.plan
         /\ AtPath(s, i).goal = run.goal /\ AtPath(s, i).clean = run.clean
  BY DEF At, AtPath, Run

LEMMA GoalType ==
  ASSUME run \in Run, NEW g \in {"probe", "done", "error"}
  PROVE  /\ Rollback(g) \in Run /\ Rollback(g).pc = "rollback"
         /\ Rollback(g).idx = N
         /\ Cleanup(g) \in Run /\ Cleanup(g).pc = "dropBackup"
         /\ Cleanup(g).goal = g
<1>1. N \in 0..N+1 /\ 0 \in 0..N+1 /\ {"rollback", "dropBackup"} \subseteq Steps
  BY NAssumption DEF Steps
<1> QED
  BY <1>1 DEF Rollback, Cleanup, Run

(* Reading and replacing one path of one of the three trees.               *)
LEMMA TreeUpdate ==
  ASSUME NEW t \in Tree, NEW p \in Path, NEW o \in Object \cup {NoFile}
  PROVE  /\ [t EXCEPT ![p] = o] \in Tree
         /\ t[p] \in Object \cup {NoFile}
  BY DEF Tree

LEMMA DiskUpdate ==
  ASSUME NEW d \in Disk, NEW t \in Tree, NEW u \in Tree
  PROVE  /\ [d EXCEPT !.live = t] \in Disk
         /\ [d EXCEPT !.stage = t] \in Disk
         /\ [d EXCEPT !.backup = t] \in Disk
         /\ [d EXCEPT !.journal = NoRecord] \in Disk
         /\ [d EXCEPT !.live = t, !.stage = u] \in Disk
         /\ [d EXCEPT !.live = t, !.backup = u] \in Disk
  BY DEF Disk

LEMMA BatchType ==
  ASSUME NEW t \in Tree
  PROVE  Batches(t) \subseteq Batch
<1>1. ASSUME NEW p \in Path, t[p] # NoFile  PROVE t[p].batch \in Batch
  BY <1>1 DEF Tree, Object
<1> QED
  BY <1>1 DEF Batches

LEMMA RemainsType ==
  ASSUME NEW o \in Object
  PROVE  Remains(o) \subseteq Object \cup {NoFile}
  BY DEF Remains, Object, Form

(* A new marker keeps the types, and the state of a pending transaction    *)
(* only as far as it is not the marker that says it.                       *)
LEMMA MarkedFacts ==
  ASSUME disk \in Disk, recipe \in Recipe, NEW t \in Tid
  PROVE  /\ Marked(t) \in Disk
         /\ Marked(t).live = disk.live /\ Marked(t).stage = disk.stage
         /\ Marked(t).backup = disk.backup
         /\ Marked(t).journal = disk.journal
         /\ Marked(t).marker = [tid |-> t, recipe |-> recipe, seal |-> disk.live]
         /\ Marked(t).marker # NoRecord
<1>1. [tid |-> t, recipe |-> recipe, seal |-> disk.live] \in Marker
  BY DEF Marker, Disk
<1> QED
  BY <1>1, NoRecordAssumption DEF Marked, Disk

(* A rename between two trees of the transaction, at one path.             *)
LEMMA SetAsideFacts ==
  ASSUME NEW d \in Disk, NEW p \in Path
  PROVE  LET e == SetAside(d, p)
         IN /\ e \in Disk /\ e.journal = d.journal /\ e.stage = d.stage
            /\ e.live = [d.live EXCEPT ![p] = NoFile]
            /\ e.backup = [d.backup EXCEPT ![p] = d.live[p]]
<1> DEFINE f == [d.live EXCEPT ![p] = NoFile]
           t == [d.backup EXCEPT ![p] = d.live[p]]
           e == SetAside(d, p)
<1>1. f \in Tree /\ t \in Tree
  BY TreeUpdate DEF Disk
<1>2. e = [d EXCEPT !.live = f, !.backup = t]
  BY DEF Disk, SetAside
<1> HIDE DEF f, t, e
<1>3. e \in Disk
  BY <1>1, <1>2 DEF Disk
<1>4. /\ e.journal = d.journal /\ e.stage = d.stage
      /\ e.live = f /\ e.backup = t
  BY <1>2 DEF Disk
<1> QED
  BY <1>3, <1>4 DEF f, t, e

LEMMA GoLiveFacts ==
  ASSUME NEW d \in Disk, NEW p \in Path
  PROVE  LET e == GoLive(d, p)
         IN /\ e \in Disk /\ e.journal = d.journal /\ e.backup = d.backup
            /\ e.stage = [d.stage EXCEPT ![p] = NoFile]
            /\ e.live = [d.live EXCEPT ![p] = d.stage[p]]
<1> DEFINE f == [d.stage EXCEPT ![p] = NoFile]
           t == [d.live EXCEPT ![p] = d.stage[p]]
           e == GoLive(d, p)
<1>1. f \in Tree /\ t \in Tree
  BY TreeUpdate DEF Disk
<1>2. e = [d EXCEPT !.stage = f, !.live = t]
  BY DEF Disk, GoLive
<1> HIDE DEF f, t, e
<1>3. e \in Disk
  BY <1>1, <1>2 DEF Disk
<1>4. /\ e.journal = d.journal /\ e.backup = d.backup
      /\ e.stage = f /\ e.live = t
  BY <1>2 DEF Disk
<1> QED
  BY <1>3, <1>4 DEF f, t, e

LEMMA TakeBackFacts ==
  ASSUME NEW d \in Disk, NEW p \in Path
  PROVE  LET e == TakeBack(d, p)
         IN /\ e \in Disk /\ e.journal = d.journal /\ e.backup = d.backup
            /\ e.live = [d.live EXCEPT ![p] = NoFile]
            /\ e.stage = [d.stage EXCEPT ![p] = d.live[p]]
<1> DEFINE f == [d.live EXCEPT ![p] = NoFile]
           t == [d.stage EXCEPT ![p] = d.live[p]]
           e == TakeBack(d, p)
<1>1. f \in Tree /\ t \in Tree
  BY TreeUpdate DEF Disk
<1>2. e = [d EXCEPT !.live = f, !.stage = t]
  BY DEF Disk, TakeBack
<1> HIDE DEF f, t, e
<1>3. e \in Disk
  BY <1>1, <1>2 DEF Disk
<1>4. /\ e.journal = d.journal /\ e.backup = d.backup
      /\ e.live = f /\ e.stage = t
  BY <1>2 DEF Disk
<1> QED
  BY <1>3, <1>4 DEF f, t, e

LEMMA RestoreFacts ==
  ASSUME NEW d \in Disk, NEW p \in Path
  PROVE  LET e == Restore(d, p)
         IN /\ e \in Disk /\ e.journal = d.journal /\ e.stage = d.stage
            /\ e.backup = [d.backup EXCEPT ![p] = NoFile]
            /\ e.live = [d.live EXCEPT ![p] = d.backup[p]]
<1> DEFINE f == [d.backup EXCEPT ![p] = NoFile]
           t == [d.live EXCEPT ![p] = d.backup[p]]
           e == Restore(d, p)
<1>1. f \in Tree /\ t \in Tree
  BY TreeUpdate DEF Disk
<1>2. e = [d EXCEPT !.backup = f, !.live = t]
  BY DEF Disk, Restore
<1> HIDE DEF f, t, e
<1>3. e \in Disk
  BY <1>1, <1>2 DEF Disk
<1>4. /\ e.journal = d.journal /\ e.stage = d.stage
      /\ e.backup = f /\ e.live = t
  BY <1>2 DEF Disk
<1> QED
  BY <1>3, <1>4 DEF f, t, e
-----------------------------------------------------------------------------
(* Whoever else writes to the paths (SharedSpec): the types stay what they *)
(* are, what a cleanup deletes belongs to a transaction whose marker was   *)
(* written, and nothing that was there when it was looked for is lost.     *)

SharedFits(d, r) ==
    /\ d \in Disk /\ r \in Run
    /\ r.pc = "extract" => r.plan \in Batch
    /\ r.pc \in Moving \cup {"install"} => r.idx \in Path
    /\ Owned(d, r) /\ Vacated(d, r)

(* Nothing that was live, or set aside, is gone from disk e.               *)
Lossless(d, e) ==
    \A p \in Path :
        \/ Overtaken(p)
        \/ /\ d.live[p] # NoFile => d.live[p] \in {e.live[p], e.stage[p], e.backup[p]}
           /\ d.backup[p] # NoFile => \/ d.backup[p] \in {e.live[p], e.backup[p]}
                                      \/ SameTid(d) /\ Pending(d)

(* What every step of a run has to show.                                   *)
SharedGoal == /\ SharedFits(disk', run') /\ settled' \in Disk /\ recipe' \in Recipe
              /\ Lossless(disk, disk')

(* The rest of the types.                                                  *)
Counted == /\ outcome \in Outcome
           /\ faults \in 0..MaxFaults /\ stops \in 0..MaxStops
           /\ misread \in BOOLEAN /\ late \in BOOLEAN

Bare == {Off} \cup {[Off EXCEPT !.pc = "recover", !.force = f] : f \in BOOLEAN}

LEMMA BareFits ==
  ASSUME NEW d \in Disk, NEW r \in Bare
  PROVE  SharedFits(d, r) /\ r.pc \in {"off", "recover"}
<1>1. r \in Run /\ r.pc \in {"off", "recover"}
  BY OffType DEF Bare, Run, Steps
<1> QED
  BY <1>1 DEF SharedFits, Owned, Vacated, Moving, Committing, Finishing, Cleaning

LEMMA LosslessSelf == \A d, e : e.live = d.live /\ e.backup = d.backup => Lossless(d, e)
  BY DEF Lossless

LEMMA SharedHere ==
  ASSUME SharedInv
  PROVE  /\ disk \in Disk /\ settled \in Disk /\ run \in Run /\ run.idx \in 0..N+1
         /\ recipe \in Recipe /\ N \in Nat /\ N # 0
         /\ disk.live \in Tree /\ disk.stage \in Tree /\ disk.backup \in Tree
         /\ run.pc = "extract" => run.plan \in Batch
         /\ run.pc \in Moving \cup {"install"} => run.idx \in Path
         /\ Owned(disk, run)
         /\ \A d \in Disk : SharedFits(d, Off)
<1>1. \A d \in Disk : SharedFits(d, Off)
  BY BareFits DEF Bare
<1> QED
  BY <1>1, NAssumption DEF SharedInv, TypeOK, Run, Disk

LEMMA SharedProceed ==
  ASSUME SharedInv, recipe' = recipe, NEW d, NEW next,
         SharedFits(d, next), Lossless(disk, d), Proceed(d, next)
  PROVE  SharedGoal
  BY SharedHere DEF SharedGoal, Proceed, Goto

LEMMA SharedFail ==
  ASSUME SharedInv, recipe' = recipe, disk' = disk, settled' = settled, Fail
  PROVE  SharedGoal
<1>1. SharedFits(disk', run') /\ settled' \in Disk
  BY SharedHere DEF Fail
<1>2. Lossless(disk, disk')
  BY LosslessSelf
<1> QED
  BY <1>1, <1>2, SharedHere DEF SharedGoal

LEMMA SharedAttempt ==
  ASSUME SharedInv, recipe' = recipe, NEW d, NEW next,
         SharedFits(d, next), Lossless(disk, d),
         Attempt(d, next, Fail) \/ Attempt(d, next, Withdraw)
  PROVE  SharedGoal
<1>1. d \in Disk
  BY DEF SharedFits
<1>2. Rollback("error") \in Run /\ Rollback("error").pc = "rollback"
  BY GoalType, SharedHere
<1>3. \A e \in Disk : SharedFits(e, Rollback("error"))
  BY <1>2 DEF SharedFits, Owned, Vacated, Moving, Committing, Finishing, Cleaning
<1>4. SharedFits(disk', run') /\ settled' \in Disk
  BY <1>1, <1>3, SharedHere DEF Attempt, Goto, Fail, Withdraw
<1>5. Lossless(disk, disk')
  BY LosslessSelf DEF Attempt
<1> QED
  BY <1>4, <1>5, SharedHere DEF SharedGoal

LEMMA SharedStay ==
  ASSUME SharedInv, recipe' = recipe, disk' = disk, settled' = settled,
         SharedFits(disk, run')
  PROVE  SharedGoal
  BY LosslessSelf, SharedHere DEF SharedGoal

LEMMA SharedWithdraw ==
  ASSUME SharedInv, recipe' = recipe, disk' = disk, settled' = settled, Withdraw
  PROVE  SharedGoal
<1>1. Rollback("error") \in Run /\ Rollback("error").pc = "rollback"
  BY GoalType, SharedHere
<1>2. SharedFits(disk, run')
  BY <1>1, SharedHere DEF SharedFits, Owned, Vacated, Moving, Committing, Finishing, Cleaning, Withdraw, Goto
<1> QED
  BY <1>2, SharedStay

(* Places that ask nothing of the disk.                                    *)
Plain == {"probe", "adopt", "plan", "check", "journal", "rollback", "clear",
          "done", "adopted"}

(* Places that ask for a transaction.                                      *)
Opening == {"announce", "backup", "mark"}

LEMMA SharedPlaces ==
  ASSUME SharedInv, NEW d \in Disk
  PROVE  /\ \A s \in Plain : SharedFits(d, At(s))
         /\ \A s \in Plain, i \in 0..N+1 : SharedFits(d, AtPath(s, i))
         /\ Pending(d) => \A s \in Opening : SharedFits(d, At(s))
         /\ Pending(d) => \A i \in 0..N+1 : SharedFits(d, AtPath("backup", i))
         /\ \A g \in {"probe", "done", "error"} : SharedFits(d, Rollback(g))
<1>1. run \in Run /\ run.idx \in 0..N+1
  BY SharedHere
<1>2. ASSUME NEW r \in Run, r.pc \in Plain \/ (Pending(d) /\ r.pc \in Opening)
      PROVE  SharedFits(d, r)
  BY <1>2 DEF SharedFits, Owned, Vacated, Moving, Committing, Finishing, Cleaning, Plain, Opening
<1>3. ASSUME NEW s \in Plain \cup Opening
      PROVE  s \in Steps
  BY DEF Plain, Opening, Steps
<1>4. ASSUME NEW s \in Plain  PROVE SharedFits(d, At(s))
  BY <1>1, <1>2, <1>3, AtType
<1>5. ASSUME NEW s \in Plain, NEW i \in 0..N+1  PROVE SharedFits(d, AtPath(s, i))
  BY <1>1, <1>2, <1>3, AtType
<1>6. ASSUME Pending(d), NEW s \in Opening  PROVE SharedFits(d, At(s))
  BY <1>1, <1>2, <1>3, <1>6, AtType
<1>7. ASSUME Pending(d), NEW i \in 0..N+1  PROVE SharedFits(d, AtPath("backup", i))
  <2>1. "backup" \in Opening
    BY DEF Opening
  <2> QED
    BY <1>1, <1>2, <1>3, <1>7, <2>1, AtType
<1>8. ASSUME NEW g \in {"probe", "done", "error"}  PROVE SharedFits(d, Rollback(g))
  BY <1>1, <1>2, GoalType DEF Plain
<1> QED
  BY <1>4, <1>5, <1>6, <1>7, <1>8

LEMMA SharedMarked ==
  ASSUME SharedInv, NEW t \in Tid
  PROVE  /\ Marked(t) \in Disk /\ Lossless(disk, Marked(t))
         /\ Marked(t).journal = disk.journal
         /\ Marked(t).marker # NoRecord /\ Marked(t).marker.tid = t
<1>1. [tid |-> t, recipe |-> recipe, seal |-> disk.live] \in Marker
  BY SharedHere DEF Marker
<1>2. /\ Marked(t) \in Disk /\ Marked(t).live = disk.live
      /\ Marked(t).backup = disk.backup /\ Marked(t).journal = disk.journal
      /\ Marked(t).marker = [tid |-> t, recipe |-> recipe, seal |-> disk.live]
  BY <1>1, SharedHere DEF Marked, Disk
<1>3. Marked(t).marker # NoRecord
  BY <1>1, <1>2, NoRecordAssumption
<1> QED
  BY <1>2, <1>3, LosslessSelf

LEMMA SharedStage ==
  ASSUME SharedInv, NEW t \in Tree
  PROVE  LET e == [disk EXCEPT !.stage = t]
         IN /\ e \in Disk /\ Lossless(disk, e)
            /\ Pending(disk) /\ SameTid(disk) => Pending(e) /\ SameTid(e)
<1> DEFINE e == [disk EXCEPT !.stage = t]
<1>1. /\ e \in Disk /\ e.live = disk.live /\ e.backup = disk.backup
      /\ e.journal = disk.journal /\ e.marker = disk.marker
  BY SharedHere DEF Disk
<1> HIDE DEF e
<1>2. Lossless(disk, e)
  BY <1>1, LosslessSelf
<1>3. Pending(disk) /\ SameTid(disk) => Pending(e) /\ SameTid(e)
  BY <1>1 DEF Pending, SameTid
<1> QED
  BY <1>1, <1>2, <1>3 DEF e

LEMMA SharedBefore ==
  ASSUME SharedInv, recipe' = recipe,
         Recover \/ Probe \/ Adopt \/ Report \/ Announce \/ OpenJournal
  PROVE  SharedGoal
<1> USE SharedHere
<1>0. \A s \in Plain : SharedFits(disk, At(s))
  BY SharedPlaces
<1>l. Lossless(disk, disk)
  BY LosslessSelf
<1>1. CASE Recover
  <2>1. CASE Proceed(disk, At("probe"))
    BY <1>0, <1>l, <2>1, SharedProceed DEF Plain
  <2>2. CASE UNCHANGED <<disk, settled>> /\ Fail
    BY <2>2, SharedFail
  <2>3. CASE Published(disk) /\ Proceed(disk, Cleanup("probe"))
    <3>1. /\ Cleanup("probe") \in Run /\ Cleanup("probe").pc = "dropBackup"
          /\ Cleanup("probe").goal = "probe"
      BY GoalType
    <3>2. Pending(disk) /\ SameTid(disk)
      BY <2>3 DEF Published, Ready, SameTid
    <3>3. SharedFits(disk, Cleanup("probe"))
      BY <3>1, <3>2 DEF SharedFits, Owned, Vacated, Moving, Committing, Finishing, Cleaning
    <3> QED
      BY <1>l, <2>3, <3>3, SharedProceed
  <2>4. CASE Proceed(disk, Rollback("probe"))
    BY <1>l, <2>4, SharedPlaces, SharedProceed
  <2>5. CASE Caught(Rollback("probe"))
    BY <2>5, SharedPlaces, SharedStay DEF Caught, Goto
  <2> QED
    BY <1>1, <2>1, <2>2, <2>3, <2>4, <2>5 DEF Recover, Raises
<1>2. ASSUME NEW code, Succeed(code)  PROVE SharedGoal
  BY <1>2, SharedStay DEF Succeed
<1>c. ASSUME NEW s \in Plain, Caught(At(s))  PROVE SharedGoal
  BY <1>0, <1>c, SharedStay DEF Caught, Goto
<1>3. CASE Probe
  BY <1>0, <1>2, <1>3, <1>c, <1>l, SharedProceed DEF Probe, Plain
<1>4. CASE Adopt
  <2>1. ASSUME NEW t \in Tid, Attempt(Marked(t), At("adopted"), Fail)
        PROVE  SharedGoal
    <3>1. Marked(t) \in Disk /\ Lossless(disk, Marked(t))
      BY SharedMarked
    <3>2. SharedFits(Marked(t), At("adopted"))
      BY <3>1, SharedPlaces DEF Plain
    <3> QED
      BY <2>1, <3>1, <3>2, SharedAttempt
  <2> QED
    BY <1>0, <1>4, <1>c, <1>l, <2>1, SharedProceed, SharedFail DEF Adopt, Raises, Plain
<1>5. CASE Report
  BY <1>2, <1>5, SharedFail DEF Report, Raises
<1>6. CASE Announce
  <2>1. SharedFits(disk, AtPath("backup", 1))
    BY <1>6, SharedPlaces DEF Announce, Owned, Committing
  <2> QED
    BY <1>6, <1>l, <2>1, SharedProceed, SharedFail DEF Announce, Raises
<1>7. CASE OpenJournal
  <2>1. ASSUME NEW t \in Tid, Attempt(Opened(t), At("announce"), Fail)
        PROVE  SharedGoal
    <3> DEFINE j == [tid |-> t, recipe |-> recipe,
                     had |-> [p \in Path |-> disk.live[p] # NoFile],
                     published |-> FALSE, before |-> disk.live]
               e == Opened(t)
    <3>0. j \in Journal
      BY <2>1 DEF Journal
    <3>1. j \in Journal /\ j # NoRecord
      BY <3>0, NoRecordAssumption
    <3>2. e = [disk EXCEPT !.journal = j]
      BY DEF Opened
    <3>3. Attempt(e, At("announce"), Fail)
      BY <2>1
    <3> HIDE DEF e, j
    <3>4. e \in Disk /\ Pending(e) /\ Lossless(disk, e)
      <4>1. /\ e \in Disk /\ e.live = disk.live /\ e.backup = disk.backup
            /\ e.journal = j
        BY <3>1, <3>2 DEF Disk
      <4> QED
        BY <3>1, <4>1, LosslessSelf DEF Pending
    <3>5. SharedFits(e, At("announce"))
      BY <3>4, SharedPlaces DEF Opening
    <3> QED
      BY <3>3, <3>4, <3>5, SharedAttempt
  <2> QED
    BY <1>7, <2>1, SharedFail DEF OpenJournal
<1> QED
  BY <1>1, <1>3, <1>4, <1>5, <1>6, <1>7

LEMMA SharedExtraction ==
  ASSUME SharedInv, recipe' = recipe, Plan \/ Extract \/ Check
  PROVE  SharedGoal
<1> USE SharedHere
<1>l. Lossless(disk, disk)
  BY LosslessSelf
<1>1. ASSUME NEW d \in Disk, NEW r \in Run, r.pc = "extract", r.plan \in Batch
      PROVE  SharedFits(d, r)
  BY <1>1 DEF SharedFits, Owned, Vacated, Moving, Committing, Finishing, Cleaning
<1>2. [disk EXCEPT !.stage = Empty] \in Disk /\ Lossless(disk, [disk EXCEPT !.stage = Empty])
  BY EmptyType, SharedStage
<1>3. CASE Plan
  <2> DEFINE r(g) == [AtPath("extract", 1) EXCEPT !.plan = g]
  <2>1. ASSUME NEW g \in Batch
        PROVE  r(g) \in Run /\ r(g).pc = "extract" /\ r(g).plan = g
    <3>1. AtPath("extract", 1) \in Run /\ AtPath("extract", 1).pc = "extract"
      BY AtType DEF Steps
    <3> QED
      BY <3>1 DEF Run
  <2> HIDE DEF r
  <2>2. ASSUME NEW g \in Batch, NEW d \in Disk, Lossless(disk, d), Proceed(d, r(g))
        PROVE  SharedGoal
    BY <1>1, <2>1, <2>2, SharedProceed
  <2>3. Batches(disk.stage) \subseteq Batch
    BY BatchType
  <2> QED
    BY <1>2, <1>3, <1>l, <2>2, <2>3, SharedFail DEF Plan, r
<1>4. CASE Extract
  <2>0. run.pc = "extract" /\ run.plan \in Batch
    BY <1>4 DEF Extract
  <2>1. CASE Proceed(disk, At("check"))
    BY <1>l, <2>1, SharedPlaces, SharedProceed DEF Plain
  <2>2. ASSUME run.idx \in Path
        PROVE  /\ AtPath("extract", run.idx + 1) \in Run
               /\ AtPath("extract", run.idx + 1).pc = "extract"
               /\ AtPath("extract", run.idx + 1).plan = run.plan
    <3>1. run.idx + 1 \in 0..N+1 /\ "extract" \in Steps
      BY <2>2 DEF Path, Steps
    <3> QED
      BY <3>1, AtType
  <2>3. ASSUME NEW f \in Form, run.idx \in Path
        PROVE  Stage(run.idx, Staged(f)) \in Disk /\ Lossless(disk, Stage(run.idx, Staged(f)))
    <3> DEFINE t == [disk.stage EXCEPT ![run.idx] = Staged(f)]
    <3>1. t \in Tree
      BY <2>0, <2>3, TreeUpdate DEF Staged, Object
    <3>2. Stage(run.idx, Staged(f)) = [disk EXCEPT !.stage = t]
      BY DEF Stage, Disk
    <3> HIDE DEF t
    <3> QED
      BY <3>1, <3>2, SharedStage
  <2>4. CASE run.idx \in Path /\ Proceed(disk, AtPath("extract", run.idx + 1))
    BY <1>1, <1>l, <2>0, <2>2, <2>4, SharedProceed
  <2>5. CASE run.idx \in Path /\ Proceed(Stage(run.idx, Staged("broken")), run)
    <3>1. "broken" \in Form
      BY DEF Form
    <3>2. SharedFits(Stage(run.idx, Staged("broken")), run)
      BY <1>1, <2>0, <2>3, <2>5, <3>1
    <3> QED
      BY <2>3, <2>5, <3>1, <3>2, SharedProceed
  <2>6. CASE /\ run.idx \in Path
             /\ Proceed(Stage(run.idx, Staged("intact")), AtPath("extract", run.idx + 1))
    <3>1. "intact" \in Form
      BY DEF Form
    <3>2. SharedFits(Stage(run.idx, Staged("intact")), AtPath("extract", run.idx + 1))
      BY <1>1, <2>0, <2>2, <2>3, <2>6, <3>1
    <3> QED
      BY <2>3, <2>6, <3>1, <3>2, SharedProceed
  <2> QED
    BY <1>4, <2>1, <2>4, <2>5, <2>6, SharedFail DEF Extract, Raises
<1>5. CASE Check
  <2>1. CASE Proceed(disk, At("journal"))
    BY <1>l, <2>1, SharedPlaces, SharedProceed DEF Plain
  <2>2. CASE disk' = [disk EXCEPT !.stage = Empty] /\ UNCHANGED settled /\ Fail
    BY <1>2, <2>2 DEF SharedGoal, Fail
  <2> QED
    BY <1>5, <2>1, <2>2, SharedFail DEF Check, Raises
<1> QED
  BY <1>3, <1>4, <1>5

(* The test that comes before each rename.                                 *)
LEMMA SharedTests ==
  ASSUME SharedInv, recipe' = recipe, BackUp \/ Install
  PROVE  SharedGoal
<1> USE SharedHere
<1>l. Lossless(disk, disk)
  BY LosslessSelf
<1>1. ASSUME NEW bad, Intruded(bad)  PROVE SharedGoal
  BY <1>1, SharedWithdraw DEF Intruded
<1>2. CASE Raises(Withdraw)
  BY <1>2, SharedWithdraw DEF Raises
<1>p. Pending(disk)
  BY DEF Owned, BackUp, Install, Committing
<1>3. ASSUME NEW s \in {"setAside", "install", "goLive"}, run.idx \in Path,
             s = "setAside" => disk.backup[run.idx] = NoFile,
             s = "goLive" => disk.live[run.idx] = NoFile
      PROVE  SharedFits(disk, At(s))
  <2>1. At(s) \in Run /\ At(s).pc = s /\ At(s).idx = run.idx
    BY AtType DEF Steps
  <2> QED
    BY <1>3, <1>p, <2>1
       DEF SharedFits, Owned, Vacated, Moving, Committing, Finishing, Cleaning
<1>4. CASE BackUp
  <2>1. CASE Proceed(disk, At("mark"))
    BY <1>l, <1>p, <2>1, SharedPlaces, SharedProceed DEF Opening
  <2>2. CASE /\ run.idx \in Path /\ disk.backup[run.idx] = NoFile
             /\ Proceed(disk, At("setAside"))
    BY <1>3, <1>l, <2>2, SharedProceed
  <2>3. CASE run.idx \in Path /\ Attempt(disk, At("install"), Withdraw)
    BY <1>3, <1>l, <2>3, SharedAttempt
  <2> QED
    BY <1>1, <1>2, <1>4, <2>1, <2>2, <2>3 DEF BackUp
<1>5. CASE Install
  <2>1. run.idx \in Path
    BY <1>5 DEF Install
  <2>2. CASE Vacant(run.idx) /\ Proceed(disk, At("goLive"))
    BY <1>3, <1>l, <2>1, <2>2, SharedProceed DEF Vacant
  <2> QED
    BY <1>1, <1>2, <1>5, <2>2 DEF Install
<1> QED
  BY <1>4, <1>5

(* A rename that raises leaves things as they are.                         *)
LEMMA SharedRename ==
  ASSUME SharedInv, recipe' = recipe, NEW d, NEW next, NEW source, NEW target,
         SharedFits(d, next), Lossless(disk, d),
         \/ Rename(d, source, target, next, Fail)
         \/ Rename(d, source, target, next, Withdraw)
  PROVE  SharedGoal
  BY SharedAttempt, SharedFail, SharedWithdraw DEF Rename

(* The renames of a commit: what has come since the test is the only thing *)
(* they can put an end to.                                                 *)
LEMMA SharedMoves ==
  ASSUME SharedInv, recipe' = recipe, MoveAside \/ MoveLive
  PROVE  SharedGoal
<1> USE SharedHere
<1>0. run.pc \in Moving /\ run.idx \in Path /\ Pending(disk)
  BY DEF Owned, MoveAside, MoveLive, Moving, Committing
<1>v. late \/ Vacated(disk, run)
  BY DEF SharedInv
<1>1. CASE MoveAside
  <2> DEFINE e == SetAside(disk, run.idx)
  <2>1. /\ e \in Disk /\ e.journal = disk.journal
        /\ e.live = [disk.live EXCEPT ![run.idx] = NoFile]
        /\ e.backup = [disk.backup EXCEPT ![run.idx] = disk.live[run.idx]]
    <3>1. disk \in Disk /\ run.idx \in Path
      BY <1>0
    <3> QED
      BY <3>1, SetAsideFacts, Zenon
  <2>2. Rename(e, disk.live[run.idx], disk.backup[run.idx], At("install"), Withdraw)
    BY <1>1 DEF MoveAside
  <2> HIDE DEF e
  <2>3. late \/ disk.backup[run.idx] = NoFile
    BY <1>1, <1>v DEF Vacated, MoveAside
  <2>4. Lossless(disk, e)
    BY <1>0, <2>1, <2>3 DEF Lossless, Overtaken, Tree
  <2>5. At("install") \in Run /\ At("install").pc = "install" /\ At("install").idx = run.idx
    BY AtType DEF Steps
  <2>6. SharedFits(e, At("install"))
    BY <1>0, <2>1, <2>5
       DEF SharedFits, Owned, Vacated, Moving, Committing, Finishing, Cleaning, Pending
  <2> QED
    BY <2>2, <2>4, <2>6, SharedRename
<1>2. CASE MoveLive
  <2> DEFINE e == GoLive(disk, run.idx)
  <2>1. /\ e \in Disk /\ e.backup = disk.backup /\ e.journal = disk.journal
        /\ e.live = [disk.live EXCEPT ![run.idx] = disk.stage[run.idx]]
    <3>1. disk \in Disk /\ run.idx \in Path
      BY <1>0
    <3> QED
      BY <3>1, GoLiveFacts, Zenon
  <2>2. Rename(e, disk.stage[run.idx], disk.live[run.idx],
               AtPath("backup", run.idx + 1), Withdraw)
    BY <1>2 DEF MoveLive
  <2> HIDE DEF e
  <2>3. late \/ disk.live[run.idx] = NoFile
    BY <1>2, <1>v DEF Vacated, MoveLive
  <2>4. Lossless(disk, e)
    BY <1>0, <2>1, <2>3 DEF Lossless, Overtaken, Tree
  <2>5. run.idx + 1 \in 0..N+1
    BY <1>0 DEF Path
  <2>6. SharedFits(e, AtPath("backup", run.idx + 1))
    BY <1>0, <2>1, <2>5, SharedPlaces DEF Pending
  <2> QED
    BY <2>2, <2>4, <2>6, SharedRename
<1> QED
  BY <1>1, <1>2

LEMMA SharedMark ==
  ASSUME SharedInv, recipe' = recipe, Mark
  PROVE  SharedGoal
<1> USE SharedHere
<1>1. ASSUME NEW bad, Intruded(bad)  PROVE SharedGoal
  BY <1>1, SharedWithdraw DEF Intruded
<1>p. Pending(disk)
  BY DEF Owned, Mark, Committing
<1>2. CASE Attempt(Marked(disk.journal.tid), At("publish"), Withdraw)
  <2>1. PICK t \in Tid : t = disk.journal.tid
    BY <1>p DEF Disk, Pending, Journal
  <2> DEFINE e == Marked(t)
  <2>2. /\ e \in Disk /\ Lossless(disk, e) /\ e.journal = disk.journal
        /\ e.marker # NoRecord /\ e.marker.tid = t
    BY SharedMarked
  <2>3. Attempt(e, At("publish"), Withdraw)
    BY <1>2, <2>1
  <2> HIDE DEF e
  <2>4. At("publish") \in Run /\ At("publish").pc = "publish"
    BY AtType DEF Steps
  <2>5. Pending(e) /\ SameTid(e)
    BY <1>p, <2>1, <2>2 DEF Pending, SameTid
  <2>6. SharedFits(e, At("publish"))
    BY <2>2, <2>4, <2>5 DEF SharedFits, Owned, Vacated, Moving, Committing, Finishing, Cleaning
  <2> QED
    BY <2>2, <2>3, <2>6, SharedAttempt
<1> QED
  BY <1>1, <1>2, SharedWithdraw DEF Mark, Raises

(* Past the marker nothing is lost but what the new payload replaced.      *)
LEMMA SharedFinish ==
  ASSUME SharedInv, recipe' = recipe, Publish \/ Drop \/ SyncWorkspace
  PROVE  SharedGoal
<1> USE SharedHere
<1>l. Lossless(disk, disk)
  BY LosslessSelf
<1>0. run.pc \in Cleaning => run.goal # "error"
  BY DEF Owned
<1>1. ASSUME NEW d \in Disk, Pending(d), SameTid(d), NEW r \in Run, r.pc \in Finishing,
             r.pc \in Cleaning => r.goal # "error"
      PROVE  SharedFits(d, r)
  BY <1>1 DEF SharedFits, Owned, Vacated, Moving, Finishing
<1>2. run.pc \in Finishing => Pending(disk) /\ SameTid(disk)
  BY DEF Owned
<1>3. ASSUME NEW e \in Disk, e.live = disk.live, e.journal = disk.journal,
             e.marker = disk.marker, Proceed(e, run), run.pc \in Finishing
      PROVE  SharedGoal
  <2>1. Pending(e) /\ SameTid(e)
    BY <1>2, <1>3 DEF Pending, SameTid
  <2>2. Lossless(disk, e)
    BY <1>2, <1>3 DEF Lossless
  <2> QED
    BY <1>0, <1>1, <1>3, <2>1, <2>2, SharedProceed
<1>4. ASSUME NEW r, SharedFits(disk, r), Caught(r)  PROVE SharedGoal
  BY <1>4, SharedStay DEF Caught, Goto
<1>5. ASSUME NEW s \in {"dropStage", "dropJournal"}, run.pc \in Finishing \cap Cleaning
      PROVE  SharedFits(disk, At(s)) /\ SharedFits(disk, [At(s) EXCEPT !.clean = FALSE])
  <2>1. At(s) \in Run /\ At(s).pc = s /\ At(s).goal = run.goal
    BY <1>5, AtType DEF Steps
  <2>2. /\ [At(s) EXCEPT !.clean = FALSE] \in Run
        /\ [At(s) EXCEPT !.clean = FALSE].pc = s
        /\ [At(s) EXCEPT !.clean = FALSE].goal = run.goal
    BY <2>1 DEF Run
  <2> QED
    BY <1>0, <1>1, <1>2, <1>5, <2>1, <2>2 DEF Finishing
<1>6. ASSUME NEW d \in Disk, run.pc \in Cleaning
      PROVE  SharedFits(d, At("sync"))
  <2>1. /\ At("sync") \in Run /\ At("sync").pc = "sync"
        /\ At("sync").goal = run.goal
    BY AtType DEF Steps
  <2> QED
    BY <1>0, <1>6, <2>1 DEF SharedFits, Owned, Vacated, Moving,
           Committing, Finishing, Cleaning
<1>7. CASE Publish /\ run.pc = "publish"
  <2> DEFINE j == [disk.journal EXCEPT !.published = TRUE]
             e == [disk EXCEPT !.journal.published = TRUE]
  <2>1. disk.journal \in Journal /\ SameTid(disk)
    BY <1>2, <1>7 DEF Disk, Pending, Finishing
  <2>2. j \in Journal /\ j.tid = disk.journal.tid
    BY <2>1 DEF Journal
  <2>3. e = [disk EXCEPT !.journal = j]
    BY DEF Disk
  <2>4. Attempt(e, At("settle"), Goto(At("settle")))
    BY <1>7 DEF Publish
  <2> HIDE DEF e, j
  <2>5. /\ e \in Disk /\ e.live = disk.live /\ e.backup = disk.backup
        /\ e.journal = j /\ e.marker = disk.marker
    BY <2>2, <2>3 DEF Disk
  <2>6. Pending(e) /\ SameTid(e)
    BY <2>1, <2>2, <2>5, NoRecordAssumption DEF Pending, SameTid
  <2>7. At("settle") \in Run /\ At("settle").pc = "settle"
    BY AtType DEF Steps
  <2>8. SharedFits(e, At("settle")) /\ SharedFits(disk, At("settle"))
    BY <1>1, <1>2, <1>7, <2>5, <2>6, <2>7 DEF Finishing, Cleaning
  <2>9. Lossless(disk, e)
    BY <2>5, LosslessSelf
  <2>10. SharedFits(disk', run') /\ settled' \in Disk /\ Lossless(disk, disk')
    BY <1>l, <2>4, <2>5, <2>8, <2>9 DEF Attempt, Goto
  <2> QED
    BY <2>10 DEF SharedGoal
<1>8. CASE Publish /\ run.pc = "settle"
  <2>1. /\ Cleanup("done") \in Run /\ Cleanup("done").pc = "dropBackup"
        /\ Cleanup("done").goal = "done"
    BY GoalType
  <2>2. SharedFits(disk, Cleanup("done"))
    BY <1>1, <1>2, <1>8, <2>1 DEF Finishing
  <2> QED
    BY <1>8, <1>l, <2>2, SharedAttempt DEF Publish
<1>9. CASE Drop /\ run.pc = "dropBackup"
  <2>0. run.pc \in Finishing \cap Cleaning
    BY <1>9 DEF Finishing, Cleaning
  <2>1. ASSUME NEW p \in Path, disk.backup[p] # NoFile, NEW o \in Remains(disk.backup[p]),
               Proceed([disk EXCEPT !.backup[p] = o], run)
        PROVE  SharedGoal
    <3> DEFINE t == [disk.backup EXCEPT ![p] = o]
               e == [disk EXCEPT !.backup = t]
    <3>1. disk.backup[p] \in Object
      BY <2>1 DEF Tree
    <3>2. t \in Tree
      BY <3>1, RemainsType, TreeUpdate
    <3>3. /\ e \in Disk /\ e.live = disk.live /\ e.journal = disk.journal
          /\ e.marker = disk.marker
      BY <3>2 DEF Disk
    <3>4. Proceed(e, run)
      BY <2>1 DEF Disk
    <3> HIDE DEF e
    <3> QED
      BY <1>3, <2>0, <3>3, <3>4
  <2>2. CASE Proceed(disk, At("dropStage"))
    BY <1>5, <1>l, <2>0, <2>2, SharedProceed
  <2>3. CASE Caught([At("dropStage") EXCEPT !.clean = FALSE])
    BY <1>4, <1>5, <2>0, <2>3
  <2> QED
    BY <1>9, <2>1, <2>2, <2>3 DEF Drop
<1>10. CASE Drop /\ run.pc = "dropStage"
  <2>0. run.pc \in Finishing \cap Cleaning
    BY <1>10 DEF Finishing, Cleaning
  <2>1. ASSUME NEW p \in Path, disk.stage[p] # NoFile, NEW o \in Remains(disk.stage[p]),
               Proceed([disk EXCEPT !.stage[p] = o], run)
        PROVE  SharedGoal
    <3> DEFINE t == [disk.stage EXCEPT ![p] = o]
               e == [disk EXCEPT !.stage = t]
    <3>1. disk.stage[p] \in Object
      BY <2>1 DEF Tree
    <3>2. t \in Tree
      BY <3>1, RemainsType, TreeUpdate
    <3>3. /\ e \in Disk /\ e.live = disk.live /\ e.journal = disk.journal
          /\ e.marker = disk.marker
      BY <3>2 DEF Disk
    <3>4. Proceed(e, run)
      BY <2>1 DEF Disk
    <3> HIDE DEF e
    <3> QED
      BY <1>3, <2>0, <3>3, <3>4
  <2>2. CASE Proceed(disk, At("dropJournal"))
    BY <1>5, <1>l, <2>0, <2>2, SharedProceed
  <2>3. CASE Caught([At("dropJournal") EXCEPT !.clean = FALSE])
    BY <1>4, <1>5, <2>0, <2>3
  <2> QED
    BY <1>10, <2>1, <2>2, <2>3 DEF Drop
<1>11. CASE Drop /\ run.pc = "dropJournal"
  <2>0. run.pc \in Cleaning
    BY <1>11 DEF Cleaning
  <2>1. CASE Proceed([disk EXCEPT !.journal = NoRecord], At("sync"))
    <3> DEFINE e == [disk EXCEPT !.journal = NoRecord]
    <3>1. e \in Disk /\ Lossless(disk, e)
      <4>1. e \in Disk /\ e.live = disk.live /\ e.backup = disk.backup
        BY DEF Disk
      <4> HIDE DEF e
      <4> QED
        BY <4>1, LosslessSelf
    <3>2. Proceed(e, At("sync"))
      BY <2>1
    <3> HIDE DEF e
    <3> QED
      BY <1>6, <2>0, <3>1, <3>2, SharedProceed
  <2>2. CASE Proceed(disk, At("sync"))
    BY <1>6, <1>l, <2>0, <2>2, SharedProceed
  <2>3. CASE Caught(At("sync"))
    BY <1>4, <1>6, <2>0, <2>3
  <2> QED
    BY <1>11, <2>1, <2>2, <2>3 DEF Drop
<1>12. CASE SyncWorkspace
  <2>1. SharedFits(disk, At(run.goal))
    <3>1. run.goal \in {"probe", "done", "error"}
      BY DEF Run
    <3>2. run.goal # "error" => run.goal \in Plain
      BY <3>1 DEF Plain
    <3>3. run.goal # "error"
      BY <1>12 DEF Owned, SyncWorkspace, Cleaning
    <3> QED
      BY <3>2, <3>3, SharedPlaces
  <2>2. CASE disk' = disk /\ settled' = disk /\ Goto(At(run.goal))
    BY <1>l, <2>1, <2>2 DEF Goto, SharedGoal
  <2>3. CASE Caught(At(run.goal))
    BY <1>4, <2>1, <2>3
  <2> QED
    BY <1>12, <2>2, <2>3 DEF SyncWorkspace
<1> QED
  BY <1>7, <1>8, <1>9, <1>10, <1>11, <1>12 DEF Publish, Drop

LEMMA SharedUndo ==
  ASSUME SharedInv, recipe' = recipe,
         RollbackPath \/ MoveBack \/ PutBack \/ ClearJournal
  PROVE  SharedGoal
<1> USE SharedHere
<1>l. Lossless(disk, disk)
  BY LosslessSelf
<1>v. late \/ Vacated(disk, run)
  BY DEF SharedInv
<1>p. ASSUME run.idx \in Path, NEW d \in Disk
      PROVE  SharedFits(d, AtPath("rollback", run.idx - 1))
  <2>1. run.idx - 1 \in 0..N+1
    BY <1>p DEF Path
  <2> QED
    BY <1>p, <2>1, SharedPlaces DEF Plain
<1>m. ASSUME run.idx \in Path, NEW d \in Disk, NEW s \in {"takeBack", "restore"},
             s = "restore" => d.live[run.idx] = NoFile
      PROVE  SharedFits(d, At(s))
  <2>1. At(s) \in Run /\ At(s).pc = s /\ At(s).idx = run.idx
    BY AtType DEF Steps
  <2> QED
    BY <1>m, <2>1
       DEF SharedFits, Owned, Vacated, Moving, Committing, Finishing, Cleaning
<1>1. CASE RollbackPath
  <2>1. CASE Proceed(disk, At("clear"))
    BY <1>l, <2>1, SharedPlaces, SharedProceed DEF Plain
  <2>2. CASE UNCHANGED <<disk, settled>> /\ Fail
    BY <2>2, SharedFail
  <2>3. CASE run.idx \in Path /\ Proceed(disk, At("takeBack"))
    BY <1>l, <1>m, <2>3, SharedProceed
  <2>4. CASE run.idx \in Path /\ Restores(disk, run.idx) /\ Proceed(disk, At("restore"))
    BY <1>l, <1>m, <2>4, SharedProceed DEF Restores
  <2>5. CASE run.idx \in Path /\ Proceed(disk, AtPath("rollback", run.idx - 1))
    BY <1>l, <1>p, <2>5, SharedProceed
  <2> QED
    BY <1>1, <2>1, <2>2, <2>3, <2>4, <2>5 DEF RollbackPath, Raises
<1>3. CASE MoveBack
  <2>0. run.idx \in Path
    BY <1>3 DEF MoveBack, Moving
  <2> DEFINE e == TakeBack(disk, run.idx)
             next == IF disk.journal.had[run.idx] THEN At("restore")
                     ELSE AtPath("rollback", run.idx - 1)
  <2>1. /\ e \in Disk /\ e.backup = disk.backup
        /\ e.live = [disk.live EXCEPT ![run.idx] = NoFile]
        /\ e.stage = [disk.stage EXCEPT ![run.idx] = disk.live[run.idx]]
    <3>1. disk \in Disk /\ run.idx \in Path
      BY <2>0
    <3> QED
      BY <3>1, TakeBackFacts, Zenon
  <2>2. Rename(e, disk.live[run.idx], disk.stage[run.idx], next, Fail)
    BY <1>3 DEF MoveBack
  <2>3. next \in {At("restore"), AtPath("rollback", run.idx - 1)}
    OBVIOUS
  <2> HIDE DEF e, next
  <2>4. Lossless(disk, e)
    BY <2>0, <2>1 DEF Lossless, Tree
  <2>5. e.live[run.idx] = NoFile
    BY <2>0, <2>1 DEF Tree
  <2>6. SharedFits(e, next)
    BY <1>m, <1>p, <2>0, <2>1, <2>3, <2>5
  <2> QED
    BY <2>2, <2>4, <2>6, SharedRename
<1>4. CASE PutBack
  <2>0. run.idx \in Path /\ run.pc = "restore"
    BY <1>4 DEF PutBack, Moving
  <2> DEFINE e == Restore(disk, run.idx)
  <2>1. /\ e \in Disk
        /\ e.backup = [disk.backup EXCEPT ![run.idx] = NoFile]
        /\ e.live = [disk.live EXCEPT ![run.idx] = disk.backup[run.idx]]
    <3>1. disk \in Disk /\ run.idx \in Path
      BY <2>0
    <3> QED
      BY <3>1, RestoreFacts, Zenon
  <2>2. Rename(e, disk.backup[run.idx], disk.live[run.idx],
               AtPath("rollback", run.idx - 1), Fail)
    BY <1>4 DEF PutBack
  <2> HIDE DEF e
  <2>3. late \/ disk.live[run.idx] = NoFile
    BY <1>v, <2>0 DEF Vacated
  <2>4. Lossless(disk, e)
    BY <2>0, <2>1, <2>3 DEF Lossless, Overtaken, Moving, Tree
  <2>5. SharedFits(e, AtPath("rollback", run.idx - 1))
    BY <1>p, <2>0, <2>1
  <2> QED
    BY <2>2, <2>4, <2>5, SharedRename
<1>2. CASE ClearJournal
  <2>1. ASSUME NEW e, e = [disk EXCEPT !.journal = NoRecord],
               \/ disk' = e /\ settled' = e /\ AfterRollback
               \/ disk' \in {disk, e} /\ UNCHANGED settled /\ Fail
               \/ disk' = e /\ UNCHANGED settled /\ Goto(Off)
        PROVE  SharedGoal
    <3>1. e \in Disk /\ e.live = disk.live /\ e.backup = disk.backup
      BY <2>1 DEF Disk
    <3>2. SharedFits(e, At("probe"))
      BY <3>1, SharedPlaces DEF Plain
    <3>3. SharedFits(disk', run') /\ settled' \in Disk
      BY <2>1, <3>1, <3>2 DEF AfterRollback, Goto, Fail
    <3>4. Lossless(disk, disk')
      BY <2>1, <3>1, LosslessSelf
    <3> QED
      BY <3>3, <3>4 DEF SharedGoal
  <2> QED
    BY <1>2, <2>1, SharedFail DEF ClearJournal
<1> QED
  BY <1>1, <1>2, <1>3, <1>4

LEMMA SharedRun ==
  ASSUME SharedInv, RunStep
  PROVE  SharedGoal
<1>1. recipe' = recipe
  BY DEF RunStep
<1> QED
  BY <1>1, SharedBefore, SharedExtraction, SharedTests, SharedMoves, SharedMark,
     SharedFinish, SharedUndo DEF RunStep

(* Every step counts its mishaps and reports what can be reported.         *)
LEMMA RunCounts ==
  ASSUME Counted, RunStep
  PROVE  Counted'
<1> DEFINE Reported == outcome' \in Outcome /\ (Unhurt \/ Fault \/ Stop)
<1>0. outcome \in Outcome /\ {"error", "ready", "adopted", "installed"} \subseteq Outcome
  BY DEF Counted, Outcome
<1>1. \A d, next : Proceed(d, next) => Reported
  BY <1>0 DEF Proceed, Goto
<1>2. \A next : Caught(next) => Reported
  BY <1>0 DEF Caught, Goto
<1>3. Raises(Fail) \/ (Fail /\ (Unhurt \/ Fault)) => Reported
  BY <1>0 DEF Raises, Fail
<1>4. Raises(Withdraw) \/ (Withdraw /\ (Unhurt \/ Fault)) => Reported
  BY <1>0 DEF Raises, Withdraw, Goto
<1>5. \A d, next : Attempt(d, next, Fail) => Reported
  BY <1>0, <1>3 DEF Attempt, Goto
<1>6. \A d, next : Attempt(d, next, Withdraw) => Reported
  BY <1>0, <1>4 DEF Attempt, Goto
<1>7. \A d, source, target, next : Rename(d, source, target, next, Fail) => Reported
  BY <1>3, <1>5 DEF Rename
<1>8. \A d, source, target, next : Rename(d, source, target, next, Withdraw) => Reported
  BY <1>4, <1>6 DEF Rename
<1>9. \A code \in Outcome : Succeed(code) => Reported
  BY <1>0 DEF Succeed
<1>10. \A bad : Intruded(bad) => Reported
  BY <1>4 DEF Intruded
<1>11. \A d, next, after : Attempt(d, next, Goto(after)) => Reported
  BY <1>0 DEF Attempt, Goto
<1>12. \A next : Goto(next) /\ (Unhurt \/ Stop) => Reported
  BY <1>0 DEF Goto
<1> HIDE DEF Reported
<1>13. ASSUME Recover \/ Probe \/ Adopt \/ Report  PROVE Reported
  <2>1. CASE Recover
    BY <1>1, <1>2, <1>3, <2>1 DEF Recover
  <2>2. CASE Probe
    BY <1>0, <1>1, <1>2, <1>9, <2>2 DEF Probe
  <2>3. CASE Adopt
    BY <1>1, <1>2, <1>3, <1>5, <2>3 DEF Adopt
  <2>4. CASE Report
    BY <1>0, <1>3, <1>9, <2>4 DEF Report
  <2> QED
    BY <1>13, <2>1, <2>2, <2>3, <2>4
<1>14. ASSUME Plan \/ Extract \/ Check \/ OpenJournal \/ Announce  PROVE Reported
  <2>1. CASE Plan
    BY <1>1, <1>3, <2>1 DEF Plan
  <2>2. CASE Extract
    BY <1>1, <1>3, <2>2 DEF Extract
  <2>3. CASE Check
    BY <1>1, <1>3, <2>3 DEF Check
  <2>4. CASE OpenJournal
    BY <1>3, <1>5, <2>4 DEF OpenJournal
  <2>5. CASE Announce
    BY <1>1, <1>3, <2>5 DEF Announce
  <2> QED
    BY <1>14, <2>1, <2>2, <2>3, <2>4, <2>5
<1>15. ASSUME BackUp \/ MoveAside \/ Install \/ MoveLive \/ Mark  PROVE Reported
  <2>1. CASE BackUp
    BY <1>1, <1>4, <1>6, <1>10, <2>1 DEF BackUp
  <2>2. CASE MoveAside \/ MoveLive
    BY <1>8, <2>2 DEF MoveAside, MoveLive
  <2>3. CASE Install
    BY <1>1, <1>4, <1>10, <2>3 DEF Install
  <2>4. CASE Mark
    BY <1>4, <1>6, <1>10, <2>4 DEF Mark
  <2> QED
    BY <1>15, <2>1, <2>2, <2>3, <2>4
<1>16. ASSUME Publish \/ Drop \/ SyncWorkspace  PROVE Reported
  <2>1. CASE Publish
    BY <1>5, <1>11, <2>1 DEF Publish
  <2>2. CASE Drop
    BY <1>1, <1>2, <2>2 DEF Drop
  <2>3. CASE SyncWorkspace
    BY <1>2, <1>12, <2>3 DEF SyncWorkspace
  <2> QED
    BY <1>16, <2>1, <2>2, <2>3
<1>17. ASSUME RollbackPath \/ MoveBack \/ PutBack \/ ClearJournal  PROVE Reported
  <2>1. CASE RollbackPath
    BY <1>1, <1>3, <2>1 DEF RollbackPath
  <2>2. CASE MoveBack \/ PutBack
    BY <1>7, <2>2 DEF MoveBack, PutBack
  <2>3. CASE ClearJournal
    <3>1. AfterRollback /\ Unhurt => Reported
      BY <1>3, <1>12 DEF AfterRollback
    <3> QED
      BY <1>3, <1>12, <2>3, <3>1 DEF ClearJournal
  <2> QED
    BY <1>17, <2>1, <2>2, <2>3
<1>18. Reported
  BY <1>13, <1>14, <1>15, <1>16, <1>17 DEF RunStep
<1>19. misread' \in BOOLEAN /\ late' \in BOOLEAN
  BY DEF Counted, RunStep
<1> QED
  BY <1>18, <1>19, BoundAssumption DEF Reported, Counted, Unhurt, Fault, Stop

(* One path of the game directory, whoever writes to it: between runs, or  *)
(* behind the back of one.                                                 *)
LEMMA SharedWrite ==
  ASSUME SharedInv, NEW p \in Path, NEW o \in Object \cup {NoFile},
         \/ disk' = [disk EXCEPT !.live[p] = o]
         \/ disk' = [disk EXCEPT !.backup[p] = o],
         UNCHANGED <<settled, run, recipe>>, run = Off \/ late', Counted'
  PROVE  SharedInv'
<1> USE SharedHere
<1>1. [disk.live EXCEPT ![p] = o] \in Tree /\ [disk.backup EXCEPT ![p] = o] \in Tree
  BY TreeUpdate
<1>2. \/ disk' = [disk EXCEPT !.live = [disk.live EXCEPT ![p] = o]]
      \/ disk' = [disk EXCEPT !.backup = [disk.backup EXCEPT ![p] = o]]
  BY DEF Disk
<1>3. disk' \in Disk /\ disk'.journal = disk.journal /\ disk'.marker = disk.marker
  BY <1>1, <1>2 DEF Disk
<1>4. TypeOK'
  BY <1>3 DEF SharedInv, TypeOK, Counted
<1>5. Owned(disk, run)'
  BY <1>3 DEF Owned, Pending, SameTid
<1>6. (late \/ Vacated(disk, run))'
  BY OffType DEF Vacated
<1> QED
  BY <1>4, <1>5, <1>6 DEF SharedInv

(* A run starts or ends, and the disk is one of the two.                   *)
LEMMA SharedBare ==
  ASSUME SharedInv, disk' \in {disk, settled}, settled' = settled,
         recipe' \in Recipe, run' \in Bare, Counted'
  PROVE  SharedInv'
<1>1. SharedFits(disk', run') /\ disk' \in Disk /\ settled' \in Disk
  BY SharedHere, BareFits
<1> QED
  BY <1>1 DEF SharedInv, SharedFits, TypeOK, Counted

LEMMA SharedStep == SharedInv /\ [Next \/ Intrude]_vars => SharedInv'
<1> SUFFICES ASSUME SharedInv, [Next \/ Intrude]_vars PROVE SharedInv'
  OBVIOUS
<1> USE SharedHere
<1>c. Counted
  BY DEF SharedInv, TypeOK, Counted
<1>1. CASE RunStep
  <2>1. SharedGoal /\ Counted'
    BY <1>1, <1>c, SharedRun, RunCounts
  <2> QED
    BY <2>1 DEF SharedGoal, SharedFits, SharedInv, TypeOK, Counted
<1>2. CASE Start
  <2>1. run' \in Bare
    BY <1>2 DEF Start, Launch, Bare
  <2>2. Counted'
    BY <1>2, <1>c DEF Start, Launch, Counted, Unhurt, Outcome, history
  <2> QED
    BY <1>2, <2>1, <2>2, SharedBare DEF Start, Launch
<1>3. CASE Kill \/ PowerCut
  <2>1. run' \in Bare
    BY <1>3 DEF Kill, PowerCut, Bare
  <2>2. Counted'
    BY <1>3, <1>c, BoundAssumption DEF Kill, PowerCut, Stop, Counted, Outcome, history
  <2> QED
    BY <1>3, <2>1, <2>2, SharedBare DEF Kill, PowerCut
<1>4. CASE Writeback
  BY <1>4 DEF Writeback, SharedInv, TypeOK, history
<1>5. CASE Edit
  <2>1. PICK p \in Path : \E o \in Damages(disk.live[p]) :
            disk.live[p] # NoFile /\ disk' = [disk EXCEPT !.live[p] = o]
    BY <1>5 DEF Edit, Touch
  <2>2. PICK o \in Damages(disk.live[p]) :
            disk.live[p] # NoFile /\ disk' = [disk EXCEPT !.live[p] = o]
    BY <2>1
  <2>3. disk.live[p] \in Object
    BY <2>2 DEF Tree
  <2>4. o \in Object \cup {NoFile}
    BY <2>3 DEF Damages, Object, Form
  <2>5. Counted'
    BY <1>5, <1>c DEF Edit, Touch, Counted, Outcome, history
  <2> QED
    BY <1>5, <2>2, <2>4, <2>5, SharedWrite DEF Edit, Touch
<1>6. CASE Upgrade
  <2>1. recipe' \in Recipe /\ run' \in Bare
    BY <1>6, RecipeAssumption DEF Upgrade, Recipe, Bare
  <2>2. Counted'
    BY <1>6, <1>c DEF Upgrade, Counted, Outcome, history
  <2> QED
    BY <1>6, <2>1, <2>2, SharedBare DEF Upgrade
<1>7. CASE Intrude
  <2>1. Counted'
    BY <1>7, <1>c, BoundAssumption DEF Intrude, Fault, Counted, Outcome
  <2> QED
    BY <1>7, <2>1, SharedWrite DEF Intrude
<1>8. CASE UNCHANGED vars
  BY <1>8 DEF vars, history, SharedInv, TypeOK
<1> QED
  BY <1>1, <1>2, <1>3, <1>4, <1>5, <1>6, <1>7, <1>8 DEF Next

LEMMA SharedInit == Init => SharedInv
<1> SUFFICES ASSUME Init PROVE SharedInv
  OBVIOUS
<1>1. disk \in Disk
  BY EmptyType DEF Init, Disk
<1>2. recipe \in Recipe
  BY RecipeAssumption DEF Init, Recipe
<1>3. TypeOK
  <2>1. run \in Run /\ run.pc = "off"
    BY OffType DEF Init
  <2>2. outcome \in Outcome
    BY DEF Init, Outcome
  <2>3. faults \in 0..MaxFaults /\ stops \in 0..MaxStops
    BY BoundAssumption DEF Init
  <2> QED
    BY <1>1, <1>2, <2>1, <2>2, <2>3 DEF Init, TypeOK, Moving
<1>4. SharedFits(disk, run)
  BY <1>1, BareFits DEF Init, Bare
<1> QED
  BY <1>3, <1>4 DEF SharedInv, SharedFits

(* Even with somebody else at work in the game directory, no step of the   *)
(* installer deletes or overwrites what was live when it looked, nor a     *)
(* backup before the marker of its transaction was written (durable_rename *)
(* after each test of commit_stage and rollback_transaction,               *)
(* _finalize_published_transaction).                                       *)
THEOREM NothingIsEverLost == SharedSpec => NothingLost
<1>1. SharedInv /\ [Next \/ Intrude]_vars =>
         [RunStep => \A p \in Path :
             \/ Overtaken(p)
             \/ /\ disk.live[p] # NoFile =>
                        disk.live[p] \in {disk'.live[p], disk'.stage[p], disk'.backup[p]}
                /\ disk.backup[p] # NoFile =>
                        \/ disk.backup[p] \in {disk'.live[p], disk'.backup[p]}
                        \/ /\ disk.marker # NoRecord /\ Pending(disk)
                           /\ disk.marker.tid = disk.journal.tid]_vars
  BY SharedRun DEF SharedGoal, Lossless, SameTid
<1> QED
  BY <1>1, SharedInit, SharedStep, PTL DEF SharedSpec, NothingLost
-----------------------------------------------------------------------------
(* With the game directory to itself, and as long as no failed read took   *)
(* the account of a transaction away: what every step of a run keeps.      *)

Sure == TypeOK /\ Accountable

(* A disk and a run of version v that belong together.                     *)
Fits(d, r, v) == d \in Disk /\ Consistent(d) /\ Knows(d, r, v)

LEMMA OffKnows == \A d, v : Knows(d, Off, v)
  BY OffType DEF Knows, Before, Committing, Finishing, Undoing, Cleaning

LEMMA OffFits ==
  ASSUME NEW d \in Disk, Consistent(d)
  PROVE  \A v : Fits(d, Off, v)
  BY OffKnows DEF Fits

LEMMA Here ==
  ASSUME Sure
  PROVE  /\ disk \in Disk /\ settled \in Disk /\ recipe \in Recipe
         /\ Consistent(disk) /\ Consistent(settled)
         /\ run \in Run /\ run.idx \in 0..N+1
         /\ run.pc \in Moving \cup {"install"} => run.idx \in Path
         /\ Knows(disk, run, recipe)
         /\ Fits(disk, run, recipe)
  BY DEF Sure, TypeOK, Accountable, Fits, Run

LEMMA Frame ==
  ASSUME Sure, recipe' = recipe, settled' \in {settled, disk'},
         Fits(disk', run', recipe)
  PROVE  Accountable'
  BY Here DEF Accountable, Fits

LEMMA ProceedStep ==
  ASSUME Sure, recipe' = recipe, NEW d, NEW next,
         Fits(d, next, recipe), Proceed(d, next)
  PROVE  Accountable'
  BY Frame DEF Proceed, Goto

LEMMA FailStep ==
  ASSUME Sure, recipe' = recipe, disk' = disk, settled' = settled, Fail
  PROVE  Accountable'
<1>1. Fits(disk', run', recipe)
  BY OffFits, Here DEF Fail
<1> QED
  BY <1>1, Frame

LEMMA RaiseStep ==
  ASSUME Sure, recipe' = recipe, Raises(Fail)
  PROVE  Accountable'
  BY FailStep DEF Raises

LEMMA CaughtStep ==
  ASSUME Sure, recipe' = recipe, NEW r, Fits(disk, r, recipe), Caught(r)
  PROVE  Accountable'
  BY Frame DEF Caught, Goto

LEMMA SucceedStep ==
  ASSUME Sure, recipe' = recipe, NEW code, Succeed(code)
  PROVE  Accountable'
<1>1. Fits(disk', run', recipe)
  BY OffFits, Here DEF Succeed
<1> QED
  BY <1>1, Frame DEF Succeed

LEMMA AttemptFail ==
  ASSUME Sure, recipe' = recipe, NEW d, NEW next,
         Fits(d, next, recipe), Attempt(d, next, Fail)
  PROVE  Accountable'
<1>1. Fits(d, Off, recipe) /\ Fits(disk, Off, recipe)
  BY OffFits, Here DEF Fits
<1>2. Fits(disk', run', recipe) /\ settled' \in {settled, disk'}
  BY <1>1 DEF Attempt, Goto, Fail
<1> QED
  BY <1>2, Frame

LEMMA AttemptWithdraw ==
  ASSUME Sure, recipe' = recipe, NEW d, NEW next,
         Fits(d, next, recipe), Attempt(d, next, Withdraw),
         Fits(d, Rollback("error"), recipe), Fits(disk, Rollback("error"), recipe)
  PROVE  Accountable'
<1>1. Fits(d, Off, recipe)
  BY OffFits DEF Fits
<1>2. Fits(disk', run', recipe) /\ settled' \in {settled, disk'}
  BY <1>1 DEF Attempt, Goto, Withdraw
<1> QED
  BY <1>2, Frame

(* A step to a place that asks nothing of the disk but what it is.         *)
LEMMA MoveFits ==
  ASSUME Sure, NEW s \in Before \ {"sync"},
         Pending(disk) => Published(disk) /\ disk.journal.recipe = recipe
  PROVE  Fits(disk, At(s), recipe)
<1>1. At(s) \in Run /\ At(s).pc = s
  <2>1. s \in Steps
    BY DEF Before, Steps
  <2> QED
    BY <2>1, AtType, Here
<1>2. Knows(disk, At(s), recipe)
  BY <1>1 DEF Knows, Before, Committing, Finishing, Undoing, Cleaning
<1> QED
  BY <1>2, Here DEF Fits
-----------------------------------------------------------------------------
(* One lemma per step.                                                     *)

LEMMA StartStep ==
  ASSUME Sure, Start
  PROVE  Accountable'
<1> PICK force \in BOOLEAN : run' = [Off EXCEPT !.pc = "recover", !.force = force]
  BY DEF Start, Launch
<1>1. run'.pc = "recover"
  BY OffType DEF Run
<1>2. Fits(disk', run', recipe)
  BY <1>1, Here DEF Fits, Knows, Start, Launch, Before, Committing, Finishing, Undoing, Cleaning
<1> QED
  BY <1>2, Frame DEF Start, Launch

(* The run ends, or was over: the disk is what it was, or what settled.    *)
LEMMA OffStep ==
  ASSUME Sure, disk' \in {disk, settled}, settled' \in {settled, disk}, run' = Off
  PROVE  Accountable'
  BY OffKnows, Here DEF Accountable

LEMMA EditStep ==
  ASSUME Sure, Edit
  PROVE  Accountable'
<1>1. PICK p \in Path : \E o \in Damages(disk.live[p]) :
            disk.live[p] # NoFile /\ disk' = [disk EXCEPT !.live[p] = o]
  BY DEF Edit, Touch
<1>2. PICK o \in Damages(disk.live[p]) :
            disk.live[p] # NoFile /\ disk' = [disk EXCEPT !.live[p] = o]
  BY <1>1
<1>3. ~Pending(disk) /\ ~Pending(disk') /\ disk'.backup = disk.backup
  BY <1>2, Here DEF Edit, Pending, Disk
<1>4. Consistent(disk')
  BY <1>3, Here DEF Consistent
<1> QED
  BY <1>4, OffKnows, Here DEF Accountable, Edit, Touch

LEMMA RecoverStep ==
  ASSUME Sure, Recover, recipe' = recipe, ~Mistaken
  PROVE  Accountable'
<1>1. CASE ~Pending(disk) /\ Proceed(disk, At("probe"))
  <2>1. Fits(disk, At("probe"), recipe)
    BY <1>1, MoveFits DEF Before
  <2> QED
    BY <1>1, <2>1, ProceedStep
<1>2. CASE UNCHANGED <<disk, settled>> /\ Fail
  BY <1>2, FailStep
<1>3. CASE /\ Pending(disk) /\ disk.journal.recipe = recipe
           /\ Published(disk) /\ Proceed(disk, Cleanup("probe"))
  <2>1. Fits(disk, Cleanup("probe"), recipe)
    BY <1>3, Here, GoalType DEF Fits, Knows, Before, Committing, Finishing, Undoing, Cleaning
  <2> QED
    BY <1>3, <2>1, ProceedStep
<1>4. ASSUME Pending(disk), disk.journal.recipe = recipe, Undoable(disk)
      PROVE  Fits(disk, Rollback("probe"), recipe)
  BY <1>4, Here, GoalType, NAssumption
     DEF Fits, Knows, Before, Committing, Finishing, Undoing, Cleaning, Path
<1>5. CASE /\ Pending(disk) /\ disk.journal.recipe = recipe
           /\ ~Published(disk) /\ Proceed(disk, Rollback("probe"))
  <2>1. Undoable(disk)
    BY <1>5, Here DEF Consistent
  <2> QED
    BY <1>4, <1>5, <2>1, ProceedStep
<1>6. CASE /\ Pending(disk) /\ disk.journal.recipe = recipe
           /\ Published(disk) /\ Caught(Rollback("probe"))
  <2>1. run'.pc = "rollback"
    BY <1>6, GoalType, Here DEF Caught, Goto
  <2>2. Undoable(disk)
    BY <1>6, <2>1 DEF Mistaken, Recover
  <2> QED
    BY <1>4, <1>6, <2>2, CaughtStep
<1> QED
  BY <1>1, <1>2, <1>3, <1>5, <1>6 DEF Recover, Raises

LEMMA ProbeStep ==
  ASSUME Sure, Probe, recipe' = recipe
  PROVE  Accountable'
<1>0. Pending(disk) => Published(disk) /\ disk.journal.recipe = recipe
  BY Here DEF Probe, Knows, Before
<1>1. Fits(disk, At("plan"), recipe) /\ Fits(disk, At("adopt"), recipe)
  BY <1>0, MoveFits DEF Before
<1> QED
  BY <1>1, ProceedStep, CaughtStep, SucceedStep DEF Probe

(* With a transaction still pending, only a marker that is not written     *)
(* leaves its account alone.                                               *)
LEMMA AdoptPending ==
  ASSUME Sure, Adopt, ~Mistaken, Pending(disk), NEW t \in Tid, FreshTid(t),
         Attempt(Marked(t), At("adopted"), Fail)
  PROVE  disk' = disk /\ settled' = settled /\ Fail
<1>1. Marked(t).marker = [tid |-> t, recipe |-> recipe, seal |-> disk.live]
  BY MarkedFacts, Here
<1>2. Published(disk)
  BY Here DEF Adopt, Knows, Before
<1>3. Marked(t).marker # disk.marker
  BY <1>1, <1>2 DEF FreshTid, Published, Ready
<1>4. disk' = disk
  BY <1>3 DEF Mistaken, Adopt, Attempt
<1> QED
  BY <1>3, <1>4 DEF Attempt

LEMMA AdoptStep ==
  ASSUME Sure, Adopt, recipe' = recipe, ~Mistaken
  PROVE  Accountable'
<1>0. Pending(disk) => Published(disk) /\ disk.journal.recipe = recipe
  BY Here DEF Adopt, Knows, Before
<1>1. Fits(disk, At("plan"), recipe)
  BY <1>0, MoveFits DEF Before
<1>2. ASSUME NEW t \in Tid, FreshTid(t), Attempt(Marked(t), At("adopted"), Fail)
      PROVE  Accountable'
  <2>1. /\ Marked(t) \in Disk /\ Marked(t).journal = disk.journal
        /\ Marked(t).backup = disk.backup
    BY MarkedFacts, Here
  <2>2. CASE Pending(disk)
    BY <1>2, <2>2, AdoptPending, FailStep
  <2>3. CASE ~Pending(disk)
    <3>1. ~Pending(Marked(t)) /\ Consistent(Marked(t))
      BY <2>1, <2>3, Here DEF Pending, Consistent
    <3>2. At("adopted").pc = "adopted"
      BY AtType, Here DEF Steps
    <3>3. Fits(Marked(t), At("adopted"), recipe)
      BY <2>1, <3>1, <3>2
         DEF Fits, Knows, Before, Committing, Finishing, Undoing, Cleaning
    <3> QED
      BY <1>2, <3>3, AttemptFail
  <2> QED
    BY <2>2, <2>3
<1> QED
  BY <1>1, <1>2, ProceedStep, CaughtStep, RaiseStep DEF Adopt

LEMMA ReportStep ==
  ASSUME Sure, Report, recipe' = recipe
  PROVE  Accountable'
  BY SucceedStep, RaiseStep DEF Report

(* Whatever happens to the stage, a disk with no transaction pending, or   *)
(* with a published one, stays what it was.                                *)
LEMMA StageFree ==
  ASSUME NEW d \in Disk, Consistent(d), NEW t \in Tree, NEW e,
         e = [d EXCEPT !.stage = t],
         Pending(d) => Published(d)
  PROVE  /\ e \in Disk /\ Consistent(e)
         /\ e.live = d.live /\ e.backup = d.backup /\ e.journal = d.journal
         /\ Pending(e) <=> Pending(d)
         /\ Published(e) <=> Published(d)
<1>1. e \in Disk
  BY DiskUpdate
<1>2. /\ e.live = d.live /\ e.backup = d.backup
      /\ e.journal = d.journal /\ e.marker = d.marker
  BY DEF Disk
<1>3. /\ Pending(e) <=> Pending(d)
      /\ Published(e) <=> Published(d)
  BY <1>2 DEF Pending, Published, Ready
<1>4. Consistent(e)
  BY <1>2, <1>3 DEF Consistent
<1> QED
  BY <1>1, <1>2, <1>3, <1>4

LEMMA PlanStep ==
  ASSUME Sure, Plan, recipe' = recipe
  PROVE  Accountable'
<1> DEFINE r(g) == [AtPath("extract", 1) EXCEPT !.plan = g]
<1>0. Pending(disk) => Published(disk) /\ disk.journal.recipe = recipe
  BY Here DEF Plan, Knows, Before
<1>1. ASSUME NEW g \in Batch
      PROVE  r(g) \in Run /\ r(g).pc = "extract" /\ r(g).plan = g
  <2>1. AtPath("extract", 1) \in Run /\ AtPath("extract", 1).pc = "extract"
    BY NAssumption, AtType, Here DEF Steps
  <2> QED
    BY <2>1 DEF Run
<1>2. ASSUME NEW g \in Batches(disk.stage), Proceed(disk, r(g))
      PROVE  Accountable'
  <2>1. g \in Batch
    BY BatchType, Here DEF Disk
  <2>2. Fits(disk, r(g), recipe)
    BY <1>0, <1>1, <2>1, Here DEF Fits, Knows, Before, Committing, Finishing, Undoing, Cleaning
  <2> QED
    BY <1>2, <2>2, ProceedStep
<1>3. ASSUME NEW g \in Batch, Proceed([disk EXCEPT !.stage = Empty], r(g))
      PROVE  Accountable'
  <2> DEFINE e == [disk EXCEPT !.stage = Empty]
  <2>1. /\ e \in Disk /\ Consistent(e) /\ e.journal = disk.journal
        /\ Pending(e) <=> Pending(disk)
        /\ Published(e) <=> Published(disk)
    BY <1>0, StageFree, EmptyType, Here
  <2>2. Fits(e, r(g), recipe)
    BY <1>0, <1>1, <2>1 DEF Fits, Knows, Before, Committing, Finishing, Undoing, Cleaning
  <2> QED
    BY <1>3, <2>2, ProceedStep
<1> QED
  BY <1>2, <1>3, FailStep DEF Plan

LEMMA ExtractStep ==
  ASSUME Sure, Extract, recipe' = recipe
  PROVE  Accountable'
<1>0. /\ run.pc = "extract" /\ run.plan \in Batch
      /\ Pending(disk) => Published(disk) /\ disk.journal.recipe = recipe
  BY Here DEF Extract, Knows, Before, Sure, Accountable, TypeOK
<1>1. CASE Proceed(disk, At("check"))
  BY <1>0, <1>1, MoveFits, ProceedStep DEF Before
<1>2. ASSUME NEW o \in Object, NEW r \in Run, run.idx \in Path,
             r.pc = "extract", r.plan = run.plan
      PROVE  Fits(Stage(run.idx, o), r, recipe)
  <2> DEFINE t == [disk.stage EXCEPT ![run.idx] = o]
             e == Stage(run.idx, o)
  <2>1. t \in Tree /\ e = [disk EXCEPT !.stage = t]
    BY <1>2, TreeUpdate, Here DEF Stage, Disk
  <2>2. /\ e \in Disk /\ Consistent(e) /\ e.journal = disk.journal
        /\ Pending(e) <=> Pending(disk)
        /\ Published(e) <=> Published(disk)
    BY <1>0, <2>1, StageFree, Here
  <2> QED
    BY <1>0, <1>2, <2>2 DEF Fits, Knows, Before, Committing, Finishing, Undoing, Cleaning
<1>3. Staged("intact") \in Object /\ Staged("broken") \in Object
  BY <1>0 DEF Staged, Object, Form
<1>4. ASSUME run.idx \in Path
      PROVE  /\ AtPath("extract", run.idx + 1) \in Run
             /\ AtPath("extract", run.idx + 1).pc = "extract"
             /\ AtPath("extract", run.idx + 1).plan = run.plan
  <2>1. run.idx + 1 \in 0..N+1 /\ "extract" \in Steps
    BY <1>4, NAssumption DEF Path, Steps
  <2> QED
    BY <2>1, AtType, Here
<1>5. CASE /\ run.idx \in Path
           /\ Proceed(disk, AtPath("extract", run.idx + 1))
  <2>1. Fits(disk, AtPath("extract", run.idx + 1), recipe)
    BY <1>0, <1>4, <1>5, Here DEF Fits, Knows, Before, Committing, Finishing, Undoing, Cleaning
  <2> QED
    BY <1>5, <2>1, ProceedStep
<1>6. CASE run.idx \in Path /\ Proceed(Stage(run.idx, Staged("broken")), run)
  <2>1. Fits(Stage(run.idx, Staged("broken")), run, recipe)
    BY <1>0, <1>2, <1>3, <1>6, Here
  <2> QED
    BY <1>6, <2>1, ProceedStep
<1>7. CASE /\ run.idx \in Path
           /\ Proceed(Stage(run.idx, Staged("intact")), AtPath("extract", run.idx + 1))
  <2>1. Fits(Stage(run.idx, Staged("intact")), AtPath("extract", run.idx + 1), recipe)
    BY <1>2, <1>3, <1>4, <1>7
  <2> QED
    BY <1>7, <2>1, ProceedStep
<1> QED
  BY <1>1, <1>5, <1>6, <1>7, RaiseStep DEF Extract

LEMMA CheckStep ==
  ASSUME Sure, Check, recipe' = recipe
  PROVE  Accountable'
<1>0. Pending(disk) => Published(disk) /\ disk.journal.recipe = recipe
  BY Here DEF Check, Knows, Before
<1>1. CASE Proceed(disk, At("journal"))
  BY <1>0, <1>1, MoveFits, ProceedStep DEF Before
<1>2. CASE /\ disk' = [disk EXCEPT !.stage = Empty]
           /\ UNCHANGED settled /\ Fail /\ Fault
  <2>1. disk' \in Disk /\ Consistent(disk')
    BY <1>0, <1>2, StageFree, EmptyType, Here
  <2> QED
    BY <1>2, <2>1, OffFits, Frame DEF Fail
<1> QED
  BY <1>1, <1>2, RaiseStep DEF Check

LEMMA OpenJournalStep ==
  ASSUME Sure, OpenJournal, recipe' = recipe
  PROVE  Accountable'
<1>1. CASE UNCHANGED <<disk, settled>> /\ Fail /\ Unhurt
  BY <1>1, FailStep
<1>2. CASE /\ disk.backup = Empty /\ ~Pending(disk)
           /\ \E t \in Tid :
                  FreshTid(t) /\ Attempt(Opened(t), At("announce"), Fail)
  <2>1. PICK t \in Tid : Attempt(Opened(t), At("announce"), Fail)
    BY <1>2
  <2> DEFINE e == Opened(t)
  <2>2. disk \in Disk /\ recipe \in Recipe /\ disk.live \in Tree
    BY Here DEF Disk
  <2>3. [tid |-> t, recipe |-> recipe,
         had |-> [p \in Path |-> disk.live[p] # NoFile],
         published |-> FALSE, before |-> disk.live] \in Journal
    BY <2>2 DEF Journal
  <2>4. /\ e \in Disk /\ Pending(e)
        /\ e.live = disk.live /\ e.backup = disk.backup
        /\ e.journal.recipe = recipe /\ e.journal.before = disk.live
        /\ \A p \in Path : e.journal.had[p] <=> disk.live[p] # NoFile
    BY <2>2, <2>3, NoRecordAssumption DEF Opened, Pending, Disk
  <2>5. Undoable(e)
    BY <1>2, <2>4 DEF Undoable, Accounted, Empty
  <2>6. Consistent(e)
    BY <2>4, <2>5 DEF Consistent
  <2>7. At("announce").pc = "announce"
    BY AtType, Here DEF Steps
  <2>8. Fits(e, At("announce"), recipe)
    BY <2>4, <2>5, <2>6, <2>7 DEF Fits, Knows, Before, Committing, Finishing, Undoing, Cleaning
  <2> QED
    BY <2>1, <2>8, AttemptFail
<1> QED
  BY <1>1, <1>2 DEF OpenJournal
-----------------------------------------------------------------------------
(* While a transaction is open: a disk that still accounts for every path  *)
(* fits every step of the commit, and the start of a rollback.             *)

InFlight(d) == /\ d \in Disk /\ Pending(d) /\ d.journal.recipe = recipe
               /\ \A p \in Path : d.journal.had[p] <=> d.journal.before[p] # NoFile
               /\ Undoable(d)

LEMMA InFlightHere ==
  ASSUME Sure, run.pc \in Committing \cup Undoing
  PROVE  InFlight(disk)
  BY Here DEF Knows, InFlight, Consistent

LEMMA InFlightFits ==
  ASSUME Sure, NEW d, InFlight(d)
  PROVE  /\ Consistent(d)
         /\ Fits(d, Rollback("error"), recipe)
         /\ \A r : /\ r.pc \in Committing
                   /\ r.pc = "setAside" => /\ d.journal.had[r.idx]
                                           /\ d.live[r.idx] # NoFile
                                           /\ d.backup[r.idx] = NoFile
                   /\ r.pc = "goLive" => d.live[r.idx] = NoFile
                   => Fits(d, r, recipe)
<1>1. Consistent(d)
  BY DEF InFlight, Consistent
<1>2. /\ Rollback("error").pc = "rollback"
      /\ Rollback("error").idx = N
  BY GoalType, Here
<1>3. Fits(d, Rollback("error"), recipe)
  BY <1>1, <1>2, NAssumption
     DEF InFlight, Fits, Knows, Before, Committing, Finishing, Undoing, Cleaning, Path
<1>4. ASSUME NEW r, r.pc \in Committing,
             r.pc = "setAside" => /\ d.journal.had[r.idx]
                                  /\ d.live[r.idx] # NoFile
                                  /\ d.backup[r.idx] = NoFile,
             r.pc = "goLive" => d.live[r.idx] = NoFile
      PROVE  Fits(d, r, recipe)
  BY <1>1, <1>4
     DEF InFlight, Fits, Knows, Before, Committing, Finishing, Undoing, Cleaning
<1> QED
  BY <1>1, <1>3, <1>4

LEMMA WithdrawStep ==
  ASSUME Sure, recipe' = recipe, run.pc \in Committing,
         disk' = disk, settled' = settled, Withdraw
  PROVE  Accountable'
<1>1. Fits(disk, Rollback("error"), recipe)
  BY InFlightHere, InFlightFits
<1> QED
  BY <1>1, Frame DEF Withdraw, Goto

(* The step in flight: every way it can go.                                *)
LEMMA AttemptInFlight ==
  ASSUME Sure, recipe' = recipe, run.pc \in Committing,
         NEW d, NEW next, InFlight(d), Fits(d, next, recipe),
         Attempt(d, next, Withdraw)
  PROVE  Accountable'
  BY InFlightHere, InFlightFits, AttemptWithdraw

LEMMA AnnounceStep ==
  ASSUME Sure, Announce, recipe' = recipe
  PROVE  Accountable'
<1>1. CASE Proceed(disk, AtPath("backup", 1))
  <2>1. AtPath("backup", 1).pc = "backup"
    BY AtType, Here, NAssumption DEF Steps
  <2>2. Fits(disk, AtPath("backup", 1), recipe)
    BY <2>1, InFlightHere, InFlightFits DEF Announce, Committing
  <2> QED
    BY <1>1, <2>2, ProceedStep
<1> QED
  BY <1>1, RaiseStep DEF Announce

LEMMA NextPath ==
  ASSUME Sure, run.idx \in Path
  PROVE  /\ AtPath("backup", run.idx + 1) \in Run
         /\ AtPath("backup", run.idx + 1).pc = "backup"
         /\ AtPath("rollback", run.idx - 1) \in Run
         /\ AtPath("rollback", run.idx - 1).pc = "rollback"
         /\ AtPath("rollback", run.idx - 1).idx = run.idx - 1
<1>1. run.idx + 1 \in 0..N+1 /\ run.idx - 1 \in 0..N+1
  BY NAssumption DEF Path
<1> QED
  BY <1>1, AtType, Here DEF Steps

LEMMA BackUpStep ==
  ASSUME Sure, BackUp, recipe' = recipe
  PROVE  Accountable'
<1>0. run.pc \in Committing /\ InFlight(disk)
  BY InFlightHere DEF BackUp, Committing
<1>1. /\ At("mark").pc = "mark" /\ At("install").pc = "install"
      /\ At("setAside").pc = "setAside" /\ At("setAside").idx = run.idx
  BY AtType, Here DEF Steps
<1>2. Fits(disk, At("mark"), recipe) /\ Fits(disk, At("install"), recipe)
  BY <1>0, <1>1, InFlightFits DEF Committing
<1>3. ASSUME NEW bad, Intruded(bad) \/ Raises(Withdraw)
      PROVE  Accountable'
  BY <1>0, <1>3, WithdrawStep DEF Intruded, Raises
<1>4. CASE /\ disk.journal.had[run.idx] /\ disk.live[run.idx] # NoFile
           /\ disk.backup[run.idx] = NoFile
           /\ Proceed(disk, At("setAside"))
  <2>1. Fits(disk, At("setAside"), recipe)
    BY <1>0, <1>1, <1>4, InFlightFits DEF Committing
  <2> QED
    BY <1>4, <2>1, ProceedStep
<1>5. CASE Attempt(disk, At("install"), Withdraw)
  BY <1>0, <1>2, <1>5, AttemptInFlight
<1> QED
  BY <1>2, <1>3, <1>4, <1>5, ProceedStep DEF BackUp

LEMMA MoveAsideStep ==
  ASSUME Sure, MoveAside, recipe' = recipe
  PROVE  Accountable'
<1> DEFINE e == SetAside(disk, run.idx)
<1>0. /\ run.pc = "setAside" /\ run.pc \in Committing /\ InFlight(disk)
      /\ run.idx \in Path /\ disk.journal.had[run.idx]
      /\ disk.live[run.idx] # NoFile /\ disk.backup[run.idx] = NoFile
  BY InFlightHere, Here DEF MoveAside, Committing, Moving, Knows
<1>1. /\ e \in Disk /\ e.journal = disk.journal /\ e.stage = disk.stage
      /\ e.live = [disk.live EXCEPT ![run.idx] = NoFile]
      /\ e.backup = [disk.backup EXCEPT ![run.idx] = disk.live[run.idx]]
  <2>1. disk \in Disk /\ run.idx \in Path
    BY <1>0, Here
  <2> QED
    BY <2>1, SetAsideFacts, Zenon
<1>2. Attempt(e, At("install"), Withdraw) \/ (UNCHANGED <<disk, settled>> /\ Withdraw)
  BY DEF MoveAside, Rename
<1> HIDE DEF e
<1>3. disk.live \in Tree /\ disk.backup \in Tree
  BY Here DEF Disk
<1>4. Undoable(e)
  BY <1>0, <1>1, <1>3 DEF InFlight, Undoable, Accounted, Tree
<1>5. InFlight(e)
  BY <1>0, <1>1, <1>4 DEF InFlight, Pending
<1>6. At("install").pc = "install"
  BY AtType, Here DEF Steps
<1>7. Fits(e, At("install"), recipe)
  BY <1>5, <1>6, InFlightFits DEF Committing
<1> QED
  BY <1>0, <1>2, <1>5, <1>7, AttemptInFlight, WithdrawStep

LEMMA InstallStep ==
  ASSUME Sure, Install, recipe' = recipe
  PROVE  Accountable'
<1>0. run.pc \in Committing /\ InFlight(disk)
  BY InFlightHere DEF Install, Committing
<1>1. CASE Intruded(~Vacant(run.idx)) \/ Raises(Withdraw)
  BY <1>0, <1>1, WithdrawStep DEF Intruded, Raises
<1>2. CASE disk.live[run.idx] = NoFile /\ Proceed(disk, At("goLive"))
  <2>1. At("goLive").pc = "goLive" /\ At("goLive").idx = run.idx
    BY AtType, Here DEF Steps
  <2>2. Fits(disk, At("goLive"), recipe)
    BY <1>0, <1>2, <2>1, InFlightFits DEF Committing
  <2> QED
    BY <1>2, <2>2, ProceedStep
<1> QED
  BY <1>1, <1>2 DEF Install, Vacant

LEMMA MoveLiveStep ==
  ASSUME Sure, MoveLive, recipe' = recipe
  PROVE  Accountable'
<1> DEFINE e == GoLive(disk, run.idx)
<1>0. /\ run.pc = "goLive" /\ run.pc \in Committing /\ InFlight(disk)
      /\ run.idx \in Path /\ disk.live[run.idx] = NoFile
  BY InFlightHere, Here DEF MoveLive, Committing, Moving, Knows
<1>1. /\ e \in Disk /\ e.journal = disk.journal /\ e.backup = disk.backup
      /\ e.live = [disk.live EXCEPT ![run.idx] = disk.stage[run.idx]]
      /\ e.stage = [disk.stage EXCEPT ![run.idx] = NoFile]
  <2>1. disk \in Disk /\ run.idx \in Path
    BY <1>0, Here
  <2> QED
    BY <2>1, GoLiveFacts, Zenon
<1> DEFINE next == AtPath("backup", run.idx + 1)
<1>2. Attempt(e, next, Withdraw) \/ (UNCHANGED <<disk, settled>> /\ Withdraw)
  BY DEF MoveLive, Rename
<1>3. next.pc = "backup"
  BY <1>0, NextPath
<1> HIDE DEF e, next
<1>4. disk.live \in Tree /\ disk.stage \in Tree
  BY Here DEF Disk
<1>5. Undoable(e)
  BY <1>0, <1>1, <1>4 DEF InFlight, Undoable, Accounted, Tree
<1>6. InFlight(e)
  BY <1>0, <1>1, <1>5 DEF InFlight, Pending
<1>7. Fits(e, next, recipe)
  BY <1>3, <1>6, InFlightFits DEF Committing
<1> QED
  BY <1>0, <1>2, <1>6, <1>7, AttemptInFlight, WithdrawStep

LEMMA MarkStep ==
  ASSUME Sure, Mark, recipe' = recipe
  PROVE  Accountable'
<1>0. run.pc \in Committing /\ InFlight(disk)
  BY InFlightHere DEF Mark, Committing
<1>1. CASE Intruded(~Sound(disk.live)) \/ Raises(Withdraw)
  BY <1>0, <1>1, WithdrawStep DEF Intruded, Raises
<1>2. CASE /\ Sound(disk.live)
           /\ Attempt(Marked(disk.journal.tid), At("publish"), Withdraw)
  <2>1. PICK t \in Tid : t = disk.journal.tid
    BY <1>0 DEF InFlight, Disk, Pending, Journal
  <2> DEFINE e == Marked(t)
  <2>2. /\ e \in Disk /\ e.marker # NoRecord
        /\ e.live = disk.live /\ e.stage = disk.stage
        /\ e.backup = disk.backup /\ e.journal = disk.journal
        /\ e.marker = [tid |-> t, recipe |-> recipe, seal |-> disk.live]
    BY MarkedFacts, Here
  <2>3. Attempt(e, At("publish"), Withdraw)
    BY <1>2, <2>1
  <2> HIDE DEF e
  <2>4. InFlight(e)
    BY <1>0, <2>2 DEF InFlight, Undoable, Accounted, Pending
  <2>5. Published(e)
    BY <1>2, <2>1, <2>2, <2>4 DEF Published, Ready, InFlight
  <2>6. At("publish").pc = "publish"
    BY AtType, Here DEF Steps
  <2>7. Fits(e, At("publish"), recipe)
    BY <2>4, <2>5, <2>6, InFlightFits
       DEF InFlight, Fits, Knows, Before, Committing, Finishing, Undoing, Cleaning
  <2> QED
    BY <1>0, <2>3, <2>4, <2>7, AttemptInFlight
<1> QED
  BY <1>1, <1>2 DEF Mark

-----------------------------------------------------------------------------
(* Past the marker: the transaction stays published whatever the cleanup   *)
(* manages to delete.                                                      *)

LEMMA PublishedFits ==
  ASSUME Sure, NEW d \in Disk, Consistent(d), Published(d),
         d.journal.recipe = recipe, NEW r \in Run,
         r.pc \in Finishing \cup {"probe", "sync", "done"},
         r.pc \in Cleaning => r.goal # "error",
         r.pc \in {"dropStage", "dropJournal"} /\ r.clean => d.backup = Empty
  PROVE  Fits(d, r, recipe)
  BY DEF Fits, Knows, Before, Committing, Finishing, Undoing, Cleaning

LEMMA Cleared ==
  ASSUME NEW d \in Disk, NEW e, e = [d EXCEPT !.journal = NoRecord],
         d.backup = Empty
  PROVE  e \in Disk /\ ~Pending(e) /\ Consistent(e)
<1>1. e \in Disk /\ e.journal = NoRecord /\ e.backup = d.backup
  BY DiskUpdate DEF Disk
<1> QED
  BY <1>1 DEF Pending, Consistent

LEMMA PublishStep ==
  ASSUME Sure, Publish, recipe' = recipe
  PROVE  Accountable'
<1>0. /\ Published(disk) /\ disk.journal.recipe = recipe
      /\ disk \in Disk /\ Consistent(disk) /\ run \in Run /\ run.idx \in 0..N+1
  BY Here DEF Publish, Knows, Finishing
<1>1. CASE Attempt([disk EXCEPT !.journal.published = TRUE],
                   At("settle"), Goto(At("settle")))
  <2> DEFINE j == [disk.journal EXCEPT !.published = TRUE]
             e == [disk EXCEPT !.journal.published = TRUE]
  <2>1. disk.journal \in Journal
    BY <1>0 DEF Disk, Published, Pending
  <2>2. /\ j \in Journal /\ j.had = disk.journal.had /\ j.before = disk.journal.before
        /\ j.tid = disk.journal.tid /\ j.recipe = disk.journal.recipe
    BY <2>1 DEF Journal
  <2>3. e = [disk EXCEPT !.journal = j]
    BY <1>0 DEF Disk
  <2> HIDE DEF j, e
  <2>4. /\ e \in Disk /\ e.journal = j /\ e.live = disk.live
        /\ e.marker = disk.marker
    BY <1>0, <2>2, <2>3 DEF Disk
  <2>5. Pending(e)
    BY <2>2, <2>4, NoRecordAssumption DEF Pending
  <2>6. Published(e)
    BY <1>0, <2>2, <2>4, <2>5 DEF Published, Ready
  <2>7. Consistent(e)
    BY <1>0, <2>2, <2>4, <2>5, <2>6 DEF Consistent, Published
  <2>8. At("settle") \in Run /\ At("settle").pc = "settle"
    BY <1>0, AtType DEF Steps
  <2>9. Fits(e, At("settle"), recipe) /\ Fits(disk, At("settle"), recipe)
    BY <1>0, <2>2, <2>4, <2>6, <2>7, <2>8, PublishedFits DEF Finishing, Cleaning
  <2>10. Fits(e, Off, recipe)
    BY <2>4, <2>7, OffFits
  <2>11. Attempt(e, At("settle"), Goto(At("settle")))
    BY <1>1 DEF e
  <2>12. Fits(disk', run', recipe)
    BY <2>9, <2>10, <2>11 DEF Attempt, Goto, Sure, Accountable, TypeOK
  <2>13. settled' \in {settled, disk'}
    BY <2>11 DEF Attempt
  <2> QED
    BY <2>12, <2>13, Frame
<1>2. CASE Attempt(disk, Cleanup("done"), Fail)
  <2>1. /\ Cleanup("done") \in Run /\ Cleanup("done").pc = "dropBackup"
        /\ Cleanup("done").goal = "done"
    BY <1>0, GoalType
  <2>2. Fits(disk, Cleanup("done"), recipe)
    BY <1>0, <2>1, PublishedFits DEF Finishing, Cleaning
  <2> QED
    BY <1>2, <2>2, AttemptFail
<1> QED
  BY <1>1, <1>2 DEF Publish

LEMMA BackupShrinks ==
  ASSUME NEW d \in Disk, Published(d), Consistent(d), NEW t \in Tree
  PROVE  LET e == [d EXCEPT !.backup = t]
         IN e \in Disk /\ Published(e) /\ Consistent(e) /\ e.journal = d.journal
<1> DEFINE e == [d EXCEPT !.backup = t]
<1>1. /\ e \in Disk /\ e.journal = d.journal /\ e.live = d.live
      /\ e.marker = d.marker
  BY DEF Disk
<1> HIDE DEF e
<1>2. Published(e)
  BY <1>1 DEF Published, Ready, Pending
<1>3. Consistent(e)
  BY <1>1, <1>2 DEF Consistent, Published, Pending
<1> QED
  BY <1>1, <1>2, <1>3 DEF e

LEMMA DropBackupStep ==
  ASSUME Sure, Drop, run.pc = "dropBackup", recipe' = recipe
  PROVE  Accountable'
<1>0. /\ Published(disk) /\ disk.journal.recipe = recipe
      /\ disk \in Disk /\ Consistent(disk) /\ run \in Run /\ run.idx \in 0..N+1
      /\ run.goal # "error"
  BY Here DEF Knows, Finishing, Cleaning
<1>1. ASSUME NEW p \in Path, disk.backup[p] # NoFile,
             NEW o \in Remains(disk.backup[p]),
             Proceed([disk EXCEPT !.backup[p] = o], run)
      PROVE  Accountable'
  <2> DEFINE t == [disk.backup EXCEPT ![p] = o]
             e == [disk EXCEPT !.backup = t]
  <2>1. disk.backup[p] \in Object
    BY <1>0, <1>1 DEF Disk, Tree
  <2>2. o \in Object \cup {NoFile}
    BY <2>1, RemainsType
  <2>3. t \in Tree
    BY <1>0, <2>2, TreeUpdate DEF Disk
  <2>4. e \in Disk /\ Published(e) /\ Consistent(e) /\ e.journal = disk.journal
    BY <1>0, <2>3, BackupShrinks
  <2>5. Proceed(e, run)
    BY <1>0, <1>1 DEF Disk
  <2> HIDE DEF e
  <2>6. Fits(e, run, recipe)
    BY <1>0, <2>4, PublishedFits DEF Finishing, Cleaning
  <2> QED
    BY <2>5, <2>6, ProceedStep
<1>2. /\ At("dropStage") \in Run /\ At("dropStage").pc = "dropStage"
      /\ At("dropStage").goal = run.goal
  BY <1>0, AtType DEF Steps
<1>3. CASE disk.backup = Empty /\ Proceed(disk, At("dropStage"))
  <2>1. Fits(disk, At("dropStage"), recipe)
    BY <1>0, <1>2, <1>3, PublishedFits DEF Finishing, Cleaning
  <2> QED
    BY <1>3, <2>1, ProceedStep
<1>4. CASE Caught([At("dropStage") EXCEPT !.clean = FALSE])
  <2> DEFINE r == [At("dropStage") EXCEPT !.clean = FALSE]
  <2>1. r \in Run /\ r.pc = "dropStage" /\ ~r.clean /\ r.goal = run.goal
    BY <1>2 DEF Run
  <2> HIDE DEF r
  <2>2. Fits(disk, r, recipe)
    BY <1>0, <2>1, PublishedFits DEF Finishing, Cleaning
  <2>3. Caught(r)
    BY <1>4 DEF r
  <2> QED
    BY <2>2, <2>3, CaughtStep
<1> QED
  BY <1>1, <1>3, <1>4 DEF Drop

LEMMA DropStageStep ==
  ASSUME Sure, Drop, run.pc = "dropStage", recipe' = recipe
  PROVE  Accountable'
<1>0. /\ Published(disk) /\ disk.journal.recipe = recipe
      /\ disk \in Disk /\ Consistent(disk) /\ run \in Run /\ run.idx \in 0..N+1
      /\ run.goal # "error"
      /\ run.clean => disk.backup = Empty
  BY Here DEF Knows, Finishing, Cleaning
<1>1. ASSUME NEW p \in Path, disk.stage[p] # NoFile,
             NEW o \in Remains(disk.stage[p]),
             Proceed([disk EXCEPT !.stage[p] = o], run)
      PROVE  Accountable'
  <2> DEFINE t == [disk.stage EXCEPT ![p] = o]
             e == [disk EXCEPT !.stage = t]
  <2>1. disk.stage[p] \in Object
    BY <1>0, <1>1 DEF Disk, Tree
  <2>2. o \in Object \cup {NoFile}
    BY <2>1, RemainsType
  <2>3. t \in Tree
    BY <1>0, <2>2, TreeUpdate DEF Disk
  <2>4. /\ e \in Disk /\ Published(e) /\ Consistent(e)
        /\ e.journal = disk.journal /\ e.backup = disk.backup
    BY <1>0, <2>3, StageFree
  <2>5. Proceed(e, run)
    BY <1>0, <1>1 DEF Disk
  <2> HIDE DEF e
  <2>6. Fits(e, run, recipe)
    BY <1>0, <2>4, PublishedFits DEF Finishing, Cleaning
  <2> QED
    BY <2>5, <2>6, ProceedStep
<1>2. /\ At("dropJournal") \in Run /\ At("dropJournal").pc = "dropJournal"
      /\ At("dropJournal").clean = run.clean /\ At("dropJournal").goal = run.goal
  BY <1>0, AtType DEF Steps
<1>3. CASE Proceed(disk, At("dropJournal"))
  <2>1. Fits(disk, At("dropJournal"), recipe)
    BY <1>0, <1>2, PublishedFits DEF Finishing, Cleaning
  <2> QED
    BY <1>3, <2>1, ProceedStep
<1>4. CASE Caught([At("dropJournal") EXCEPT !.clean = FALSE])
  <2> DEFINE r == [At("dropJournal") EXCEPT !.clean = FALSE]
  <2>1. r \in Run /\ r.pc = "dropJournal" /\ ~r.clean /\ r.goal = run.goal
    BY <1>2 DEF Run
  <2> HIDE DEF r
  <2>2. Fits(disk, r, recipe)
    BY <1>0, <2>1, PublishedFits DEF Finishing, Cleaning
  <2>3. Caught(r)
    BY <1>4 DEF r
  <2> QED
    BY <2>2, <2>3, CaughtStep
<1> QED
  BY <1>1, <1>3, <1>4 DEF Drop

LEMMA DropJournalStep ==
  ASSUME Sure, Drop, run.pc = "dropJournal", recipe' = recipe
  PROVE  Accountable'
<1>0. /\ Published(disk) /\ disk.journal.recipe = recipe
      /\ disk \in Disk /\ Consistent(disk) /\ run \in Run /\ run.idx \in 0..N+1
      /\ run.goal # "error"
      /\ run.clean => disk.backup = Empty
  BY Here DEF Knows, Finishing, Cleaning
<1>1. At("sync") \in Run /\ At("sync").pc = "sync" /\ At("sync").goal = run.goal
  BY <1>0, AtType DEF Steps
<1>2. Fits(disk, At("sync"), recipe)
  BY <1>0, <1>1, PublishedFits DEF Cleaning
<1>3. CASE run.clean /\ Proceed([disk EXCEPT !.journal = NoRecord], At("sync"))
  <2> DEFINE e == [disk EXCEPT !.journal = NoRecord]
  <2>1. e \in Disk /\ ~Pending(e) /\ Consistent(e)
    BY <1>0, <1>3, Cleared
  <2> HIDE DEF e
  <2>2. Fits(e, At("sync"), recipe)
    BY <1>0, <1>1, <2>1 DEF Fits, Knows, Before, Committing, Finishing, Undoing, Cleaning
  <2> QED
    BY <1>3, <2>2, ProceedStep DEF e
<1>4. CASE Proceed(disk, At("sync"))
  BY <1>2, <1>4, ProceedStep
<1>5. CASE Caught(At("sync"))
  BY <1>2, <1>5, CaughtStep
<1> QED
  BY <1>3, <1>4, <1>5 DEF Drop, JournalMayGo

LEMMA SyncStep ==
  ASSUME Sure, SyncWorkspace, recipe' = recipe
  PROVE  Accountable'
<1>0. /\ run.goal \in {"probe", "done"}
      /\ Pending(disk) => Published(disk) /\ disk.journal.recipe = recipe
  BY Here DEF SyncWorkspace, Knows, Before, Cleaning, Run
<1>1. Fits(disk, At(run.goal), recipe)
  BY <1>0, MoveFits DEF Before
<1>2. CASE disk' = disk /\ settled' = disk /\ Goto(At(run.goal)) /\ Unhurt
  <2>1. Fits(disk', run', recipe)
    BY <1>1, <1>2 DEF Goto, Sure, Accountable, TypeOK
  <2> QED
    BY <1>2, <2>1, Frame
<1>3. CASE Caught(At(run.goal))
  BY <1>1, <1>3, CaughtStep
<1> QED
  BY <1>2, <1>3 DEF SyncWorkspace

-----------------------------------------------------------------------------
(* Rolling back: every path above the index is as it was found.            *)

LEMMA UndoFacts ==
  ASSUME Sure, run.pc \in Undoing
  PROVE  /\ InFlight(disk) /\ disk.live \in Tree /\ disk.stage \in Tree
         /\ disk.backup \in Tree
         /\ \A p \in Path : run.pc = "clear" \/ p > run.idx => Undone(disk, p)
         /\ \A p \in Path : ~Blocked(disk, p)
<1>1. InFlight(disk) /\ disk.live \in Tree /\ disk.stage \in Tree /\ disk.backup \in Tree
  BY InFlightHere, Here DEF Disk
<1>2. \A p \in Path : run.pc = "clear" \/ p > run.idx => Undone(disk, p)
  BY Here DEF Knows
<1>3. \A p \in Path : ~Blocked(disk, p)
  BY <1>1 DEF InFlight, Undoable, Accounted, Blocked
<1> QED
  BY <1>1, <1>2, <1>3

LEMMA UndoFits ==
  ASSUME Sure, NEW d, InFlight(d), NEW r, r.pc \in Undoing,
         \A p \in Path : r.pc = "clear" \/ p > r.idx => Undone(d, p),
         r.pc = "takeBack" => Returns(d, r.idx),
         r.pc = "restore" => Restores(d, r.idx)
  PROVE  Fits(d, r, recipe)
  BY InFlightFits
     DEF InFlight, Fits, Knows, Before, Committing, Finishing, Undoing, Cleaning

LEMMA RollbackPathStep ==
  ASSUME Sure, RollbackPath, recipe' = recipe
  PROVE  Accountable'
<1>0. /\ InFlight(disk) /\ disk \in Disk
      /\ run \in Run /\ run.idx \in 0..N+1 /\ run.pc = "rollback"
      /\ \A p \in Path : p > run.idx => Undone(disk, p)
  BY UndoFacts, Here DEF RollbackPath, Undoing
<1>1. CASE run.idx = 0 /\ Proceed(disk, At("clear"))
  <2>1. At("clear").pc = "clear"
    BY <1>0, AtType DEF Steps
  <2>2. \A p \in Path : Undone(disk, p)
    BY <1>0, <1>1 DEF Path
  <2>3. Fits(disk, At("clear"), recipe)
    BY <1>0, <2>1, <2>2, UndoFits DEF Undoing
  <2> QED
    BY <1>1, <2>3, ProceedStep
<1>2. CASE UNCHANGED <<disk, settled>> /\ Fail
  BY <1>2, FailStep
<1>3. ASSUME NEW s \in {"takeBack", "restore"}, Proceed(disk, At(s)),
             s = "takeBack" => Returns(disk, run.idx),
             s = "restore" => Restores(disk, run.idx)
      PROVE  Accountable'
  <2>1. At(s).pc = s /\ At(s).idx = run.idx
    BY <1>0, AtType DEF Steps
  <2>2. Fits(disk, At(s), recipe)
    BY <1>0, <1>3, <2>1, UndoFits DEF Undoing
  <2> QED
    BY <1>3, <2>2, ProceedStep
<1>4. CASE /\ run.idx \in Path
           /\ ~Blocked(disk, run.idx)
           /\ ~Returns(disk, run.idx) /\ ~Restores(disk, run.idx)
           /\ Proceed(disk, AtPath("rollback", run.idx - 1))
  <2> DEFINE r == AtPath("rollback", run.idx - 1)
  <2>1. r.pc = "rollback" /\ r.idx = run.idx - 1
    BY <1>4, NextPath
  <2> HIDE DEF r
  <2>2. Undone(disk, run.idx)
    BY <1>0, <1>4 DEF InFlight, Undoable, Accounted, Returns, Restores, Blocked, Undone
  <2>3. \A p \in Path : p > r.idx => Undone(disk, p)
    BY <1>0, <1>4, <2>1, <2>2 DEF Path
  <2>4. Fits(disk, r, recipe)
    BY <1>0, <2>1, <2>3, UndoFits DEF Undoing
  <2> QED
    BY <1>4, <2>4, ProceedStep DEF r
<1> QED
  BY <1>1, <1>2, <1>3, <1>4 DEF RollbackPath, Raises

LEMMA MoveBackStep ==
  ASSUME Sure, MoveBack, recipe' = recipe
  PROVE  Accountable'
<1> DEFINE e == TakeBack(disk, run.idx)
           up == AtPath("rollback", run.idx - 1)
           next == IF disk.journal.had[run.idx] THEN At("restore") ELSE up
<1>0. /\ InFlight(disk) /\ disk.live \in Tree /\ disk.stage \in Tree
      /\ disk.backup \in Tree /\ disk \in Disk /\ run.idx \in 0..N+1
      /\ run.idx \in Path /\ Returns(disk, run.idx)
      /\ \A p \in Path : p > run.idx => Undone(disk, p)
  BY UndoFacts, Here DEF MoveBack, Undoing, Moving, Knows
<1>1. /\ e \in Disk /\ e.journal = disk.journal /\ e.backup = disk.backup
      /\ e.live = [disk.live EXCEPT ![run.idx] = NoFile]
      /\ e.stage = [disk.stage EXCEPT ![run.idx] = disk.live[run.idx]]
  <2>1. disk \in Disk /\ run.idx \in Path
    BY <1>0
  <2> QED
    BY <2>1, TakeBackFacts, Zenon
<1>2. Attempt(e, next, Fail) \/ (UNCHANGED <<disk, settled>> /\ Fail)
  BY DEF MoveBack, Rename
<1>3. /\ At("restore").pc = "restore" /\ At("restore").idx = run.idx
      /\ up.pc = "rollback" /\ up.idx = run.idx - 1
  BY <1>0, NextPath, AtType, Here DEF Steps
<1> HIDE DEF e, up
<1>4. Undoable(e)
  BY <1>0, <1>1 DEF InFlight, Undoable, Accounted, Returns, Blocked, Tree
<1>5. InFlight(e)
  BY <1>0, <1>1, <1>4 DEF InFlight, Pending
<1>6. \A p \in Path : p > run.idx => Undone(e, p)
  BY <1>0, <1>1 DEF Undone, Path, Tree
<1>7. CASE disk.journal.had[run.idx]
  <2>1. Restores(e, run.idx)
    BY <1>0, <1>1, <1>7 DEF Returns, Restores, Blocked, Tree
  <2>2. Fits(e, At("restore"), recipe)
    BY <1>3, <1>5, <1>6, <2>1, UndoFits DEF Undoing
  <2> QED
    BY <1>2, <1>7, <2>2, AttemptFail, FailStep
<1>8. CASE ~disk.journal.had[run.idx]
  <2>1. Undone(e, run.idx)
    BY <1>0, <1>1, <1>8 DEF InFlight, Undoable, Accounted, Undone, Tree
  <2>2. \A p \in Path : p > up.idx => Undone(e, p)
    BY <1>0, <1>3, <1>6, <2>1 DEF Path
  <2>3. Fits(e, up, recipe)
    BY <1>3, <1>5, <2>2, UndoFits DEF Undoing
  <2> QED
    BY <1>2, <1>8, <2>3, AttemptFail, FailStep
<1> QED
  BY <1>7, <1>8

LEMMA PutBackStep ==
  ASSUME Sure, PutBack, recipe' = recipe
  PROVE  Accountable'
<1> DEFINE e == Restore(disk, run.idx)
           r == AtPath("rollback", run.idx - 1)
<1>0. /\ InFlight(disk) /\ disk.live \in Tree /\ disk.stage \in Tree
      /\ disk.backup \in Tree /\ disk \in Disk /\ run.idx \in 0..N+1
      /\ run.idx \in Path /\ Restores(disk, run.idx)
      /\ \A p \in Path : p > run.idx => Undone(disk, p)
  BY UndoFacts, Here DEF PutBack, Undoing, Moving, Knows
<1>1. /\ e \in Disk /\ e.journal = disk.journal /\ e.stage = disk.stage
      /\ e.backup = [disk.backup EXCEPT ![run.idx] = NoFile]
      /\ e.live = [disk.live EXCEPT ![run.idx] = disk.backup[run.idx]]
  <2>1. disk \in Disk /\ run.idx \in Path
    BY <1>0
  <2> QED
    BY <2>1, RestoreFacts, Zenon
<1>2. Attempt(e, r, Fail) \/ (UNCHANGED <<disk, settled>> /\ Fail)
  BY DEF PutBack, Rename
<1>3. r.pc = "rollback" /\ r.idx = run.idx - 1
  BY <1>0, NextPath
<1> HIDE DEF e, r
<1>4. disk.backup[run.idx] = disk.journal.before[run.idx]
  BY <1>0 DEF InFlight, Undoable, Accounted, Restores
<1>5. Undoable(e)
  BY <1>0, <1>1, <1>4 DEF InFlight, Undoable, Accounted, Restores, Tree
<1>6. InFlight(e)
  BY <1>0, <1>1, <1>5 DEF InFlight, Pending
<1>7. Undone(e, run.idx)
  BY <1>0, <1>1, <1>4 DEF Undone, Tree
<1>8. \A p \in Path : p > r.idx => Undone(e, p)
  <2>1. ASSUME NEW p \in Path, p > run.idx  PROVE Undone(e, p)
    BY <1>0, <1>1, <2>1 DEF Undone, Path, Tree
  <2> QED
    BY <1>0, <1>3, <1>7, <2>1 DEF Path
<1>9. Fits(e, r, recipe)
  BY <1>3, <1>6, <1>8, UndoFits DEF Undoing
<1> QED
  BY <1>2, <1>9, AttemptFail, FailStep


LEMMA ClearJournalStep ==
  ASSUME Sure, ClearJournal, recipe' = recipe
  PROVE  Accountable'
<1>1. CASE UNCHANGED <<disk, settled>> /\ Fail /\ Unhurt
  BY <1>1, FailStep
<1>2. ASSUME disk.backup = Empty
      PROVE  LET e == [disk EXCEPT !.journal = NoRecord]
             IN /\ e \in Disk /\ Consistent(e) /\ Fits(e, At("probe"), recipe)
                /\ Fits(e, Off, recipe) /\ Fits(disk, Off, recipe)
  <2> DEFINE e == [disk EXCEPT !.journal = NoRecord]
  <2>1. e \in Disk /\ ~Pending(e) /\ Consistent(e)
    BY <1>2, Cleared, Here
  <2> HIDE DEF e
  <2>2. At("probe") \in Run /\ At("probe").pc = "probe"
    BY AtType, Here DEF Steps
  <2>3. Fits(e, At("probe"), recipe)
    BY <2>1, <2>2 DEF Fits, Knows, Before, Committing, Finishing, Undoing, Cleaning
  <2>4. Fits(e, Off, recipe) /\ Fits(disk, Off, recipe)
    BY <2>1, OffFits, Here
  <2> QED
    BY <2>1, <2>3, <2>4 DEF e
<1>3. ASSUME disk.backup = Empty, NEW e, e = [disk EXCEPT !.journal = NoRecord],
             \/ disk' = e /\ settled' = e /\ AfterRollback /\ Unhurt
             \/ disk' \in {disk, e} /\ UNCHANGED settled /\ Fail /\ Fault
             \/ disk' = e /\ UNCHANGED settled /\ Goto(Off) /\ Stop
      PROVE  Accountable'
  <2>1. /\ Fits(e, At("probe"), recipe)
        /\ Fits(e, Off, recipe) /\ Fits(disk, Off, recipe)
    BY <1>2, <1>3
  <2>2. Fits(disk', run', recipe)
    BY <1>3, <2>1 DEF AfterRollback, Goto, Fail, Sure, Accountable, TypeOK, Outcome
  <2>3. settled' \in {settled, disk'}
    BY <1>3
  <2> QED
    BY <2>2, <2>3, Frame
<1> QED
  BY <1>1, <1>3 DEF ClearJournal

-----------------------------------------------------------------------------
(* The invariant.                                                          *)

LEMMA IInvInit == Init => IInv
<1> SUFFICES ASSUME Init PROVE IInv
  OBVIOUS
<1>1. PICK t \in Tree :
         disk = [live |-> t, stage |-> Empty, backup |-> Empty,
                 journal |-> NoRecord, marker |-> NoRecord]
  BY DEF Init
<1>2. ~Pending(disk) /\ Consistent(disk)
  BY <1>1 DEF Pending, Consistent
<1> QED
  BY <1>2, SharedInit, OffKnows DEF Init, IInv, Accountable

(* A step that misreads nothing keeps account of the transaction.          *)
LEMMA AccountableStep ==
  ASSUME Sure, [Next]_vars, RunStep => ~Mistaken
  PROVE  Accountable'
<1>1. CASE RunStep
  <2>0. recipe' = recipe /\ ~Mistaken
    BY <1>1 DEF RunStep
  <2>1. CASE Drop
    BY <2>0, <2>1, DropBackupStep, DropStageStep, DropJournalStep DEF Drop
  <2> QED
    BY <1>1, <2>0, <2>1, RecoverStep, ProbeStep, AdoptStep, PlanStep, ExtractStep,
       CheckStep, OpenJournalStep, AnnounceStep, BackUpStep, MoveAsideStep,
       InstallStep, MoveLiveStep, MarkStep, PublishStep, SyncStep, ReportStep,
       RollbackPathStep, MoveBackStep, PutBackStep, ClearJournalStep
       DEF RunStep
<1>2. CASE Start
  BY <1>2, StartStep
<1>3. CASE Kill \/ PowerCut \/ Upgrade
  BY <1>3, OffStep DEF Kill, PowerCut, Upgrade
<1>4. CASE Writeback
  BY <1>4, Here DEF Writeback, Accountable
<1>5. CASE Edit
  BY <1>5, EditStep
<1>6. CASE UNCHANGED vars
  BY <1>6 DEF vars, Sure, Accountable
<1> QED
  BY <1>1, <1>2, <1>3, <1>4, <1>5, <1>6 DEF Next

LEMMA MisreadStep ==
  ASSUME [Next]_vars, ~misread'
  PROVE  ~misread /\ (RunStep => ~Mistaken)
<1>1. CASE RunStep
  BY <1>1 DEF RunStep
<1>2. CASE ~RunStep
  BY <1>2 DEF Next, Start, Kill, PowerCut, Writeback, Edit, Touch, Upgrade, vars, history
<1> QED
  BY <1>1, <1>2

LEMMA IInvStep == IInv /\ [Next]_vars => IInv'
<1> SUFFICES ASSUME IInv, [Next]_vars PROVE IInv'
  OBVIOUS
<1>1. SharedInv'
  BY SharedStep DEF IInv
<1>2. ASSUME ~misread'  PROVE Accountable'
  BY <1>2, MisreadStep, AccountableStep DEF IInv, SharedInv, Sure
<1> QED
  BY <1>1, <1>2 DEF IInv

(* What holds at every moment, for any number of paths: the types, a       *)
(* transaction where a step needs one, and until a failed read costs a     *)
(* published transaction its account (recover_transaction), the            *)
(* consistency of the journal with the three trees, on disk and after a    *)
(* power cut, and what each step of a run relies on.                       *)
THEOREM Inductive == Spec => []IInv
  BY IInvInit, IInvStep, PTL DEF Spec

(* What the files and the locals of install_command may be: a journal and  *)
(* a marker that were written whole, one object per commit path, a step    *)
(* that exists (transaction.json, .nxextract-complete, install_command),   *)
(* whoever else writes to the paths.                                       *)
THEOREM TypesHold == SharedSpec => []TypeOK
<1>1. SharedInv => TypeOK
  BY DEF SharedInv
<1> QED
  BY <1>1, SharedInit, SharedStep, PTL DEF SharedSpec

(* The old payload is whole until the new one is published: rolling back   *)
(* what is on the medium at any moment restores exactly the tree the       *)
(* journal was opened on (commit_stage, rollback_transaction); a recovery  *)
(* that fails to read a published payload still restores it as long as its *)
(* backup is complete.                                                     *)
THEOREM OldPayloadIsKept == Spec => []OldPayloadKept
<1>1. ASSUME NEW d \in Disk, Consistent(d)  PROVE Recoverable(d)
  <2>1. CASE Pending(d) /\ ~Published(d)
    <3>1. \A p \in Path : Accounted(d, p)
      BY <1>1, <2>1 DEF Consistent, Undoable
    <3>2. \A p \in Path : d.journal.had[p] <=> d.journal.before[p] # NoFile
      BY <1>1, <2>1 DEF Consistent
    <3>3. d.journal.before \in Tree
      BY <2>1 DEF Disk, Pending, Journal
    <3>4. \A p \in Path : RolledBack(d)[p] = d.journal.before[p]
      BY <3>1, <3>2 DEF Accounted, RolledBack
    <3>5. RolledBack(d) = d.journal.before
      BY <3>3, <3>4 DEF RolledBack, Tree
    <3> QED
      BY <2>1, <3>5 DEF Recoverable
  <2> QED
    BY <1>1, <2>1 DEF Recoverable, Consistent
<1>2. IInv => OldPayloadKept
  BY <1>1 DEF IInv, SharedInv, TypeOK, Accountable, OldPayloadKept
<1> QED
  BY <1>2, Inductive, PTL

(* Nobody is locked out: with the game directory to itself, rollback finds *)
(* at every path a state it accepts and an empty backup at the end.        *)
THEOREM RollbackNeverRefuses == Spec => []NeverRefused
<1>1. ASSUME IInv, ~misread  PROVE NeverRefused
  <2>0. Sure
    BY <1>1 DEF IInv, SharedInv, Sure
  <2>1. CASE run.pc = "rollback"
    BY <2>0, <2>1, UndoFacts DEF NeverRefused, Undoing
  <2>2. CASE run.pc = "clear"
    <3>1. disk.backup \in Tree /\ \A p \in Path : Undone(disk, p)
      BY <2>0, <2>2, UndoFacts DEF Undoing
    <3>2. disk.backup = Empty
      BY <3>1 DEF Undone, Empty, Tree
    <3> QED
      BY <2>2, <3>2 DEF NeverRefused
  <2> QED
    BY <2>1, <2>2 DEF NeverRefused
<1>2. IInv => NeverRefused
  BY <1>1 DEF NeverRefused
<1> QED
  BY <1>2, Inductive, PTL
=============================================================================
