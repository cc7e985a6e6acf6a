-------------------------- MODULE PayloadTransaction --------------------------
(***************************************************************************)
(* The transactional installer of the port, nxextract/nxextract.py: one    *)
(* process at a time (WorkspaceLock) recovers what an earlier run left,    *)
(* decides whether the payload in the game directory is good, and if not   *)
(* extracts a new one into a stage and swaps it in, path by path, under a  *)
(* journal.  The process can be killed and the power cut between any two   *)
(* operations, and every operation of the storage can fail.                *)
(*                                                                         *)
(* Storage.  "disk" is what the running system sees, "settled" what a      *)
(* power cut leaves.  Operations reach the medium in the order they were   *)
(* made (one metadata log for the partition), at the latest when a         *)
(* directory is fsynced, so "settled" is always an earlier "disk".         *)
(*                                                                         *)
(* A commit path holds an object: the extraction ("batch") it came from    *)
(* and its form: intact, touched (contents still validate, size or         *)
(* modification time no longer those of the seal) or broken (does not      *)
(* validate: half written, half deleted, damaged).                         *)
(***************************************************************************)
EXTENDS Naturals, FiniteSets

CONSTANTS N,          \* number of commit paths of the recipe
          Batch,      \* extractions: what one source delivers in one run
          Tid,        \* transaction identifiers
          NoFile,     \* the path does not exist
          NoRecord,   \* transaction.json, or the marker, does not exist
          MaxRecipe,  \* bound: versions of the port
          MaxFaults,  \* bound: failing operations
          MaxStops    \* bound: kills and power cuts

ASSUME NAssumption == N \in Nat \ {0}
ASSUME RecipeAssumption == MaxRecipe \in Nat \ {0}
ASSUME BoundAssumption == MaxFaults \in Nat /\ MaxStops \in Nat

VARIABLES disk, settled, run, recipe, outcome, faults, stops

(* History: what the promises at the end are stated with, no action reads  *)
(* it.                                                                     *)
VARIABLES misread,    \* a failed read took the account of a transaction away (Mistaken)
          late        \* somebody wrote to the paths since the last step of the run

history == <<misread, late>>

vars == <<disk, settled, run, recipe, outcome, faults, stops, history>>
-----------------------------------------------------------------------------
Path == 1..N

Recipe == 1..MaxRecipe

Form == {"intact", "touched", "broken"}

Object == [batch : Batch, form : Form]

ASSUME NoFileAssumption == NoFile \notin Object

Tree == [Path -> Object \cup {NoFile}]

Empty == [p \in Path |-> NoFile]

(* transaction.json.  "before" is a history field: the live tree when the  *)
(* journal was opened.  The phase the code rewrites into each path record  *)
(* is not here: recovery never reads it.                                   *)
Journal == [tid : Tid, recipe : Recipe, had : [Path -> BOOLEAN],
            published : BOOLEAN, before : Tree]

(* The installation marker; its seal covers every path, size and mtime.    *)
Marker == [tid : Tid, recipe : Recipe, seal : Tree]

ASSUME NoRecordAssumption == NoRecord \notin Journal /\ NoRecord \notin Marker

Disk == [live : Tree, stage : Tree, backup : Tree,
         journal : Journal \cup {NoRecord}, marker : Marker \cup {NoRecord}]

(* validate_recipe_outputs(full=True) accepts the tree.                    *)
Sound(t) == \A p \in Path : t[p] # NoFile /\ t[p].form # "broken"

Pending(d) == d.journal # NoRecord

(* marker_matches_recipe, the validation and the seal: what a start of the *)
(* installer accepts without looking for a source.                         *)
Ready(d, r) == /\ d.marker # NoRecord
               /\ d.marker.recipe = r
               /\ Sound(d.live)
               /\ d.marker.seal = d.live

(* Mutant: the transaction identifier alone, without the seal.             *)
PublishedByTid(d) == Pending(d) /\ d.marker # NoRecord /\ d.marker.tid = d.journal.tid

(* recover_transaction's verdict on a pending journal.                     *)
Published(d) == /\ Pending(d)
                /\ Ready(d, d.journal.recipe)
                /\ d.marker.tid = d.journal.tid

(* What rolling back would leave at each path.                             *)
RolledBack(d) ==
    [p \in Path |-> IF ~d.journal.had[p] THEN NoFile
                    ELSE IF d.backup[p] # NoFile THEN d.backup[p]
                    ELSE d.live[p]]
-----------------------------------------------------------------------------
(* The locals of one run of install_command.  "goal" is what follows a     *)
(* rollback or a cleanup; "clean" is cleanup_complete.                     *)
Steps == {"off", "recover", "probe", "adopt", "plan", "extract", "check",
          "journal", "announce", "backup", "setAside", "install", "goLive",
          "mark", "publish", "settle", "dropBackup", "dropStage", "dropJournal",
          "sync", "adopted", "done", "rollback", "takeBack", "restore", "clear"}

(* About to rename, after the paths were looked at.                        *)
Moving == {"setAside", "goLive", "takeBack", "restore"}

Run == [pc : Steps, idx : 0..N+1, plan : Batch \cup {NoFile},
        force : BOOLEAN, goal : {"probe", "done", "error"}, clean : BOOLEAN]

Off == [pc |-> "off", idx |-> 0, plan |-> NoFile, force |-> FALSE,
        goal |-> "probe", clean |-> TRUE]

At(step) == [run EXCEPT !.pc = step]

AtPath(step, i) == [run EXCEPT !.pc = step, !.idx = i]

(* Mutant: the last path is forgotten.                                     *)
RollbackButLast(goal) == [run EXCEPT !.pc = "rollback", !.idx = N - 1, !.goal = goal]

Rollback(goal) == [run EXCEPT !.pc = "rollback", !.idx = N, !.goal = goal]

Cleanup(goal) ==
    [run EXCEPT !.pc = "dropBackup", !.idx = 0, !.goal = goal, !.clean = TRUE]

(* What the run reports: NXE0001, NXE0002, NXE0000 or an error.            *)
Outcome == {"none", "ready", "adopted", "installed", "error"}

TypeOK == /\ disk \in Disk /\ settled \in Disk
          /\ run \in Run
          /\ run.pc = "extract" => run.plan \in Batch
          /\ run.pc \in Moving \cup {"install"} => run.idx \in Path
          /\ recipe \in Recipe
          /\ outcome \in Outcome
          /\ faults \in 0..MaxFaults /\ stops \in 0..MaxStops
          /\ misread \in BOOLEAN /\ late \in BOOLEAN

Init == /\ \E t \in Tree :
               disk = [live |-> t, stage |-> Empty, backup |-> Empty,
                       journal |-> NoRecord, marker |-> NoRecord]
        /\ settled = disk
        /\ run = Off
        /\ recipe = 1
        /\ outcome = "none"
        /\ faults = 0 /\ stops = 0
        /\ misread = FALSE /\ late = FALSE
-----------------------------------------------------------------------------
(* Every way an operation of a run can go.                                 *)

Unhurt == UNCHANGED <<faults, stops>>

Fault == faults < MaxFaults /\ faults' = faults + 1 /\ UNCHANGED stops

Stop == stops < MaxStops /\ stops' = stops + 1 /\ UNCHANGED faults

(* The run moves on; an error that leaves install_command reports itself.  *)
Goto(next) == run' = next /\ UNCHANGED outcome

Fail == run' = Off /\ outcome' = "error"

(* A step in memory, or one whose error is not looked at.                  *)
Proceed(d, next) == disk' = d /\ UNCHANGED settled /\ Goto(next) /\ Unhurt

(* Mutant: no fsync.                                                       *)
AttemptUnsynced(d, next, Raise) ==
    \/ disk' = d /\ UNCHANGED settled /\ Goto(next) /\ Unhurt
    \/ disk' \in {disk, d} /\ UNCHANGED settled /\ Raise /\ Fault

(* A write or rename followed by a required fsync: it succeeds and is      *)
(* durable, it raises (before or after it took effect), or the process is  *)
(* killed between the operation and the fsync.                             *)
Attempt(d, next, Raise) ==
    \/ disk' = d /\ settled' = d /\ Goto(next) /\ Unhurt
    \/ disk' \in {disk, d} /\ UNCHANGED settled /\ Raise /\ Fault
    \/ disk' = d /\ UNCHANGED settled /\ Goto(Off) /\ Stop

(* Something raises without having changed anything that is modelled: the  *)
(* mandatory UI has gone and progress.update says so, a read fails.        *)
Raises(Raise) == UNCHANGED <<disk, settled>> /\ Raise /\ Fault

(* An error that is caught and taken for an answer: a read that fails says *)
(* that the data is bad, a removal that fails leaves things for later.     *)
Caught(next) == UNCHANGED <<disk, settled>> /\ Goto(next) /\ Fault
-----------------------------------------------------------------------------
(* install_command up to the choice of a source.                           *)

Launch == /\ run = Off
          /\ \E force \in BOOLEAN :
                 run' = [Off EXCEPT !.pc = "recover", !.force = force]
          /\ outcome' = "none"
          /\ UNCHANGED <<disk, settled>> /\ Unhurt

Recover ==
    /\ run.pc = "recover"
    /\ \/ ~Pending(disk) /\ Proceed(disk, At("probe"))
       \/ /\ Pending(disk) /\ disk.journal.recipe # recipe
          /\ UNCHANGED <<disk, settled>> /\ Fail /\ Unhurt
       \/ /\ Pending(disk) /\ disk.journal.recipe = recipe
          /\ Published(disk)
          /\ Proceed(disk, Cleanup("probe"))
       \/ /\ Pending(disk) /\ disk.journal.recipe = recipe
          /\ ~Published(disk)
          /\ Proceed(disk, Rollback("probe"))
       \/ /\ Pending(disk) /\ disk.journal.recipe = recipe
          /\ Published(disk)
          /\ Caught(Rollback("probe"))
       \/ Raises(Fail)

(* The terminal result is written last; if that fails the run reports an   *)
(* error for a payload that is good.                                       *)
Succeed(code) == /\ run' = Off
                 /\ UNCHANGED <<disk, settled>>
                 /\ \/ outcome' = code /\ Unhurt
                    \/ outcome' = "error" /\ Fault

Probe ==
    /\ run.pc = "probe"
    /\ \/ run.force /\ Proceed(disk, At("plan"))
       \/ ~run.force /\ Ready(disk, recipe) /\ Succeed("ready")
       \/ ~run.force /\ ~Ready(disk, recipe) /\ Proceed(disk, At("adopt"))
       \/ ~run.force /\ Ready(disk, recipe) /\ Caught(At("adopt"))

FreshTid(t) == \A d \in {disk, settled} :
                   /\ d.journal # NoRecord => d.journal.tid # t
                   /\ d.marker # NoRecord => d.marker.tid # t

Marked(t) == [disk EXCEPT !.marker =
                 [tid |-> t, recipe |-> recipe, seal |-> disk.live]]

(* try_adopt_existing: validated data in place gets a marker of its own.   *)
Adopt ==
    /\ run.pc = "adopt"
    /\ \/ ~Sound(disk.live) /\ Proceed(disk, At("plan"))
       \/ Sound(disk.live) /\ Caught(At("plan"))
       \/ /\ Sound(disk.live)
          /\ \E t \in Tid : FreshTid(t) /\ Attempt(Marked(t), At("adopted"), Fail)
       \/ Raises(Fail)

Report == \/ run.pc = "adopted" /\ Succeed("adopted")
          \/ run.pc = "done" /\ Succeed("installed")
          \/ run.pc = "done" /\ Raises(Fail)
-----------------------------------------------------------------------------
(* Extraction into the stage.                                              *)

Batches(t) == {t[p].batch : p \in {q \in Path : t[q] # NoFile}}

UsedBatches(d) ==
    Batches(d.live) \cup Batches(d.stage) \cup Batches(d.backup)
    \cup (IF d.journal = NoRecord THEN {} ELSE Batches(d.journal.before))
    \cup (IF d.marker = NoRecord THEN {} ELSE Batches(d.marker.seal))

(* The run finds a source: the one the stage was made from, whose staged   *)
(* items are kept, or another, and the stage is emptied; or it finds none. *)
Plan ==
    /\ run.pc = "plan"
    /\ \/ \E g \in Batches(disk.stage) :
              Proceed(disk, [AtPath("extract", 1) EXCEPT !.plan = g])
       \/ \E g \in Batch \ (UsedBatches(disk) \cup UsedBatches(settled)) :
              Proceed([disk EXCEPT !.stage = Empty],
                      [AtPath("extract", 1) EXCEPT !.plan = g])
       \/ UNCHANGED <<disk, settled>> /\ Fail /\ Unhurt

Staged(form) == [batch |-> run.plan, form |-> form]

Stage(p, o) == [disk EXCEPT !.stage[p] = o]

(* _copy_item of every item under one commit path; a staged item that      *)
(* still validates is kept.  The fsync of its directory is best effort.    *)
Extract ==
    /\ run.pc = "extract"
    /\ \/ run.idx > N /\ Proceed(disk, At("check"))
       \/ /\ run.idx \in Path
          /\ disk.stage[run.idx] = Staged("intact")
          /\ Proceed(disk, AtPath("extract", run.idx + 1))
       \/ /\ run.idx \in Path
          /\ disk.stage[run.idx] \notin {Staged("intact"), Staged("broken")}
          /\ Proceed(Stage(run.idx, Staged("broken")), run)
       \/ /\ run.idx \in Path
          /\ disk.stage[run.idx] = Staged("broken")
          /\ Proceed(Stage(run.idx, Staged("intact")),
                     AtPath("extract", run.idx + 1))
       \/ Raises(Fail)

(* The set of staged items is validated; a set that fails is thrown away.  *)
Check ==
    /\ run.pc = "check"
    /\ \/ Proceed(disk, At("journal"))
       \/ /\ disk' = [disk EXCEPT !.stage = Empty]
          /\ UNCHANGED settled /\ Fail /\ Fault
       \/ Raises(Fail)
-----------------------------------------------------------------------------
(* commit_stage.  Each write of the journal after the first only records   *)
(* the phase of one path and is fsynced: it is part of the rename next to  *)
(* it, a write that fails being the rename that raises before it happened. *)

Opened(t) ==
    [disk EXCEPT !.journal =
        [tid |-> t, recipe |-> recipe,
         had |-> [p \in Path |-> disk.live[p] # NoFile],
         published |-> FALSE, before |-> disk.live]]

OpenJournal ==
    /\ run.pc = "journal"
    /\ \/ /\ disk.backup # Empty \/ Pending(disk)
          /\ UNCHANGED <<disk, settled>> /\ Fail /\ Unhurt
       \/ /\ disk.backup = Empty /\ ~Pending(disk)
          /\ \E t \in Tid :
                 FreshTid(t) /\ Attempt(Opened(t), At("announce"), Fail)

(* This progress.update is outside the try block: no rollback.             *)
Announce == /\ run.pc = "announce"
            /\ \/ Proceed(disk, AtPath("backup", 1))
               \/ Raises(Fail)

Withdraw == Goto(Rollback("error"))

(* A check that fails because somebody else wrote to the game directory.   *)
Intruded(bad) == bad /\ UNCHANGED <<disk, settled>> /\ Withdraw /\ Unhurt

(* durable_rename, between the trees of the transaction.                   *)
SetAside(d, p) == [d EXCEPT !.backup[p] = d.live[p], !.live[p] = NoFile]

(* Mutant: the staged object is copied.                                    *)
GoLiveCopy(d, p) == [d EXCEPT !.live[p] = d.stage[p]]

GoLive(d, p) == [d EXCEPT !.live[p] = d.stage[p], !.stage[p] = NoFile]

TakeBack(d, p) == [d EXCEPT !.stage[p] = d.live[p], !.live[p] = NoFile]

Restore(d, p) == [d EXCEPT !.live[p] = d.backup[p], !.backup[p] = NoFile]

(* durable_rename, some time after the test that allows it: os.rename      *)
(* raises if the source has gone, and if somebody has taken the target it  *)
(* replaces a file and raises for a directory.                             *)
Rename(d, source, target, next, Raise) ==
    \/ source # NoFile /\ Attempt(d, next, Raise)
    \/ /\ source = NoFile \/ target # NoFile
       /\ UNCHANGED <<disk, settled>> /\ Raise /\ Unhurt

(* The previous object of one path goes to the backup.                     *)
BackUp ==
    /\ run.pc = "backup"
    /\ \/ /\ run.idx > N
          /\ Proceed(disk, At("mark"))
       \/ /\ run.idx \in Path
          /\ Intruded(disk.journal.had[run.idx] # (disk.live[run.idx] # NoFile))
       \/ /\ run.idx \in Path
          /\ Intruded(disk.journal.had[run.idx] /\ disk.backup[run.idx] # NoFile)
       \/ /\ run.idx \in Path
          /\ disk.journal.had[run.idx] /\ disk.live[run.idx] # NoFile
          /\ disk.backup[run.idx] = NoFile
          /\ Proceed(disk, At("setAside"))
       \/ /\ run.idx \in Path
          /\ ~disk.journal.had[run.idx] /\ disk.live[run.idx] = NoFile
          /\ Attempt(disk, At("install"), Withdraw)
       \/ run.idx \in Path /\ Raises(Withdraw)

MoveAside ==
    /\ run.pc = "setAside"
    /\ Rename(SetAside(disk, run.idx), disk.live[run.idx], disk.backup[run.idx],
              At("install"), Withdraw)

(* Mutant: os.rename overwrites a file.                                    *)
VacantUnchecked(p) == TRUE

Vacant(p) == disk.live[p] = NoFile

(* The staged object of that path goes live.                               *)
Install ==
    /\ run.pc = "install"
    /\ \/ Intruded(~Vacant(run.idx))
       \/ Vacant(run.idx) /\ Proceed(disk, At("goLive"))
       \/ Raises(Withdraw)

MoveLive ==
    /\ run.pc = "goLive"
    /\ Rename(GoLive(disk, run.idx), disk.stage[run.idx], disk.live[run.idx],
              AtPath("backup", run.idx + 1), Withdraw)

(* The whole payload is validated in place and the marker is replaced.     *)
Mark ==
    /\ run.pc = "mark"
    /\ \/ Intruded(~Sound(disk.live))
       \/ Sound(disk.live) /\ Attempt(Marked(disk.journal.tid), At("publish"), Withdraw)
       \/ Raises(Withdraw)

(* Past the marker: the journal's own flag is best effort, then the game   *)
(* directory is fsynced outside the try block.                             *)
Publish ==
    \/ /\ run.pc = "publish"
       /\ Attempt([disk EXCEPT !.journal.published = TRUE],
                  At("settle"), Goto(At("settle")))
    \/ /\ run.pc = "settle"
       /\ Attempt(disk, Cleanup("done"), Fail)
-----------------------------------------------------------------------------
(* _finalize_published_transaction: nothing here is fsynced until the end, *)
(* and nothing that fails here fails the run.                              *)

(* Deleting an object takes many unlinks.                                  *)
Remains(o) == {NoFile, [o EXCEPT !.form = "broken"]}

(* Mutant: the cleanup does not look at what the deletes left.             *)
JournalGoesAnyway == TRUE

(* The journal stays as long as anything it could roll back is left.       *)
JournalMayGo == run.clean

Drop ==
    \/ /\ run.pc = "dropBackup"
       /\ \/ \E p \in Path : /\ disk.backup[p] # NoFile
                             /\ \E o \in Remains(disk.backup[p]) :
                                    Proceed([disk EXCEPT !.backup[p] = o], run)
          \/ disk.backup = Empty /\ Proceed(disk, At("dropStage"))
          \/ Caught([At("dropStage") EXCEPT !.clean = FALSE])
    \/ /\ run.pc = "dropStage"
       /\ \/ \E p \in Path : /\ disk.stage[p] # NoFile
                             /\ \E o \in Remains(disk.stage[p]) :
                                    Proceed([disk EXCEPT !.stage[p] = o], run)
          \/ disk.stage = Empty /\ Proceed(disk, At("dropJournal"))
          \/ Caught([At("dropJournal") EXCEPT !.clean = FALSE])
    \/ /\ run.pc = "dropJournal"
       /\ \/ JournalMayGo /\ Proceed([disk EXCEPT !.journal = NoRecord], At("sync"))
          \/ ~JournalMayGo /\ Proceed(disk, At("sync"))
          \/ JournalMayGo /\ Caught(At("sync"))

SyncWorkspace ==
    /\ run.pc = "sync"
    /\ \/ disk' = disk /\ settled' = disk /\ Goto(At(run.goal)) /\ Unhurt
       \/ Caught(At(run.goal))
-----------------------------------------------------------------------------
(* rollback_transaction, last path first.  It decides from what exists.    *)

Blocked(d, p) ==
    \/ d.journal.had[p] /\ d.backup[p] = NoFile /\ d.live[p] = NoFile
    \/ ~d.journal.had[p] /\ d.backup[p] # NoFile
    \/ /\ d.live[p] # NoFile /\ d.stage[p] # NoFile
       /\ ~d.journal.had[p] \/ d.backup[p] # NoFile

(* The live object is the new one: back to the stage.                      *)
Returns(d, p) == /\ ~Blocked(d, p) /\ d.live[p] # NoFile
                 /\ ~d.journal.had[p] \/ d.backup[p] # NoFile

Restores(d, p) == /\ ~Blocked(d, p) /\ d.live[p] = NoFile
                  /\ d.journal.had[p]

RollbackPath ==
    /\ run.pc = "rollback"
    /\ \/ run.idx = 0 /\ Proceed(disk, At("clear"))
       \/ /\ run.idx \in Path /\ Blocked(disk, run.idx)
          /\ UNCHANGED <<disk, settled>> /\ Fail /\ Unhurt
       \/ /\ run.idx \in Path /\ Returns(disk, run.idx)
          /\ Proceed(disk, At("takeBack"))
       \/ /\ run.idx \in Path /\ Restores(disk, run.idx)
          /\ Proceed(disk, At("restore"))
       \/ /\ run.idx \in Path
          /\ ~Blocked(disk, run.idx)
          /\ ~Returns(disk, run.idx) /\ ~Restores(disk, run.idx)
          /\ Proceed(disk, AtPath("rollback", run.idx - 1))
       \/ Raises(Fail)

(* Nothing is looked at again between the two renames of a path.           *)
MoveBack ==
    /\ run.pc = "takeBack"
    /\ Rename(TakeBack(disk, run.idx), disk.live[run.idx], disk.stage[run.idx],
              IF disk.journal.had[run.idx] THEN At("restore")
                                           ELSE AtPath("rollback", run.idx - 1),
              Fail)

PutBack ==
    /\ run.pc = "restore"
    /\ Rename(Restore(disk, run.idx), disk.backup[run.idx], disk.live[run.idx],
              AtPath("rollback", run.idx - 1), Fail)

AfterRollback == IF run.goal = "error" THEN Fail ELSE Goto(At("probe"))

(* The journal goes last, after a check that the backup is empty.          *)
ClearJournal ==
    /\ run.pc = "clear"
    /\ \/ disk.backup # Empty /\ UNCHANGED <<disk, settled>> /\ Fail /\ Unhurt
       \/ /\ disk.backup = Empty
          /\ LET d == [disk EXCEPT !.journal = NoRecord]
             IN \/ disk' = d /\ settled' = d /\ AfterRollback /\ Unhurt
                \/ disk' \in {disk, d} /\ UNCHANGED settled /\ Fail /\ Fault
                \/ disk' = d /\ UNCHANGED settled /\ Goto(Off) /\ Stop
-----------------------------------------------------------------------------
(* The journal's account of a path not yet published: the old object is in *)
(* the backup, or has not moved; a new one is never both staged and live.  *)
Accounted(d, p) ==
    LET apart == d.live[p] = NoFile \/ d.stage[p] = NoFile
    IN IF d.journal.had[p]
       THEN \/ d.backup[p] = d.journal.before[p] /\ apart
            \/ d.backup[p] = NoFile /\ d.live[p] = d.journal.before[p]
       ELSE d.backup[p] = NoFile /\ apart

Undoable(d) == \A p \in Path : Accounted(d, p)

(* A failed read that costs a published transaction its account: recovery  *)
(* takes a payload whose backup it cannot put back any more for a bad one, *)
(* or adoption gives a marker of its own to a payload whose transaction is *)
(* still pending.                                                          *)
Mistaken ==
    \/ /\ run.pc = "recover" /\ run'.pc = "rollback"
       /\ Published(disk) /\ ~Undoable(disk)
    \/ run.pc = "adopt" /\ Pending(disk) /\ disk'.marker # disk.marker

RunStep == /\ \/ Recover \/ Probe \/ Adopt \/ Plan \/ Extract \/ Check
              \/ OpenJournal \/ Announce \/ BackUp \/ MoveAside \/ Install
              \/ MoveLive \/ Mark \/ Publish \/ Drop \/ SyncWorkspace \/ Report
              \/ RollbackPath \/ MoveBack \/ PutBack \/ ClearJournal
           /\ UNCHANGED recipe
           /\ misread' = (misread \/ Mistaken)
           /\ late' = FALSE

Start == Launch /\ UNCHANGED <<recipe, history>>

Kill == /\ run # Off /\ run' = Off /\ Stop
        /\ UNCHANGED <<disk, settled, recipe, outcome, history>>

PowerCut == /\ disk' = settled /\ run' = Off /\ outcome' = "none" /\ Stop
            /\ UNCHANGED <<settled, recipe, history>>

Writeback == /\ settled' = disk
             /\ UNCHANGED <<disk, run, recipe, outcome, faults, stops, history>>

(* Between runs, and with no transaction pending, the player or the game   *)
(* rewrites, damages or deletes what is live.                              *)
Damages(o) == {NoFile, [o EXCEPT !.form = "broken"]}
              \cup (IF o.form = "broken" THEN {} ELSE {[o EXCEPT !.form = "touched"]})

Touch == /\ run = Off
         /\ \E p \in Path : /\ disk.live[p] # NoFile
                            /\ \E o \in Damages(disk.live[p]) :
                                   disk' = [disk EXCEPT !.live[p] = o]
         /\ outcome' = "none"
         /\ UNCHANGED <<settled, run, recipe, faults, stops, history>>

Edit == ~Pending(disk) /\ Touch

(* Between runs the player installs the next version of the port.          *)
Upgrade == /\ run = Off /\ recipe < MaxRecipe
           /\ recipe' = recipe + 1
           /\ outcome' = "none"
           /\ UNCHANGED <<disk, settled, run, faults, stops, history>>

Next == RunStep \/ Start \/ Kill \/ PowerCut \/ Writeback \/ Edit \/ Upgrade

Spec == Init /\ [][Next]_vars

(* The run keeps its thread, and the player keeps starting the port.       *)
FairSpec == Spec /\ WF_vars(RunStep) /\ WF_vars(Start)

(* The game runs, and files are touched, while a cleanup is still pending. *)
PlayedSpec == Init /\ [][Next \/ Touch]_vars

(* Somebody else writes to the paths of the transaction at any moment: the *)
(* player over the network share or with the card in another machine.      *)
Intrude == /\ \E p \in Path : \E o \in Object \cup {NoFile} :
                  \/ disk' = [disk EXCEPT !.live[p] = o]
                  \/ disk' = [disk EXCEPT !.backup[p] = o]
           /\ outcome' = "none"
           /\ late' = TRUE
           /\ UNCHANGED <<settled, run, recipe, misread>> /\ Fault

SharedSpec == Init /\ [][Next \/ Intrude]_vars

FairSharedSpec == SharedSpec /\ WF_vars(RunStep) /\ WF_vars(Start)
-----------------------------------------------------------------------------
(* What the next run will leave in the game directory once it recovered,   *)
(* and what it would leave if the current install were withdrawn.          *)
Payload(d) == IF ~Pending(d) \/ Published(d) THEN d.live ELSE RolledBack(d)

Prior(d) == IF Pending(d) THEN d.journal.before ELSE d.live

Extracted == {[p \in Path |-> [batch |-> g, form |-> "intact"]] : g \in Batch}

Installs == INSTANCE AtomicInstall
                WITH Whole <- Extracted, undone <- misread,
                     now <- [payload |-> Payload(disk), prior |-> Prior(disk)],
                     durable <- [payload |-> Payload(settled), prior |-> Prior(settled)]

(* An install is one step: whatever the point at which the process dies,   *)
(* the power goes or an operation fails, recovery leaves the whole new     *)
(* payload or the whole old one, until a failed read takes the account of  *)
(* a published transaction away (commit_stage, recover_transaction).       *)
InstallIsAtomic == Installs!Spec

(* The old payload is whole somewhere: until the marker publishes, rolling *)
(* back yields exactly the tree found when the journal was opened          *)
(* (rollback_transaction); with no journal, nothing lies in the backup.  A *)
(* failed read may have a published transaction rolled back too: while its *)
(* backup is complete the old payload comes back whole.                    *)
Recoverable(d) == IF Pending(d) THEN Published(d) \/ RolledBack(d) = d.journal.before
                  ELSE d.backup = Empty

OldPayloadKept == misread \/ (Recoverable(disk) /\ Recoverable(settled))

(* With the game directory to itself, rollback never meets a state it      *)
(* refuses ("ambiguous rollback state", "backup is missing", "unexpected   *)
(* backup exists", "untracked data"): no player is locked out by a crash.  *)
NeverRefused ==
    \/ misread
    \/ /\ run.pc = "rollback" => \A p \in Path : p <= run.idx => ~Blocked(disk, p)
       /\ run.pc = "clear" => disk.backup = Empty

(* The inductive invariant behind OldPayloadKept and NeverRefused.         *)

Consistent(d) ==
    IF Pending(d)
    THEN /\ \A p \in Path : d.journal.had[p] <=> d.journal.before[p] # NoFile
         /\ Published(d) \/ Undoable(d)
    ELSE d.backup = Empty

SameTid(d) == d.marker # NoRecord /\ d.marker.tid = d.journal.tid

Undone(d, p) == d.live[p] = d.journal.before[p] /\ d.backup[p] = NoFile

(* What a run r of version v can count on at each step.                    *)
Before == {"probe", "adopt", "plan", "extract", "check", "journal", "sync", "done"}

Committing == {"announce", "backup", "setAside", "install", "goLive", "mark"}

Finishing == {"publish", "settle", "dropBackup", "dropStage", "dropJournal"}

Undoing == {"rollback", "takeBack", "restore", "clear"}

Cleaning == {"dropBackup", "dropStage", "dropJournal", "sync"}

Knows(d, r, v) ==
    /\ r.pc \in Before /\ Pending(d) => Published(d) /\ d.journal.recipe = v
    /\ r.pc = "adopted" => ~Pending(d)
    /\ r.pc \in Committing \cup Undoing =>
           /\ Pending(d) /\ d.journal.recipe = v
           /\ Undoable(d)
    /\ r.pc = "setAside" => /\ d.journal.had[r.idx]
                            /\ d.live[r.idx] # NoFile /\ d.backup[r.idx] = NoFile
    /\ r.pc = "goLive" => d.live[r.idx] = NoFile
    /\ r.pc = "takeBack" => Returns(d, r.idx)
    /\ r.pc = "restore" => Restores(d, r.idx)
    /\ r.pc \in Finishing => Published(d) /\ d.journal.recipe = v
    /\ r.pc \in Cleaning => r.goal # "error"
    /\ r.pc \in {"dropStage", "dropJournal"} /\ r.clean => d.backup = Empty
    /\ r.pc \in Undoing =>
           \A p \in Path : r.pc = "clear" \/ p > r.idx => Undone(d, p)

Accountable ==
    Consistent(disk) /\ Consistent(settled) /\ Knows(disk, run, recipe)

(* What a step of run r rests on whoever else writes to the paths: its     *)
(* transaction is there, and past the marker it is the marker's.           *)
Owned(d, r) == /\ r.pc \in Committing \cup Finishing => Pending(d)
               /\ r.pc \in Finishing => SameTid(d)
               /\ r.pc \in Cleaning => r.goal # "error"

(* What a test has just found.                                             *)
Vacated(d, r) == /\ r.pc = "setAside" => d.backup[r.idx] = NoFile
                 /\ r.pc \in {"goLive", "restore"} => d.live[r.idx] = NoFile

SharedInv == TypeOK /\ Owned(disk, run) /\ (late \/ Vacated(disk, run))

IInv == SharedInv /\ (misread \/ Accountable)

(* The next start of the installer recovers to this payload and accepts it.*)
Lasting(d, r) == Ready(d, r) /\ (Pending(d) => Published(d))

(* A success is good for the next start, and one that installed or adopted *)
(* is so after a power cut too (the fsyncs of atomic_write, durable_rename *)
(* and commit_stage come before finish("success")).                        *)
SuccessIsDurable ==
    \/ misread
    \/ /\ outcome \in {"ready", "adopted", "installed"} => Lasting(disk, recipe)
       /\ outcome \in {"adopted", "installed"} =>
              Lasting(settled, recipe) /\ settled.live = disk.live

(* Somebody wrote to the paths between the test and the rename of path p.  *)
Overtaken(p) == late /\ run.pc \in Moving /\ p = run.idx

(* No run deletes a player's object that was there when it looked: what is *)
(* live moves, it is only renamed over when it came after the test of its  *)
(* path, and a backup is deleted only for a transaction whose marker was   *)
(* published (commit_stage, rollback_transaction, discard_path).           *)
NothingLost ==
    [][RunStep => \A p \in Path :
         \/ Overtaken(p)
         \/ /\ disk.live[p] # NoFile =>
                   disk.live[p] \in {disk'.live[p], disk'.stage[p], disk'.backup[p]}
            /\ disk.backup[p] # NoFile =>
                   \/ disk.backup[p] \in {disk'.live[p], disk'.backup[p]}
                   \/ /\ disk.marker # NoRecord /\ Pending(disk)
                      /\ disk.marker.tid = disk.journal.tid]_vars

(* What somebody else made of the paths of a transaction that was not      *)
(* published: its rollback refuses it, for ever if nobody tidies up.       *)
Ambiguous(d) == /\ Pending(d) /\ ~Published(d)
                /\ \E p \in Path : Blocked(d, p)

(* A transaction does not stay pending for ever: later runs finish the     *)
(* cleanup or the rollback ("cleanup will retry on the next run"), unless  *)
(* its paths were rearranged by somebody else.                             *)
CleanupRetries == Pending(disk) ~> (~Pending(disk) \/ Ambiguous(disk))

(* "From here on the validated payload is live, and no backup/stage/journal *)
(* cleanup failure may turn the install into exit 1" (commit_stage): once  *)
(* the cleanup of a published transaction has begun to delete the backup,  *)
(* no run replaces the live payload by what is left of it.                 *)
PublishedStaysLive ==
    [][RunStep /\ Pending(disk) /\ disk.journal.published
       /\ (\E p \in Path : disk.journal.had[p]
                            /\ disk.backup[p] # disk.journal.before[p])
           => disk'.live = disk.live]_vars
-----------------------------------------------------------------------------
(* What IInv lacks for the promises above: where the objects come from,    *)
(* and what a success rests on.                                            *)

(* At p the journal's tree has been moved away, or there never was one:    *)
(* what is live is the new object.                                         *)
NewIsLive(d, p) == d.live[p] # NoFile /\ (~d.journal.had[p] \/ d.backup[p] # NoFile)

(* No new object shares its extraction with the payload it replaces.       *)
Foreign(d) ==
    \A p \in Path :
        /\ d.stage[p] # NoFile => d.stage[p].batch \notin Batches(d.journal.before)
        /\ NewIsLive(d, p) => d.live[p].batch \notin Batches(d.journal.before)

(* A marker of the pending transaction seals nothing of the old payload's  *)
(* extractions, so a rollback never brings back a tree that looks          *)
(* published.                                                              *)
Apart(d) ==
    IF Pending(d)
    THEN /\ SameTid(d) => \A p \in Path :
                 /\ d.marker.seal[p] # NoFile
                 /\ d.marker.seal[p].batch \notin Batches(d.journal.before)
         /\ Published(d) \/ Foreign(d)
    ELSE \A p \in Path : d.stage[p] # NoFile => d.stage[p].batch \notin Batches(d.live)

New(r) == [batch |-> r.plan, form |-> "intact"]

(* How far run r has brought its extraction.                               *)
Holds(d, r) ==
    /\ r.pc \in {"extract", "check", "journal"} =>
           /\ r.plan \in Batch
           /\ Pending(d) \/ r.plan \notin Batches(d.live)
    /\ r.pc = "extract" => \A p \in Path : p < r.idx => d.stage[p] = New(r)
    /\ r.pc \in {"check", "journal", "announce"} => \A p \in Path : d.stage[p] = New(r)
    /\ r.pc \in {"backup", "setAside", "install", "goLive"} =>
           \A p \in Path : IF p < r.idx THEN d.live[p] = New(r) ELSE d.stage[p] = New(r)
    /\ r.pc = "mark" => \A p \in Path : d.live[p] = New(r)
    /\ r.pc \in Committing =>
           r.plan \in Batch \ Batches(d.journal.before) /\ ~SameTid(d)
    /\ r.pc \in Committing \cup Undoing => Foreign(d)
    /\ r.pc = "dropJournal" /\ r.clean => d.stage = Empty

Traced == Apart(disk) /\ Apart(settled) /\ Holds(disk, run)

(* From the fsync of the marker to the report the success is already true. *)
Succeeding == \/ run.pc \in {"adopted", "publish", "settle", "done"}
              \/ run.pc \in Cleaning /\ run.goal = "done"

Assured ==
    /\ run.pc # "off" => outcome = "none"
    /\ Succeeding => /\ Lasting(disk, recipe) /\ Lasting(settled, recipe)
                     /\ settled.live = disk.live
    /\ SuccessIsDurable

(* The inductive invariant behind InstallIsAtomic and SuccessIsDurable.    *)
AInv == IInv /\ (misread \/ (Traced /\ Assured))
=============================================================================
