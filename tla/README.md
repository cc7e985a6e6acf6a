# Verification of the Chrono Trigger NextOS port

TLA+ models of the port: the Python installer that turns the player's APK into
a payload (`nxextract/nxextract.py`), the C program that loads the game's
Android libraries and bridges them to SDL (`src/`), the launcher script that
starts both, and the first-party framework under `vendor/`.

## The system

| part | source | state it keeps | operations | hard behaviour |
|---|---|---|---|---|
| Payload transaction | `nxextract/nxextract.py` | live, stage and backup trees, `transaction.json`, the marker | recover, probe, adopt, extract, commit, roll back, clean up | kills and power cuts between any two renames, failing fsyncs, deletes that stop half way, somebody else writing to the game directory |
| Reading and planning | `nxextract/nxextract.py` | none | discover files, group them, match the recipe's rules, choose one set | several versions on the card, equal names, ambiguous sets, names a FAT card merges |
| Staging and resume | `nxextract/nxextract.py` | source cache, stage, temporary files, `state.json`, hook records | expand bundles, extract, run hooks, check the set, discard | a kill at any step, another card or another recipe at the next run, a set that fails as a whole |
| Install run | `nxextract/nxextract.py`, `nxextract/run-extractor.sh` | workspace lock, terminal result, setup UI and its directory | one run of `install_command` | two runs at once, a stale terminal result, a UI that dies or hangs, Ctrl-C, kills |
| Launcher | `Chrono Trigger.sh` | launcher lock on fd 9, child pids, splash, deadline | extract, start the game, forward one signal, wait, kill | signals at any line, a child that does not answer, pid reuse, lock inheritance |
| Game process life cycle | `src/src/main.c`, `src/src/ct_platform.c` | exit request, single-instance lock, watchdog, save on disk | start, main loop, pause, save, `_exit` | signals, a save that hangs, a fault during the save, the lock released while the display is owned |
| Pad buttons | `src/src/main.c` | pressed, pending and deferred releases, the exit chord | press, release, flush, release all | press and release inside one frame, re-press before a deferred release, focus loss |
| Audio bridge | `src/src/opensles_shim.c` | player pool, per-player ring and buffer queue, pump and device state | create, enqueue, play, stop, pump, mix, destroy | three threads, two of them without a lock; stolen players; callbacks after destroy; a second pump |
| Loader | `vendor/nxloader`, driven by `src/src/ct_framework.c` | modules, their phase and image, active callbacks, the import registry | load, relocate, resolve, hook, finalize, run initializers, `JNI_OnLoad`, find, destroy, add providers | callbacks and guest code that call the loader again, phases that fail half way and are tried again, providers that compete for a name |
| JNI bridge | `src/src/jni_shim.c`, `src/src/imports.c` | a few paths and the flag of the video player | functions the engine calls | none: tables |
| Framework services | `vendor/nxcompat`, `vendor/nxgl`, `vendor/nxinput`, `vendor/nxaudio` | virtual files, GL state, controller state, audio device | called by the port | hot-plug, suspended audio, chord detection |
| Packaging and tools | `build_universal.sh`, `tools/`, `package/`, `tests/` | none at run time | build, verify, smoke test | none: sequential scripts |

What makes each part correct:

* payload transaction: an install is one step to every later run; the old
  payload is whole until the new one is published; a rollback is never
  refused; a reported success is durable; no transaction stays pending;
* reading and planning: the installer never guesses between two sets, and what
  it chooses fits the card and the recipe;
* staging and resume: what is resumed, repeated or kept is what an undisturbed
  run would have made; no leftover locks the player out;
* install run: one writer; a success is true; the setup UI ends with its run;
* launcher and life cycle: one preparation and one game at a time, over data
  that is ready; an exit request ends in a saved game and a released display,
  or in a forced exit after the deadline; the status is the game's;
* pad buttons: the engine sees every press for at least one frame, and no
  button stays pressed or is reported released while it is held;
* loader: each phase of a library happens once and in order, whatever is called
  from inside it; nothing in use is freed; a name is bound to the best offer;
* audio bridge: what is mixed was enqueued and is mixed once, in order; a stop
  is not undone; a callback is not run on a destroyed player.

## Modules

| module | what it is |
|---|---|
| `AtomicInstall` | what the transaction promises: a payload replaced in one step, withdrawn in one step, never half seen |
| `PayloadTransaction` | the installer's transaction in detail; `Installs` maps it to `AtomicInstall` |
| `MCPayloadTransaction` | symmetry and the constraint of the safety run |
| `PayloadTransactionProofs` | its inductive invariant, its theorems, and the shared game directory |
| `PayloadAtomicProofs` | the refinement of `AtomicInstall`, and durability |
| `PadInput` | buttons, hot-plug, focus and the three exit chords, from SDL to the engine |
| `MCPadInput` | the constraint of its run: one pad with all buttons, or several devices |
| `PadInputProofs` | the invariants of the latch of `main.c` and of the controllers, and a theorem for each property |
| `AudioBridge` | players, rings, the pump thread and the SDL callback |
| `AudioBridgeProofs` | the invariant of the ring and its theorems |
| `SourceSelection` | pure operators: from the files on the card to a plan |
| `StageResume` | what is kept between two runs; extends `SourceSelection` |
| `MCStageResume` | the files, cards, recipe and hooks of its run |
| `SourceSelectionProofs` | theorems about the choice; the invariant of `StageResume` and its theorems |
| `InstallRun` | runs of the installer in one workspace: lock, UI, result |
| `InstallRunProofs` | the invariant of `InstallRun` and its theorems |
| `NxLoader` | the phases of a guest library and the calls nested in them |
| `ImportRegistry` | the merge of import providers |
| `MCLoader` | the two of them in one run |
| `LoaderProofs` | the invariants of `NxLoader` and `ImportRegistry`, and a theorem for each of their properties |
| `PortSession` | launchers, their installers and their games; extends `InstallRun` |
| `PortSessionProofs` | the invariant of the session; extends `InstallRunProofs` |

`PayloadTransaction`, `StageResume` and `InstallRun` look at one run of the
installer at three depths. Where one has a step, the next has many: `Commit` of
`StageResume` is the whole of `PayloadTransaction`, and `Work` and `Commit` of
`InstallRun` are the whole of `StageResume`. `PortSession` composes the runs of
`InstallRun` with the launchers that start them and the games that follow.

A definition has the name of the function it stands for, or says which one in
its comment. An operator whose name is that of another with a word added
(`HungryForever` beside `Hungry`) is the same definition with a plausible
mistake in it. It stands before the definition and is used by nothing else: a
property is worth its run only if the mistake breaks it.

## Payload transaction

### State and steps

`disk` is the file system the running process sees and `settled` what a power
cut would leave. Each is a record: the live tree (the commit paths in the game
directory), the stage, the backup, `transaction.json` and the marker. A commit
path holds one object: which extraction it came from and whether it is intact,
touched (still validates, but its size or modification time no longer matches
the seal) or broken. The locals of the running `install_command` are the record
`run`; `run = Off` when no installer runs.

| action | code |
|---|---|
| `Launch`, `Recover`, `Probe`, `Adopt`, `Plan`, `Report` | `install_command`, `recover_transaction`, `marker_fast_valid`, `try_adopt_existing`, `_prepare_stage_state` |
| `Extract`, `Check` | `extract_plan`, `_copy_item`, `_resume_item_valid`, the validation of the stage |
| `OpenJournal`, `Announce`, `BackUp`, `MoveAside`, `Install`, `MoveLive`, `Mark`, `Publish` | `commit_stage` |
| `Drop`, `SyncWorkspace` | `_finalize_published_transaction`, `discard_path` |
| `RollbackPath`, `MoveBack`, `PutBack`, `ClearJournal` | `rollback_transaction` |
| `Kill`, `PowerCut`, `Writeback`, `Edit`, `Upgrade`, `Intrude` | the environment |

Five choices need a word.

* *Storage.* Operations reach the medium in order, at the latest when some
  directory of the partition is fsynced (a journalling file system). A power
  cut therefore leaves an earlier state of the disk. File systems that reorder
  renames across directories are outside the model.
* *Failing operations.* `Attempt` is every write or rename with a required
  fsync: it succeeds and is durable, raises before or after it took effect, or
  the process dies in between. Reads fail too. `Raises` is an error that leaves the
  operation; `Caught` is one that is caught and taken for an answer: a read that
  fails while recovery validates a published payload makes it a bad one
  (`nxextract.py:3853`, `:3203`), and the transaction is rolled back.
* *Test and rename.* `BackUp`, `Install` and `RollbackPath` look at a path;
  `MoveAside`, `MoveLive`, `MoveBack` and `PutBack` rename it, as steps of their
  own. Somebody else can write in between: then the source may have gone
  (`os.rename` raises) or the target may be taken (a file is replaced, a
  directory makes it raise). `Rename` has all of these.
* *Phases.* The code rewrites the journal with the phase of each path around
  every rename. Recovery never reads that phase: it decides from which objects
  exist. These writes are therefore only fsyncs that can fail, and are part of
  the rename beside them.

Two variables are history. `misread` records that a failed read has cost a
published transaction its account (`Mistaken`): recovery rolled it back when its
backup was not whole any more, or adoption gave a marker of its own to a payload
whose transaction was still pending. `late` records that somebody wrote to the
paths since the last step of the run.

### Runs

| run | instance | what it shows |
|---|---|---|
| `transaction_safety` | 2 paths, 2 batches, 2 identifiers, 2 recipes; 2 mishaps of any kind | `InstallIsAtomic` (refinement of `AtomicInstall`), `OldPayloadKept`, `NeverRefused`, `SuccessIsDurable`, and `AInv`, the invariant of the proofs |
| `transaction_shared` | 1 path, 2 batches; 1 fault or 1 intrusion, 1 stop | `NothingLost`, with every check that only an intruder can make fail and an intruder between each check and its rename, and `CleanupRetries`: no transaction stays pending unless an intruder made it ambiguous |
| `played_before_cleanup` | 1 path, 1 fault | violation, see Findings |
| `upgraded_before_cleanup` | 1 path, 1 fault, 2 recipes | violation, see Findings |

Two paths are enough for one path to be installed while the other is not, in
both orders of commit and rollback; the steps of a path look at no other path.
Two batches are the old payload and a new one; where nothing was installed
before, the second is another attempt from another source. One path is enough
for an intrusion, since it meets one path at a time, and `NothingLost` is proved
for any number of them. `CleanupRetries` allows for one thing: an intruder can
leave a path of an unpublished transaction in a state the rollback refuses
(`Ambiguous`), and then every later run refuses it too. Without an intruder that
never happens (`NeverRefused`). Two mishaps are what it takes to
interrupt the recovery from an interruption; `MaxFaults` and `MaxStops` bound
how often things go wrong, nothing else, and the theorems need only that they
are numbers. A change of recipe counts as a mishap too (`TwoMishaps`). Batches
and transaction identifiers are interchangeable, so the safety run uses
symmetry; the run with fairness does not.
A live tree has at most one path that is not intact (`OneDamaged`): a step
looks at one path or asks whether all are sound, and the proofs cover the rest.

What these properties leave out is what the code does not keep. The first four
of the safety run promise nothing after `misread`: two mishaps reach it, a kill
in the middle of a cleanup and then one failed read (see *Recovery* under
Observations). They do promise that a failed read alone is harmless: a published
transaction whose backup is whole is rolled back to the whole old payload, in
one step. `NothingLost` leaves out a path that somebody wrote to after the run
had looked at it (`Overtaken`); what was there when the run looked is not lost.

Fairness (`FairSpec`, `FairSharedSpec`): a running installer takes its next step, and a player
whose game does not start starts the port again. Nothing is assumed of faults
and stops except that they end.

### Proofs

`PayloadTransactionProofs` proves, for every number of paths, batches,
identifiers, versions, faults and stops, from the named assumptions of
`PayloadTransaction`:

* `Inductive`: `Spec => []IInv`;
* `TypesHold`: `SharedSpec => []TypeOK`, and so of `Spec` too;
* `OldPayloadIsKept`: `Spec => []OldPayloadKept`;
* `RollbackNeverRefuses`: `Spec => []NeverRefused`;
* `NothingIsEverLost`: `SharedSpec => NothingLost`.

`IInv` has two parts. `SharedInv` holds with an intruder too: types, what a run
knows without looking at the trees (`Owned`: its transaction is there, and past
the marker it is the marker's), and what its last test found (`Vacated`), unless
somebody wrote since. `Accountable` holds until `misread`. It is there because
`OldPayloadKept` alone is not inductive: that rolling back *now* would give the
old tree says nothing about the step in the middle of a rename pair. It adds,
per path, what the journal can account for (`Accounted`: the old object is in
the backup or has not moved, and a new object is never both staged and live),
for the disk and for what a power cut leaves, and what the run relies on at each
step (`Knows`): an open transaction accounts for every path, a finishing one is
published, a rollback has undone every path above its index. A step then either
keeps the journal and moves one object of one path, or removes the journal when
the backup is empty. A rollback of a published transaction that still accounts
for every path (`Undoable`) is no different from any other; that is why
`misread` is set for those that do not, and only for those. The proofs have one
lemma for each way an operation can go, so that each action only shows that its
disk and its next step fit each other.

`PayloadAtomicProofs` goes on, under the same assumptions:

* `InstallIsAlwaysAtomic`: `Spec => InstallIsAtomic`, the refinement;
* `SuccessIsAlwaysDurable`: `Spec => []SuccessIsDurable`;
* `WholeInvariant`: `Spec => []AInv`, behind both.

`IInv` follows each object by its path; the refinement asks where it was
extracted. A rollback that brought back a tree the marker of its own
transaction names would look like an install, and a commit that reached the
marker with a mixed extraction would be one nobody made. `AInv` therefore adds
`Traced`: staged and new live objects never share an extraction with the tree
they replace (`Foreign`), the marker of a pending transaction seals no old
object (`Apart`, on disk and after a power cut), and each step of a run knows
how many paths hold its own plan (`Holds`). Every step then has one of the five
shapes of `MapsTo`, each a step of `AtomicInstall` or a stutter; most keep
`Payload` because `Accounted` makes rolling back give the same tree before and
after. `Assured` is what `SuccessIsDurable` lacks to be inductive: from the
fsync of the marker to the report, the cleanup included, the payload is ready
on the disk and on the medium, and the two live trees are equal. Both hold until
`misread`, as `Accountable` does. In `AtomicInstall` that is `undone`, and
`Doubt`, the only step that ends the promise, asks for an install that can still
be withdrawn: one that is final, and one that changed nothing, are never lost so.

`CleanupRetries` needs fairness and stays with TLC.

## Pad input

### State and steps

One thread, the main loop, but three pieces of code with a view of the buttons
of their own, and SDL, whose state may be ahead of the events it has queued.

| variable | code |
|---|---|
| `sdl`, `attached`, `focus`, `queue`, `raw` | SDL and `/dev/input`, the environment |
| `game` | `main.c`: the table of pressed buttons, releases put off, `fresh` (pressed in this frame), the chord, the announcement, the exit reason |
| `nx` | `nxinput.c`, `nxinput_core.c`: slots, buttons, which slots are active, the focus, the sticky quit request |
| `chord` | `nxinput_evdev_chord.h`: the hold count of the polled chord and the raw keys |
| `unseen`, `owed`, `together` | history, only for the properties |

The loop is `Frame` (flush the releases, poll the chord, count down to the
announcement), `PollEvent` until the queue is empty, `PollInput`
(`nxinput_poll`), `Render` (the engine reads the pad), and `Leave`. SDL changes
between two steps that pump: buttons, plugging, focus, raw keys. The events of
one pad arrive in order; nothing else is assumed of them.

### Runs

| run | instance | what it shows |
|---|---|---|
| `pad` | 1 pad, 3 buttons, 2 queued events; or 2 pads for 1 slot, 2 raw devices | `PressIsSeen`, `NothingStuck`, `HeldChordQuits`, `ConnectedIsAnnounced`, `RawChordIsHeld` |
| `pad_tapped_and_held` | 1 pad, 3 buttons | violation, see Findings |

Three buttons are the chord and one that is none of it. Two queued events give
a press and a release of one button in one frame with a third thing after
them; the queue refills within the frame, so more of them only lengthen what
one frame can hold. Two pads and one slot make pads wait for a slot; which of
two gets it is SDL's choice (`Fillings`); two raw
devices can hold half a chord each. The constraint `SoloOrDuo` explores the
union of two ranges: one pad with every button and two events, and all pads and
raw devices with the buttons of the chord and one event. In the second
(`OneKindAtATime`) the run does not go on from a state in which a raw key and a
controller button are both in play; the proofs cover those. The loop ends when asked to, so deadlock is not
checked.

### Proofs

`PadInputProofs`, for any pads, slots, buttons, raw devices, delays and queue
length: `TypesHold`, `EveryPressIsSeen`, `NoButtonIsStuck`,
`HeldChordAlwaysQuits`, `ConnectedIsAlwaysAnnounced` and `RawChordIsAlwaysHeld`,
that is every property of the run `pad`, without its constraint.

The invariant behind the first two (`IInv`) says that what the engine has is
exactly the table of `main.c`, that a press the engine has not read is still
marked fresh (a fresh button is never released, only put off), and, for each
queued press, that the button is still down or that what ends it is further back
in the queue. The last part is what makes `NothingStuck` inductive: a press is
handled long after it happened, and the pad may be gone by then.

The others need the controllers (`CInv`). Each operation of `nxinput` is shown to
be one of `Follows`: a chord that becomes active asks for the end, a request
stays, and what becomes open is attached. Sampling reads the buttons of SDL, so
at `Render` an open pad with the chord down is active, and an active chord has
asked for the end (`NxOK`). A pad that is attached or open is announced or has
its event in the queue (`Announcing`): the event is only taken when the pad, or
another one in its way, is open. A remembered raw key is down or its change is
unread, and nothing is remembered while a controller is bound (`KeysOK`).

## Audio bridge

### State and steps

| variable | code |
|---|---|
| `state`, `head`, `tail`, `ring`, `frac`, `flags` | `AudioPlayer`: `active` and `play_state`, the ring and its two counters, `resample_pos`, callback and end-of-sound flags |
| `dry` | the engine's decoder, the environment |
| `writer` | for each thread, the Enqueue that has copied and not yet published |
| `pump`, `mixer` | the program counters of the other two threads |
| `torn`, `fresh` | history, only for the properties |

Game (`CreateAudioPlayer`, `RegisterCallback`, `SetPlayState`, `Clear`,
`Destroy`, `Enqueue`, `EnqueueReturns`), pump (`PumpVisit` to `PumpStop`, one
action per place where another thread can come in between) and mixer
(`MixStart`, `MixPeek`, `MixAdvance`) interleave freely. `DeviceFree` is
`SDL_LockAudioDevice`: SDL holds that lock during the whole callback, so a call
that takes it waits for the mixer to be idle. Enqueue takes no lock and is two
actions: the copy, then the head. Both read `ring_head`, and in between another
thread may have reset it; which of the two values the second one adds to is a
free choice (`Publish`). The pump's callbacks enqueue on its own thread, for more
data and in answer to HEADATEND, which it reports between the test for the end
and the stop; the game enqueues on another. Nothing in the sources keeps any of
these apart, and nothing in the model does.

Data is counted in frames. A cell holds the number of the frame written into it
since the player was reset, or `Junk`, so that playing stale data, playing
twice and skipping are all visible in `InOrder`. The 32-bit counters wrap at
`Width`; because the size of the ring divides 2^32, that shows only where the
tail passes the head. Volume, fades and sample formats do not move the ring.

What the code does not keep is then said by two history variables. A player is
`torn` from the moment an Enqueue of one thread meets a reset or an Enqueue of
the other, until it is reset again: nothing is promised of its ring. `fresh`
counts the frames enqueued into the pump's player since the pump found it at its
end: a stop throws those away, and must throw away nothing else.

### Runs

| run | instance | what it shows |
|---|---|---|
| `audio_shared` | 1 player, ring of 2, counters of 6, 4 frames | `InOrder`, `MixesPlaying`, `EndCutsNothing`, `EndIsHeard` |
| `audio_reset_in_callback` | 1 player, ring of 4, 9 frames | violation of `ReadsOnlyWritten`, see Findings |

The only thing one player shares with another is the turn of the pump and of
the mixer, and who gets a freed slot. Four frames (`MaxFrames`, counted from the
last reset) wrap a ring of two twice, with buffers of one and two frames that fit
once, not at all or partly, a step of 1/2 that leaves every fraction in `frac`,
and a threshold of half the ring. Counters of six are three rings, as 2^32 is a
multiple of the real one, and wrap where a torn player's tail has passed its
head. `MaxCalls` 1 stands for 64 callbacks in one visit: a second visit asks
again.

Fairness (`FairSpec`): the pump and SDL's thread run, and an Enqueue returns.
The pump has strong fairness because it waits for the lock of the device, which
SDL gives back between callbacks and takes again. `EndIsHeard` assumes nothing of
the engine: a sound whose decoder has nothing left is drained, noticed and
stopped, unless the engine stops or restarts it first.

### Proofs

`AudioBridgeProofs`, for any number of players, any ring, buffers, threshold
and device:

* `StoppedIsSilent`: `Spec => [](TypeOK /\ MixesPlaying)`, for every engine and
  every rate;
* `FramesInOrder`: `Spec => []InOrder` and `EndIsWhole`: `Spec =>
  EndCutsNothing`, if no source is faster than the device (`Rate <= One`), for
  every engine and every interleaving of the three threads.

The invariant says that each player is torn or `Whole`, which has one part per
thing a step can disturb: `Sound` (the head is ahead of the tail by at most the
ring, and each cell between them holds its frame), `Pending` (a copy under way
starts at the head, fits, and its cells are written), `OneWriter` (if game and
pump both write to one player it is torn), `Reading` (the frames the mixer
peeked are still ahead of the tail, which is why the advance cannot pass the
head) and `Counted` (a player the pump is about to stop holds nothing but what
came since the test). `UsesNoMore` is the arithmetic of the resampler: with a step of at most
one source frame the position after the last output frame is at most the number
of frames read. The assumption is needed: with a rate above `One` TLC refutes
`UsesWhatItRead` (see Observations). What a torn player plays is the run
`audio_reset_in_callback`.

## Reading, planning, staging

### State and steps

`SourceSelection` has no state: a card (a set of file records) goes in, a plan
or `NoPlan` comes out. A file's shape, package, members and contents are facts
about the file; a pattern is the set of names it matches; a content stands for
a size and a CRC together, and `Size` says which contents are equally large.

| operator | code |
|---|---|
| `Searched`, `Loose` | `discover_inputs` |
| `BundleGroups`, `DirectGroups`, `Groups`, `Refused` | `build_candidate_groups` |
| `Hits`, `Collides`, `MemberHits`, `FileHits` | `_candidate_members`, `_assert_portable_selection`, `_candidate_loose`, `_candidate_containers` |
| `OneItems`, `ManyItems` and what makes them fail | `_choose_one`, `_choose_many` |
| `Builds`, `Aborts` | `build_plan_for`: a `PlanError`, which only rules a set out, and an error that ends the selection |
| `Resolve` | `resolve_plan` |

`StageResume` is what lies in the workspace between two runs: `cache` (the APKs
taken out of bundles), `stage`, `parts` (temporary files), `litter` (what a
killed hook left), `state` (`state.json`) and `marks` (the records of the
hooks). The content of a staged file is a sequence: what was extracted and one
stamp for each hook that has been over it, with the recipe and the payload it
was made from. `live` is the installed payload, with the version that installed it and
the one its marker names, which an adoption moves on. So a hook that ran twice, a hook left out, and a file of another
payload are all visible.

| action | code |
|---|---|
| `Launch`, `Adopt` | `marker_fast_valid`, `try_adopt_existing`: a run that goes on to look for a source, and one that finds the installed payload good for the new version of the port |
| `Expand`, `Select` | `_copy_zip_member_resume`, `build_candidate_groups`, `resolve_plan` |
| `Prepare`, `Wipe` | `_prepare_stage_state`, one file at a time |
| `Copy`, `Extracted` | `extract_plan`, `_copy_item`, `_resume_item_valid` |
| `SkipHook`, `StartHook`, `EndHook` | `run_hooks`, `_checkpoint_valid` |
| `Process` | the hook's program, external: it rewrites or makes its files one by one |
| `Check`, `Discard`, `Commit` | `validate_recipe_outputs` and the end of `install_command` |
| `Stop`, `Swap` | an error or a kill at any step; the player changes the card or deletes the payload, or the port is upgraded |

### Runs

| run | instance | what it shows |
|---|---|---|
| `stage` | 19 cards, 3 rules, 2 ABIs, 2 hooks, 2 recipes; 2 changes between runs, 1 run cut short | `TypeOK`, `CommittedIsFresh`, `ChoiceIsCertain`, `InstallsInOneStep`, `GoodSourceInstalls` |

Every card is there for one branch of the selection: one version, two versions
of equal size, a bundle and another bundle of the same name, the same version
twice, a broken archive, an APK without a manifest, data beside the APK, names
that differ in case only, a set that passes rule by rule and fails as a whole,
a file outside the commit roots. The player starts with any of them and can
change it for seven. Two changes are one to make a stage stale and one to make it
stale again, or to come back; one interruption leaves any prefix of a run, and
the run after it completes or fails.

`InstallsInOneStep` is an abstract specification of the whole: the player, who
sees the card, the version of the port and the payload, sees an install as one
step (`Installs`). It leads from the card that is in to what one undisturbed run
makes of it, is taken only when the payload has no marker of this version, and
never installs a set that the checks refuse. Beside it the player sees an
adoption (`Adopts`), which changes the marker alone, and what he does himself
(`Meddles`). `StageResume` implements it; the
refinement mapping is the identity on those three variables.

One hook makes a file, the other rewrites an extracted one: such a file no
longer resumes, is extracted again, and its hook must run again. Two assumptions
on recipes, not on the installer, are operators of `StageResume` and evaluated
on the instance (`MCOrderlyHooks`, `MCSizesTell`):

* `OrderlyHooks`: hooks rewrite files of the payload alone, a file that a hook
  makes is no other hook's business, and a checkpoint of a hook that rewrites
  something looks at a file it rewrites. With a checkpoint that looks elsewhere,
  a resumed run extracts the file again and skips the hook;
* `SizesTell`, only if some hook makes files: the size tells apart two loose
  files for one destination. Otherwise see *Stage* under Observations.

The recipe of this port has no hook (`extractor.json:98`), so both hold of it.

What a killed hook leaves beside its files (`litter`) survives a resumed run. The
final check may accept it, since it counts files and bytes and refuses only
temporary names (`nxextract.py:2977`, `:3013`), and the commit then publishes it
beside the payload. `CommittedIsFresh` is therefore about the files of the plan
and of its hooks.

Fairness (`FairSpec`): a run that is not cut short goes on, and the player
starts again. `GoodSourceInstalls` asks for a card from which a run with an
empty workspace would install (`Good`), and says that no leftover prevents it.

### Proofs

`SourceSelectionProofs`, for every card, recipe and bound:

* `SelectionIsNoGuess`: if a set is selected, every set that could be built from
  the card writes the same contents to the same paths. The fingerprint alone
  does not give this: an item of a whole file enters it by its size only. The
  proof shows that two plans of one card share their loose files
  (`LooseIsShared`, `FilesAreShared`), so such an item is the same file. It
  assumes `OneAbi` and `PlainRules` (no rule takes an APK as a whole, and each
  has a name of its own), as in this port's `extractor.json`. With two ABIs whose
  rules accept different loose files of one size it would be false;
* `SelectionFits`: no two items share a portable path, all lie under the commit
  roots, every required rule gave a file it accepts. This and everything below
  hold for any number of ABIs. That there is a best plan at all (`BestIsThere`)
  needs the least element of a set of ranks; `LeastOf` proves that without
  induction over a predicate, from the fact that a finite set has no injection
  into itself that misses an element;
* `ChoiceIsAlwaysCertain`, `ChoiceIsAlwaysPortable`, `SelectedIsAlwaysOnCard`:
  the same of every run of `StageResume`, through a cache filled by any other
  run. The invariant of the last one says that a run past `Select` has what
  `Choice` gives for the card, which is still there because the player changes
  it between runs only;
* `StageTypeOK`: the types, with what a run holds at each of its steps (`RunOK`:
  a plan that some card gives, the hook it is at, the files still to process);
* `CommittedIsAlwaysFresh`, under `OrderlyHooks` and `SizesTell`;
* `InstallIsOneStep`, under the same: `Spec => InstallsInOneStep`.

`CommittedIsFresh` speaks of one moment; what makes it true has happened over
many runs. The inductive invariant `FreshInv` has four parts. `StageIsOfState`:
whatever lies in the stage is a path of the fingerprint in `state.json`, or was
made by a hook from a plan with that fingerprint, and without `state.json` the
stage is empty; this is why `Prepare` may resume when the fingerprint agrees and
must wipe when it does not, and why `Wipe` empties the stage before it writes
the new state. `StateIsOfRun`: from extraction on, `state.json` is of the
current run. `FilesAreTraced`: while hooks run, each file of the plan is its
extracted content and exactly the stamps of the hooks before the current one, in
order; it starts with `Resumes`, which accepts no file a hook has been over, and
is kept by `SkipHook` because a checkpoint that holds after a fresh extraction
belongs to a hook that rewrites nothing (`SkippedRewritesNothing`).
`MadeAreThere`: at the commit nothing a hook makes is missing. At the commit the
extracted files follow from the trace; the made ones may come from an earlier
run, and `PrintTells` shows that an equal fingerprint means equal contents where
`SizesTell`. The stamps are sequences of any length: `Before`, `Nth` and `Trace`
count the hooks of a file, and `TraceGrows`, `TraceRests` say what one more hook
does, so that no induction over sequences is needed.

`OneStepInv` adds that the plan of a run is the one of the card that is in
(`PlanIsOfCard`), that a run is under way only while the payload has no marker of
this version (`RunIsWanted`), and that a set at its commit passed the checks
(`CommitIsSound`). Then `Commit` is `Installs`, `Adopt` is `Adopts`, `Swap` is
`Meddles`, and every other step leaves card, version and payload alone (`StepIsOneStep`).

## Install run, launcher and game

### State and steps

`InstallRun` has any number of runs (`Run`) in one workspace: `run` (program
counter, outcome, exit status), `owner` of the lock, `result`
(`nxextract-result.json`), `payload` in four values, and per run the setup UI's
process and runtime directory (`dir`: none, open, or left behind for good). `PortSession` adds `sh`, a launcher, and `game`,
the process it starts, for each `l \in Launcher`; the other runs are started by
hand and know nothing of the launcher's lock.

| action | code |
|---|---|
| `Acquire`, `Clear`, `Decide`, `Adopt`, `Work`, `Commit`, `Done`, `Publish`, `Release`, `End` | `WorkspaceLock`, `install_command` and its `finish` |
| `Open`, `SpawnUi`, `Prove`, `Ask`, `Term` | `UISession.start`, `UISession.stop` |
| `Raise`, `Interrupt`, `Die` | the handlers of `install_command`; Ctrl-C; a kill |
| `UiShows`, `UiEnds` | `nxextract-ui`, external |
| `Lock`, `Rotate`, `Extracted`, `Check`, `Splash`, `Spawn`, `CatchUp`, `Wait`, `EndGrace`, `Rewait` | `Chrono Trigger.sh`, from `flock` to its end |
| `Signal`, `Abort` | its traps before and after the game starts |
| `Boot`, `Load`, `Leave`, `Save`, `Exit` | `main.c`: lock and handlers, start-up, end of the loop, `nativeOnPause`, `_exit` |
| `FaultOf`, `Expire` | `ct_shutdown_fault`, `ct_watchdog_thread` |
| `Tick` | a second, counted while somebody waits for a deadline |

Four choices need a word.

* *Exceptions.* An error inside the lock gives the lock back first, then stops
  the UI, then publishes; `Fails` keeps that order, so another run can start
  between those steps. Ctrl-C is no `Exception`: it skips the handlers and the
  rollback, and only `finally` runs.
* *The lock on fd 9* belongs to whoever has the descriptor. The installer
  inherits it, the UI (Python closes descriptors) and the game (`9>&-`) do not:
  `Holds` is the launcher or its installer.
* *What a cleanup leaves.* `UISession.stop` tries once to remove the runtime
  directory, and gives up with a line in the log when the directory is no longer
  its own or does not go (`nxextract.py:4092`-`4131`). `Cleans` has both: it is
  removed, or left at the cost of a mishap (`Abandons`), which an interrupted
  cleanup does too. A rollback may fail as well (`RolledBack`): the payload then
  stays torn until the next run recovers it.
* *Signals.* Before the game is started the traps end the launcher once its
  child in front has ended (bash runs a trap after the foreground command).
  While it waits, a signal passes TERM on and ends the `wait` builtin; or it
  comes between two commands, just before the builtin, and the wait goes on.
  `Signal` has both.

### Runs

| run | instance | what it shows |
|---|---|---|
| `session` | 2 launchers and a run by hand, 2 of them started; 1 mishap, 1 signal each, grace 3, deadline 2 | the invariants and the two liveness properties below |
| `unsaved_exit` | 1 launcher | violation, see Findings |

The invariants are `TornIsOwned`, `SuccessIsTrue` and `UiEndsWithRun` of the
installer and `OneInstallAtATime`, `StartsOnGoodData`, `OneOnScreen`,
`SignalIsPassedOn`, `SaveIsNotCut` and `StatusIsTheGames` of the session; the
liveness properties are `EveryRunEnds` and `RequestIsAnswered`. `UiEndsWithRun` says that a run which returns has no UI process left, and that its
runtime directory is gone or has been given up, never forgotten. Two starts are
all that a lock tells apart, and both pairs (two launchers, a launcher and a run
by hand) are explored. One mishap is an operation that fails, a UI that crashes,
a Ctrl-C, a directory left behind, or a kill of an installer or a launcher. Grace and deadline keep their
order (10 s and 8 s in the code) and the one tick between them; `SaveIsNotCut`
speaks of a game whose main loop saw the request within the difference.

Fairness (`FairSpec`): installers, launchers and clocks go on. Nothing is
assumed of the setup UI, the game or the frontend: a UI that hangs and a game
that never leaves its loop are behaviours of the model.

### Proofs

`InstallRunProofs`, for any number of runs and mishaps: `RunTypeOKHolds`,
`TornIsAlwaysOwned`, `SuccessIsAlwaysTrue`, `UiAlwaysEndsWithRun`. The invariant
(`RunInv`) says of every run that it owns the lock exactly while it is inside it
(`Exclusive`), what its step implies for the payload (`PayloadAt`: torn only
under the run that commits, ready from its publication on), and for its UI
(`UiAt`). `SuccessIsTrue` alone is not inductive: it says nothing of a run
before it succeeds, nor that nobody else may touch the payload then.

`RunAlwaysAdvances` is the part of `EveryRunEnds` that needs no fairness:
`StepsLeft`, at most 33, falls with every step of a run and with everything that
befalls it, an error while it stops its UI or publishes its result included, so
no failure sends a run round in circles. What remains for TLC is that a run
which can go on does.

`PortSessionProofs` lifts `RunInv` to sessions and adds `Exclusion` (one lock on
fd 9, one on the binary), `Staged` (where a launcher is implies where its
installer and its game are), `Told` and `Answered` (what a signal has caused),
and `Timed`: while a launcher waits, the ticks it has left, those by which the
game saw the request late, and those the game has spent of its deadline add up
to at least the grace. From it follow `SessionTypeOK`,
`OneInstallAtATimeAlways`, `StartsOnGoodDataAlways`, `OneOnScreenAlways`,
`SignalIsAlwaysPassedOn`, `SaveIsNeverCut` and `StatusIsAlwaysTheGames`, for
every number of launchers and runs, and any two deadlines of which the game's is
the shorter (`TimeAssumption`).

A session is no behaviour of `RunSpec`: `Rotate` removes the last result when it
starts a run, which `Begin` does not. So what `InstallRun` promises is proved of
sessions again, from the lifted `RunInv`: `TornIsOwnedInSession`,
`SuccessIsTrueInSession`, `UiEndsWithRunInSession` (the three invariants as the
run `session` checks them) and `RunAdvancesInSession`.

## Loader

### State and steps

A library goes through the phases of `nxloader_module`: `EMPTY`, `LOADED`,
`RELOCATED`, `RESOLVED`, `FINALIZED`, `INITIALIZED`, `READY`, with `INITIALIZING`
and `JNI_LOADING` while its own code runs. The loader has one thread and no
lock; what makes it hard is the stack. A phase calls the host's log, alias,
relocation hook and filter, and at the end the guest's initializers and
`JNI_OnLoad`, and each of these may call the loader again. `stack` holds the
calls that have not returned, with where each is: in the loader (`run`), in a
host callback, or in guest code. `active` and `violation` are the two flags by
which the loader knows (`nxloader_callback_begin`, `_guard`, `_end`), and `image`
counts what was written: the relocations of each kind, the hooks, the
protection, the runs of initializers and of `JNI_OnLoad`.

| action | code |
|---|---|
| `Create`, `Destroy`, `InstallHook` | the functions of that name, called from outside or from inside any callback or guest code |
| `Enter` | any function of a phase, past its guard and the check of the phase |
| `Refused` | any function called for a module whose callback is active: refused, and remembered |
| `CallbackBegins`, `CallbackEnds` | `nxloader_callback_begin`, `nxloader_callback_end` around a host callback |
| `Fails` | what is wrong with the file, the imports or the memory; `mprotect` may have sealed some pages before |
| `PublishImage` | the tail of `nxloader_module_load_memory`, before its log |
| `EnterGuest`, `GuestReturns` | the calls of the initializers and of `JNI_OnLoad` |
| `ReturnDone`, `ReturnFailure` | the result of a call and the phase it leaves |

The host is any host that passes live modules, so the order in which
`ct_framework.c` loads libc++ and the game is among its behaviours. What a call
writes is counted when it ends: relocations are collected, validated and
written together (`nxloader_pending_commit`). `touched` is history: that a
callback of this call called the call's own module.

`ImportRegistry` is `nxloader_registry_add_provider`: a table of symbols of one
priority is merged into a copy of the registry offer by offer (`MergeOffer`),
and the copy is published (`PublishTable`) or, on a collision or without memory,
thrown away (`Abandon`). `accepted` is history: all offers of the tables that
were published.

### Runs

| run | instance | what it shows |
|---|---|---|
| `loader` | two libraries, five nested calls | the seven phases with everything nested in them |
| | two names, two addresses, two priorities, weak and strong, tables of two, five accepted offers | every order of competing, repeated and colliding offers |

The two parts share no state, so `MCLoader` moves one of them while the other
is as it was created: nothing is lost, and the states of the two add up instead
of multiplying.

Five nested calls are all there are with two libraries: a library is on the
stack at most once in guest code and once more for a look-up, and the run has
the same states with `MaxDepth` 4. Tables of two symbols contain a symbol that
competes with itself. Deadlock is not checked: the registry stops when
`MaxAccepted` is reached, as a host stops that has no more providers.

`TypeOK` bounds the counters of `image` at 1: in the life of a module each kind
of relocation is written once, although a phase that failed may be tried again,
the initializers run once and `JNI_OnLoad` is entered once. `InUseIsAlive`: no
destroy, from wherever it is called, frees a module that a call on the stack
uses. `GuestIsUndisturbed`: guest code runs in a complete and sealed image and
its phase does not move, although `nxloader_module_call_jni_onload` does not
look at the phase again. `TouchedIsNotPublished` is the promise of `nxloader.h:157`: a call
that one of its callbacks disturbed publishes nothing. `SealedIsNotWritten`:
after the pages are protected no relocation and no hook writes to them.
`RegistryTypeOK` has the rule of `nxloader_registry_invariant`, on which the
binary search relies; `BestOffer` says that the binding of a name is the best
of all accepted offers, in whatever order they came, and `EntriesOnlyRise` that
a later provider only rebinds a name it outranks.

### Proofs

`LoaderProofs` proves every one of these properties for any set of
libraries, any depth, any names, priorities and tables, and beside them
`NobodyElseCallsBack`, why the flag `callback_active` needs no count: `PhasesHappenOnce`,
`CallsKeepTheirModule`, `GuestIsNeverDisturbed`, `OneCallbackAtATime`,
`TouchedIsNeverPublished`, `SealedIsNeverWritten`, `OneEntryPerName`,
`EntriesAreTheBest`, `EntriesOnlyEverRise`. None of them is inductive. The
invariant `LoaderInv` says what the stack can look like: only its last call is
in the loader's own code (`LastRuns`); `active` is set exactly where a callback
is on the stack (`Marks`); above a call there are others of its module only if
it is in guest code, and they are look-ups (`Shadows`); each call finds its
module in the phase it was entered in (`CallsFit`); what a callback did is
remembered or has failed its call (`Noticed`); the image fits the phase
(`Imaged`), and a module that is sealed before its time is in a finalize that
failed (`SealInProgress`). The steps of the innermost call go through two
lemmas, one for those that keep it (`RetopStep`) and one for those that return
(`PopStep`): the calls below it are of other modules or in guest code.
The registry's invariant relates the copy to the offers accepted so far and to
the part of the table already merged.

## Findings

| run | code | what |
|---|---|---|
| `played_before_cleanup` | `nxextract.py:3850` | a cleanup that stopped half way, then a game session that touches a live file: the next run takes the published payload for unpublished and restores a partly deleted backup over it |
| `upgraded_before_cleanup` | `nxextract.py:3620` | a cleanup that stopped half way, then an upgrade of the port: every later run refuses the old journal and the cleanup is never retried |
| `pad_tapped_and_held` | `main.c:194` | tap and press again within a frame: the release of the tap is passed on in the next frame, while the button is held |
| `audio_reset_in_callback` | `opensles_shim.c:207` | a reset while the pump is in the callback: the published head covers cells never written since |
| `unsaved_exit` | `ct_platform.c:126` | a fault inside the save is handled as one after the save: the process says that the save is on disk and exits with status 0 |

## Observations

What the models showed on the way, beside the runs:

* *Audio.* A mono source at exactly the rate of the device takes the path of the
  resampler with a step of 0 (`Step`, `opensles_shim.c:326`): it repeats one
  sample and never ends; `EndIsHeard` fails at once with `Rate = One` and
  `Stereo = FALSE`. A source above 44100 Hz and an underrun give back one frame
  more than was read (`opensles_shim.c:481`): the tail passes the head and the
  ring looks nearly 2^32 bytes full. TLC refutes `UsesWhatItRead` with
  `Rate = 3` and `One = 2`.
  What the engine enqueues between the pump's test for the end and its stop, in
  the callback for HEADATEND or on the game thread, is thrown away with the ring
  (`opensles_shim.c:1366`): `EndCutsNothing` counts it out (`fresh`). Game and
  pump can both be in an Enqueue of one player, although `:643` speaks of a ring
  with one producer; the player is then `torn`.
* *Pad.* The events SDL queues at start-up for pads already plugged in announce
  the pad in the first frame, before the delay of `main.c:448`. START up and
  BACK down between two polls are seen as a chord, because the buttons are
  compared one by one with the older view (`nxinput.c:476`): TLC refutes
  `NxChordIsHeld` with one pad and two queued events. The exit saves the game.
  Two pads share one table of buttons, and a release whose passing on was put
  off still counts for the exit chord (`main.c:195`).
* *Result file.* A run that does not get the workspace lock still publishes its
  error (`nxextract.py:4695`), over the success of the run that had it. The
  launcher then refuses to start; it never starts on data that is not ready
  (`StartsOnGoodData`).
* *Setup UI.* If the UI dies between the publication of the payload and
  `progress.done` (`nxextract.py:4678`), the run reports an error over a payload
  that is installed; the next start finds it ready. Ctrl-C during `ui.stop`
  forgets the process of the UI, or its runtime directory. A directory that has
  lost its identity is left where it is (`nxextract.py:4098`).
* *Recovery.* An error while recovery reads a published payload counts as a bad
  payload (`nxextract.py:3853`; `:3203` makes one of the marker's check), and the
  transaction is rolled back (`:3866`). If the cleanup had not begun, the old
  payload comes back whole and the port installs again. If it had, what is left
  of the backup is renamed over the payload that was reported as installed: one
  kill and one failed read, and neither payload is whole. If such a read fails
  later, in the check of the marker, after a cleanup that could not remove the
  journal, the payload is adopted with a marker of its own while that journal is
  pending: the run reports NXE0002 and the next run rolls the payload back. A
  forced run under a pending journal fills the stage again; a rollback started by
  such a read then meets paths both live and staged, and refuses them. All of this
  is in the model, and the properties of `transaction_safety` end there
  (`misread`).
* *Rename.* `durable_rename` replaces a file that somebody put in its way after
  the test (`nxextract.py:3979` and `:3982`, `:3957` and `:3962`, `:3763` and
  `:3788`); `NothingLost` leaves that moment out.
* *Rollback.* `commit_stage` rolls back on `Exception` (`nxextract.py:4010`), so
  Ctrl-C leaves the transaction to the next run, as a kill does.
* *Selection.* The first search directory with any file ends the search
  (`nxextract.py:2064`), and in `gamedata` every file counts: the `README.txt`
  that the port puts there keeps `.` from ever being searched. Two whole files of
  equal size are one to the fingerprint; base and splits of different versions
  of one package form one set.
* *Stage.* A loose file enters the fingerprint of a plan by its size, without a
  CRC (`nxextract.py:2388`). If it is changed for another of that size between
  two runs, `_prepare_stage_state` keeps the stage; the file itself is compared
  byte by byte and copied again, but what a hook *made* from the old one stays,
  with its record, and is committed, although the log speaks of "discarding
  staged data made for a different recipe or payload" (`nxextract.py:4458`).
  `CommittedIsFresh` is violated so when `SizesTell` is not asked for (two loose
  contents of one size in `MCSize`). The recipe of this port has no hook.
  The mode of a file is set after its rename (`nxextract.py:3359`) and
  not again on resume. A hook orphaned by a kill of the installer goes on beside
  the next run; the recipe of this port has none.
* *Launcher.* A signal between `nxbootstrap_signal_child` and the `wait`
  (`Chrono Trigger.sh:874`) is passed on, but the ten seconds do not start: if
  the game does not end, the launcher waits for ever. `RequestIsAnswered` is
  therefore stated for signals that come before the game or interrupt the wait.
* *Game.* The deadline exits with status 0 over a save that is not finished
  (`ct_platform.c:118`), and the lock of the binary is given back before `_exit`
  (`main.c:637`); `OneOnScreen` leaves that moment out, and no property covers it. A fault inside the save
  is the run `unsaved_exit`.

## What the proofs do not reach

What is proved and not checked by a run: the types of `AudioBridge`, `PadInput`
and `PortSession` (those of `PayloadTransaction` are part of `AInv`),
`NobodyElseCallsBack` of the loader, `ChoiceIsPortable`, `SelectedIsOnCard` and
`RunAdvances` of the installer. TLC agreed with each of them before it was proved.

Liveness under fairness (`CleanupRetries`, `EndIsHeard`, `GoodSourceInstalls`,
`EveryRunEnds`, `RequestIsAnswered`) is checked by TLC on the small instances
only, as is everything said with ENABLED; of `EveryRunEnds` the half that needs
neither is proved. Nothing is proved by induction over
data; no module has a RECURSIVE operator. The proofs assume the named
assumptions of the constants and, where the text says so, `Rate <= One`, or `OneAbi` and `PlainRules`, or `OrderlyHooks` and `SizesTell`.

## Not modelled

* Journals of versions 1.2.0 to 1.2.5; the bytes of archives, manifests and
  string pools; the validation of the recipe itself; the commands `plan`,
  `scan` and `verify`, which change nothing; the logs.
* The renderer of the setup UI, a binary without sources.
* Sticks, the menu cursor and the keyboard of the pad code.
* In the audio bridge: the queue of buffer sizes, positions, volume and fades,
  incomplete frames, opening and closing the device and with it the second pump
  thread.
* In the launcher: path discovery, PortMaster's functions, phase records, the
  splash's own failure handling. In the game: what runs between two frames.
* In the loader: the parsing of ELF files, the arithmetic of relocations and
  trampolines, the binary search and the sort of names, which are functions of
  their input; the look-up of one module's exports for another; calls from
  two threads, which `ct_framework.c` does not make.
* JNI bridge, graphics, capability registry: see the plan.
* `nxaudio`'s streams, which the port never opens; text, language, assets,
  packaging, tools and tests, which keep no state.

## Plan

Done, in the order of what a player can lose: payload transaction, pad input,
audio bridge, the choice of sources and the stage, install run, launcher and
game, loader. What is left, each with the question its run asks:

1. `AudioBridge`: the queue of sizes and its count, the life of the device, the
   second pump; a player that ended and is played again.
2. `PayloadTransaction`: journals of older versions.
3. `GraphicsOpen`: the candidates of `nxgl_sdl2.c` and what is cleaned up after
   one that failed; the generations of receipts in `nxcompat`.

Theorems after that: those of the new modules, and a measure for the runs of
`StageResume` like `StepsLeft`.
