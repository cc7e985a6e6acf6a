------------------------------ MODULE InstallRun ------------------------------
(***************************************************************************)
(* One or more runs of "nxextract.py install" in one workspace: the lock,  *)
(* the setup UI each run starts and must end, the terminal result, and     *)
(* what becomes of them when a run raises, is interrupted or is killed.    *)
(*                                                                         *)
(* The payload is one value here (PayloadTransaction has its files):       *)
(* "bad" (missing or of another version), "unmarked" (good, without a      *)
(* marker), "torn" (a commit is under way) or "ready".  The setup UI is    *)
(* mandatory (run-extractor.sh); its program is external: it shows itself, *)
(* ends or hangs.                                                          *)
(***************************************************************************)
EXTENDS Naturals

CONSTANTS Run,       \* runs of the installer
          NoRun,     \* nobody
          NoResult,  \* nxextract-result.json does not exist
          NoExit,    \* the run has not ended
          MaxMishaps \* bound: operations that fail, UIs that crash, processes
                     \* killed or interrupted

ASSUME NoRunAssumption == NoRun \notin Run
ASSUME NoExitAssumption == NoExit \notin Nat
ASSUME MaxMishapsAssumption == MaxMishaps \in Nat

VARIABLES run, owner, result, payload, ui, dir, mishaps

runVars == <<run, owner, result, payload, ui, dir, mishaps>>
-----------------------------------------------------------------------------
Ends == 0..255

(* Inside "with WorkspaceLock", and stopping the UI.                       *)
Locked == {"clear", "decide", "open", "spawn", "prove", "adopt", "work",
           "commit", "done"}

Stopping == {"ask", "term"}

Active == Locked \cup Stopping \cup {"lock", "publish", "release", "end"}

RunInit == /\ run = [r \in Run |-> [pc |-> "new", outcome |-> "none", exit |-> NoExit]]
           /\ owner = NoRun
           /\ result = NoResult
           /\ payload \in {"bad", "unmarked", "torn", "ready"}
           /\ ui = [r \in Run |-> "none"]
           /\ dir = [r \in Run |-> "none"]
           /\ mishaps = 0

Goes(r, pc) == run' = [run EXCEPT ![r].pc = pc]

Reports(r, pc, outcome) ==
    run' = [run EXCEPT ![r].pc = pc, ![r].outcome = outcome]

Unlocked(r) == IF owner = r THEN NoRun ELSE owner

(* The payload when commit_stage is left by an exception, which its        *)
(* rollback may raise anew.                                                *)
RolledBack(r) == IF run[r].pc = "commit" THEN {"bad", "torn"} ELSE {payload}

Steady == UNCHANGED mishaps

Mishap == mishaps < MaxMishaps /\ mishaps' = mishaps + 1
-----------------------------------------------------------------------------
Begin(r) == /\ run[r].pc = "new"
            /\ Goes(r, "lock")
            /\ UNCHANGED <<owner, result, payload, ui, dir>> /\ Steady

(* Mutant: the lock is not asked.                                          *)
AcquireBusy(r) == /\ run[r].pc = "lock"
                  /\ owner' = r /\ Goes(r, "clear")
                  /\ UNCHANGED <<result, payload, ui, dir>> /\ Steady

(* WorkspaceLock.__enter__: LOCK_NB, a second run fails at once.           *)
Acquire(r) == /\ run[r].pc = "lock"
              /\ IF owner = NoRun
                 THEN owner' = r /\ Goes(r, "clear")
                 ELSE Reports(r, "publish", "error") /\ UNCHANGED owner
              /\ UNCHANGED <<result, payload, ui, dir>> /\ Steady

Clear(r) == /\ run[r].pc = "clear"
            /\ result' = NoResult
            /\ Goes(r, "decide")
            /\ UNCHANGED <<owner, payload, ui, dir>> /\ Steady

(* Mutant: the marker is looked at before the recovery.                    *)
DecideFirst(r) == /\ run[r].pc = "decide"
                  /\ IF payload \in {"ready", "torn"} THEN Reports(r, "publish", "success")
                                                     ELSE Goes(r, "open")
                  /\ UNCHANGED <<owner, result, payload, ui, dir>> /\ Steady

(* recover_transaction, marker_fast_valid.                                 *)
Decide(r) == /\ run[r].pc = "decide"
             /\ payload' = IF payload = "torn" THEN "bad" ELSE payload
             /\ IF payload = "ready" THEN Reports(r, "publish", "success")
                                     ELSE Goes(r, "open")
             /\ UNCHANGED <<owner, result, ui, dir>> /\ Steady

(* UISession.start.                                                        *)
Open(r) == /\ run[r].pc = "open"
           /\ dir' = [dir EXCEPT ![r] = "open"]
           /\ Goes(r, "spawn")
           /\ UNCHANGED <<owner, result, payload, ui>> /\ Steady

SpawnUi(r) == /\ run[r].pc = "spawn"
              /\ ui' = [ui EXCEPT ![r] = "hidden"]
              /\ Goes(r, "prove")
              /\ UNCHANGED <<owner, result, payload, dir>> /\ Steady

(* What an exception does: the lock goes with the "with" block, the        *)
(* handler stops the UI if there is a process, and only then reports.      *)
Fails(r) == /\ Reports(r, IF ui[r] = "none" \/ run[r].pc = "publish"
                          THEN "publish" ELSE "ask", "error")
            /\ owner' = Unlocked(r)
            /\ payload' \in RolledBack(r)
            /\ UNCHANGED <<result, ui, dir>>

(* The proof of a visible renderer; the child has died, or 40 s are over.  *)
Prove(r) == /\ run[r].pc = "prove"
            /\ IF ui[r] = "shown"
               THEN Goes(r, "adopt") /\ UNCHANGED <<owner, result, payload, ui, dir>>
               ELSE Fails(r)
            /\ Steady

(* try_adopt_existing.                                                     *)
Adopt(r) == /\ run[r].pc = "adopt"
            /\ IF payload = "unmarked"
               THEN payload' = "ready" /\ Reports(r, "ask", "success")
               ELSE Goes(r, "work") /\ UNCHANGED payload
            /\ UNCHANGED <<owner, result, ui, dir>> /\ Steady

(* Every progress update asks whether the UI is still there.               *)
Guarded(r, step) == IF ui[r] = "gone" THEN Fails(r) ELSE step

Work(r) == /\ run[r].pc = "work"
           /\ Guarded(r, /\ payload' = "torn" /\ Goes(r, "commit")
                         /\ UNCHANGED <<owner, result, ui, dir>>)
           /\ Steady

(* commit_stage publishes; nothing inside asks for the UI after that.      *)
Commit(r) == /\ run[r].pc = "commit"
             /\ payload' = "ready" /\ Goes(r, "done")
             /\ UNCHANGED <<owner, result, ui, dir>> /\ Steady

(* progress.done asks once more, over a payload that is already live.      *)
Done(r) == /\ run[r].pc = "done"
           /\ Guarded(r, /\ Reports(r, "ask", "success")
                         /\ UNCHANGED <<owner, result, payload, ui, dir>>)
           /\ Steady

(* _cleanup_runtime: done once; a directory that has lost its identity or  *)
(* that cannot be removed is left, with a line in the log.                 *)
Abandons(r) == dir[r] = "open" /\ dir' = [dir EXCEPT ![r] = "left"]

Cleans(r) == \/ dir' = [dir EXCEPT ![r] = IF @ = "open" THEN "none" ELSE @] /\ Steady
             \/ Abandons(r) /\ Mishap

(* UISession.stop: the stop file and 3 s, SIGTERM and 1 s, SIGKILL; then   *)
(* the runtime directory.                                                  *)
Stopped(r) == /\ Goes(r, IF run[r].outcome = "none" THEN "end" ELSE "publish")
              /\ Cleans(r)

(* Mutant: SIGTERM has to do.                                              *)
TermTrusted(r) == /\ run[r].pc = "term"
                  /\ Stopped(r)
                  /\ UNCHANGED <<owner, result, payload, ui>>

(* Mutant: no SIGKILL.                                                     *)
TermPatient(r) == /\ run[r].pc = "term" /\ ui[r] = "gone"
                  /\ Stopped(r)
                  /\ UNCHANGED <<owner, result, payload, ui>>

Ask(r) == /\ run[r].pc = "ask"
          /\ IF ui[r] = "gone" THEN Stopped(r)
                             ELSE Goes(r, "term") /\ UNCHANGED dir /\ Steady
          /\ UNCHANGED <<owner, result, payload, ui>>

Term(r) == /\ run[r].pc = "term"
           /\ Stopped(r) /\ ui' = [ui EXCEPT ![r] = "gone"]
           /\ UNCHANGED <<owner, result, payload>>

(* finish, by the owner or by the handler.                                 *)
Publish(r) == /\ run[r].pc = "publish"
              /\ result' = run[r].outcome
              /\ Goes(r, IF run[r].outcome = "success" THEN "release" ELSE "end")
              /\ UNCHANGED <<owner, payload, ui, dir>> /\ Steady

Release(r) == /\ run[r].pc = "release"
              /\ owner' = NoRun
              /\ Goes(r, "end")
              /\ UNCHANGED <<result, payload, ui, dir>> /\ Steady

(* The finally clause of install_command.                                  *)
End(r) == /\ run[r].pc = "end"
          /\ run' = [run EXCEPT ![r].pc = "over",
                                ![r].exit = CASE run[r].outcome = "success" -> 0
                                              [] run[r].outcome = "error" -> 1
                                              [] OTHER -> 130]
          /\ Cleans(r)
          /\ UNCHANGED <<owner, result, payload, ui>>

RunStep(r) == \/ Acquire(r) \/ Clear(r) \/ Decide(r) \/ Open(r) \/ SpawnUi(r)
              \/ Prove(r) \/ Adopt(r) \/ Work(r) \/ Commit(r) \/ Done(r)
              \/ Ask(r) \/ Term(r) \/ Publish(r) \/ Release(r) \/ End(r)
-----------------------------------------------------------------------------
(* Any operation fails; the last publication may fail quietly.             *)
Raise(r) == /\ Mishap
            /\ \/ run[r].pc \in Locked /\ Fails(r)
               \/ /\ run[r].pc = "publish"
                  /\ \/ run[r].outcome = "success" /\ Fails(r)
                     \/ /\ run[r].outcome = "error" /\ Goes(r, "end")
                        /\ UNCHANGED <<owner, result, payload, ui, dir>>

(* SIGINT: neither a handler nor the rollback of commit_stage catches it;  *)
(* the lock goes, finally stops the UI.  In a stop the process is          *)
(* forgotten, in its cleanup the directory.                                *)
Interrupt(r) ==
    /\ Mishap
    /\ run[r].pc \in Locked \cup Stopping \cup {"publish"}
    /\ owner' = Unlocked(r)
    /\ Reports(r, IF run[r].pc \notin Locked \/ ui[r] = "none" THEN "end" ELSE "ask", "none")
    /\ UNCHANGED dir \/ (run[r].pc \in Stopping /\ Abandons(r))
    /\ UNCHANGED <<result, payload, ui>>

(* SIGTERM or SIGKILL: the kernel frees the lock.                          *)
Die(r) == /\ Mishap
          /\ run[r].pc \in Active
          /\ run' = [run EXCEPT ![r].pc = "over", ![r].exit = 137]
          /\ owner' = Unlocked(r)
          /\ UNCHANGED <<result, payload, ui, dir>>

(* The UI (external).                                                      *)
UiShows(r) == /\ ui[r] = "hidden" /\ ui' = [ui EXCEPT ![r] = "shown"]
              /\ UNCHANGED <<run, owner, result, payload, dir>> /\ Steady

UiEnds(r) == /\ ui[r] \in {"hidden", "shown"}
             /\ ui' = [ui EXCEPT ![r] = "gone"]
             /\ IF run[r].pc \in Stopping THEN Steady ELSE Mishap
             /\ UNCHANGED <<run, owner, result, payload, dir>>

Strikes(r) == Raise(r) \/ Interrupt(r) \/ Die(r)

Ui(r) == UiShows(r) \/ UiEnds(r)

RunNext == \E r \in Run : Begin(r) \/ RunStep(r) \/ Strikes(r) \/ Ui(r)

RunSpec == RunInit /\ [][RunNext]_runVars
-----------------------------------------------------------------------------
RunTypeOK ==
    /\ run \in [Run -> [pc : Active \cup {"new", "over"},
                        outcome : {"none", "success", "error"},
                        exit : Ends \cup {NoExit}]]
    /\ owner \in Run \cup {NoRun}
    /\ result \in {"success", "error", NoResult}
    /\ payload \in {"bad", "unmarked", "torn", "ready"}
    /\ ui \in [Run -> {"none", "hidden", "shown", "gone"}]
    /\ dir \in [Run -> {"none", "open", "left"}]
    /\ mishaps \in 0..MaxMishaps

(* The payload is only ever in pieces while its run is committing it, or   *)
(* after that run was killed there; no other run sees it so: recovery      *)
(* comes first (WorkspaceLock, recover_transaction).                       *)
TornIsOwned ==
    \A r \in Run : run[r].pc \in {"open", "spawn", "prove", "adopt", "work", "done"} =>
        owner = r /\ payload # "torn"

(* A run that reports success leaves a payload that is ready, whatever     *)
(* other runs do meanwhile.                                                *)
SuccessIsTrue == \A r \in Run :
    run[r].pc \in {"publish", "release", "end", "over"} /\ run[r].outcome = "success"
        => payload = "ready"

(* A run that returns leaves no UI on the screen, and no runtime directory *)
(* it has not tried to remove, also when the UI hangs or its start failed  *)
(* half way (UISession.stop).                                              *)
UiEndsWithRun == \A r \in Run :
    /\ run[r].exit \in {0, 1} => ui[r] \in {"none", "gone"}
    /\ run[r].exit \in {0, 1, 130} => dir[r] # "open"

(* How far a run is, and a bound on the steps it still takes.              *)
Place(pc) == CASE pc = "new" -> 0 [] pc = "lock" -> 1 [] pc = "clear" -> 2
               [] pc = "decide" -> 3 [] pc = "open" -> 4 [] pc = "spawn" -> 5
               [] pc = "prove" -> 6 [] pc = "adopt" -> 7 [] pc = "work" -> 8
               [] pc = "commit" -> 9 [] pc = "done" -> 10 [] pc = "ask" -> 11
               [] pc = "term" -> 12 [] pc = "publish" -> 13 [] pc = "release" -> 14
               [] pc = "end" -> 15 [] OTHER -> 16

StepsLeft(x) == 2 * (16 - Place(x.pc)) + (IF x.outcome = "success" THEN 1 ELSE 0)

(* Nothing a run does or meets takes it back: no failure, interruption or  *)
(* UI that ends sends it round again, not even one while it stops its UI   *)
(* or publishes its result (install_command).                              *)
RunAdvances == [][\A r \in Run : run'[r] # run[r] =>
                     StepsLeft(run'[r]) < StepsLeft(run[r])]_runVars
=============================================================================
