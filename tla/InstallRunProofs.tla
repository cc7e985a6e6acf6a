--------------------------- MODULE InstallRunProofs ---------------------------
(***************************************************************************)
(* The invariants of InstallRun, for any number of runs and of mishaps.    *)
(*                                                                         *)
(* None of them is inductive: that no run sees a payload in pieces, or     *)
(* that a success stays true, rests on who has the lock at which step, and *)
(* that no UI is left on which steps have a UI.  Good collects this for    *)
(* one run; every step keeps Good for its own run and for the others.      *)
(***************************************************************************)
EXTENDS InstallRun, TLAPS

(* The steps that only the owner of the lock takes, and what the payload   *)
(* is then.                                                                *)
Exclusive(k) ==
    /\ run[k].pc \in {"new", "lock"} \cup Locked => run[k].outcome = "none"
    /\ run[k].pc \in Locked => owner = k
    /\ run[k].outcome = "success" /\ run[k].pc \in {"ask", "term", "publish", "release"}
           => owner = k
    /\ run[k].pc = "publish" => run[k].outcome # "none"
    /\ run[k].pc = "release" => run[k].outcome = "success"

PayloadAt(k) ==
    /\ run[k].outcome = "success" => payload = "ready"
    /\ run[k].pc \in {"open", "spawn", "prove", "adopt", "work"}
           => payload \in {"bad", "unmarked"}
    /\ run[k].pc = "commit" => payload = "torn"
    /\ run[k].pc = "done" => payload = "ready"

(* Which steps have a UI and a runtime directory, and how a run ends.      *)
UiAt(k) ==
    /\ run[k].pc \in {"new", "lock", "clear", "decide", "open", "spawn"} => ui[k] = "none"
    /\ run[k].pc \in {"publish", "release", "end", "over"}
         /\ run[k].outcome # "none" /\ run[k].exit # 137
           => ui[k] \in {"none", "gone"}
    /\ run[k].exit # NoExit <=> run[k].pc = "over"
    /\ run[k].exit = 0 => run[k].outcome = "success"
    /\ run[k].exit = 1 => run[k].outcome = "error"
    /\ run[k].pc = "over" /\ run[k].exit # 137 => dir[k] # "open"

Good(k) == Exclusive(k) /\ PayloadAt(k) /\ UiAt(k)

RunInv == RunTypeOK /\ \A k \in Run : Good(k)
-----------------------------------------------------------------------------
LEMMA InitGood == RunInit => RunInv
BY NoRunAssumption, NoExitAssumption, MaxMishapsAssumption
   DEF RunInit, RunInv, RunTypeOK, Good, Exclusive, PayloadAt, UiAt, Active, Locked,
       Stopping, Ends

Pc == Active \cup {"new", "over"}

Runs == [Run -> [pc : Pc, outcome : {"none", "success", "error"},
                 exit : Ends \cup {NoExit}]]

LEMMA PcSet ==
  ASSUME run \in Runs, NEW r \in Run, NEW pc \in Pc
  PROVE  [run EXCEPT ![r].pc = pc] \in Runs
BY DEF Runs

LEMMA OutcomeSet ==
  ASSUME run \in Runs, NEW r \in Run, NEW pc \in Pc,
         NEW outcome \in {"none", "success", "error"}
  PROVE  [run EXCEPT ![r].pc = pc, ![r].outcome = outcome] \in Runs
BY DEF Runs

LEMMA ExitSet ==
  ASSUME run \in Runs, NEW r \in Run, NEW exit \in Ends
  PROVE  [run EXCEPT ![r].pc = "over", ![r].exit = exit] \in Runs
BY DEF Runs, Pc

(* A step changes the entries of its own run alone.                        *)
LEMMA RunsStep ==
  ASSUME run \in Runs, NEW r \in Run,
         Begin(r) \/ RunStep(r) \/ Strikes(r) \/ Ui(r)
  PROVE  run' \in Runs
<1>1. \A pc \in Pc : Goes(r, pc) => run' \in Runs
  BY PcSet DEF Goes
<1>2. \A pc \in Pc : \A outcome \in {"none", "success", "error"} :
          Reports(r, pc, outcome) => run' \in Runs
  <2> TAKE pc \in Pc
  <2> TAKE outcome \in {"none", "success", "error"}
  <2>1. [run EXCEPT ![r].pc = pc, ![r].outcome = outcome] \in Runs
    BY OutcomeSet
  <2> QED BY <2>1 DEF Reports
<1>3. \A exit \in Ends :
          run' = [run EXCEPT ![r].pc = "over", ![r].exit = exit] => run' \in Runs
  BY ExitSet
<1>4. Fails(r) => run' \in Runs
  BY <1>2 DEF Fails, Pc, Active, Stopping
<1>5. Stopped(r) => run' \in Runs
  BY <1>1 DEF Stopped, Pc, Active
<1>11. CASE End(r)
  <2>1. PICK exit \in {0, 1, 130} :
          run' = [run EXCEPT ![r].pc = "over", ![r].exit = exit]
    BY <1>11 DEF End
  <2>2. exit \in Ends
    BY DEF Ends
  <2> QED BY <2>1, <2>2, <1>3
<1>14. CASE Die(r)
  <2>1. 137 \in Ends
    BY DEF Ends
  <2>2. run' = [run EXCEPT ![r].pc = "over", ![r].exit = 137]
    BY <1>14 DEF Die
  <2> QED BY <2>1, <2>2, <1>3
<1> USE <1>1, <1>2, <1>3, <1>4, <1>5 DEF Pc, Active, Locked, Stopping
<1>7. CASE Begin(r) \/ Acquire(r) \/ Clear(r) \/ Decide(r) \/ Open(r) \/ SpawnUi(r)
  BY <1>7 DEF Begin, Acquire, Clear, Decide, Open, SpawnUi
<1>8. CASE Prove(r) \/ Adopt(r)
  BY <1>8 DEF Prove, Adopt
<1>9. CASE Work(r) \/ Done(r)
  BY <1>9 DEF Work, Done, Guarded
<1>10. CASE Commit(r) \/ Ask(r) \/ Term(r) \/ Publish(r) \/ Release(r)
  BY <1>10 DEF Commit, Ask, Term, Publish, Release
<1>12. CASE Raise(r)
  BY <1>12 DEF Raise
<1>13. CASE Interrupt(r)
  BY <1>13 DEF Interrupt
<1>15. CASE Ui(r)
  BY <1>15 DEF Ui, UiShows, UiEnds
<1> QED
  BY <1>7, <1>8, <1>9, <1>10, <1>11, <1>12, <1>13, <1>14, <1>15 DEF RunStep, Strikes

(* Every variable keeps its type; a run that reports has an outcome.       *)
LEMMA TypeStep ==
  ASSUME RunInv, NEW r \in Run,
         Begin(r) \/ RunStep(r) \/ Strikes(r) \/ Ui(r)
  PROVE  RunTypeOK'
<1>0. RunTypeOK
  BY DEF RunInv
<1> USE <1>0
<1>1. run \in Runs
  BY DEF RunTypeOK, Runs, Pc
<1>2. run' \in Runs
  BY <1>1, RunsStep
<1>3. mishaps' \in 0..MaxMishaps
  <2>1. Steady \/ Mishap
    BY DEF RunStep, Strikes, Ui, Begin, Acquire, Clear, Decide, Open, SpawnUi, Prove, Adopt,
         Work, Commit, Done, Ask, Term, Publish, Release, End, Raise, Interrupt, Die,
         UiShows, UiEnds, Stopped, Cleans
  <2> QED BY <2>1, MaxMishapsAssumption DEF RunTypeOK, Steady, Mishap
<1>4. owner' \in Run \cup {NoRun}
  BY DEF RunTypeOK, RunStep, Strikes, Ui, Begin, Acquire, Clear, Decide, Open, SpawnUi,
         Prove, Adopt, Work, Commit, Done, Ask, Term, Publish, Release, End, Raise,
         Interrupt, Die, UiShows, UiEnds, Guarded, Fails, Unlocked
<1>5. result' \in {"success", "error", NoResult} 
  <2>1. run[r].outcome \in {"success", "error", "none"}
    BY <1>1 DEF Runs
  <2>2. CASE Publish(r)
    <3>1. run[r].outcome # "none"
      BY <2>2 DEF Publish, RunInv, Good, Exclusive
    <3>2. result' = run[r].outcome
      BY <2>2 DEF Publish
    <3> QED BY <2>1, <3>1, <3>2
  <2> QED
    BY <2>2 DEF RunTypeOK, RunStep, Strikes, Ui, Begin, Acquire, Clear, Decide, Open,
         SpawnUi, Prove, Adopt, Work, Commit, Done, Ask, Term, Release, End, Raise,
         Interrupt, Die, UiShows, UiEnds, Guarded, Fails
<1>6. payload' \in {"bad", "unmarked", "torn", "ready"}
  BY DEF RunTypeOK, RunStep, Strikes, Ui, Begin, Acquire, Clear, Decide, Open, SpawnUi,
         Prove, Adopt, Work, Commit, Done, Ask, Term, Publish, Release, End, Raise,
         Interrupt, Die, UiShows, UiEnds, Guarded, Fails, RolledBack
<1>7. ui' \in [Run -> {"none", "hidden", "shown", "gone"}]
  BY DEF RunTypeOK, RunStep, Strikes, Ui, Begin, Acquire, Clear, Decide, Open, SpawnUi,
         Prove, Adopt, Work, Commit, Done, Ask, Term, Publish, Release, End, Raise,
         Interrupt, Die, UiShows, UiEnds, Guarded, Fails
<1>8. dir' \in [Run -> {"none", "open", "left"}]
  BY DEF RunTypeOK, RunStep, Strikes, Ui, Begin, Acquire, Clear, Decide, Open, SpawnUi,
         Prove, Adopt, Work, Commit, Done, Ask, Term, Publish, Release, End, Raise,
         Interrupt, Die, UiShows, UiEnds, Guarded, Fails, Stopped, Cleans, Abandons
<1> QED BY <1>2, <1>3, <1>4, <1>5, <1>6, <1>7, <1>8 DEF RunTypeOK, Runs, Pc

LEMMA GoodStep ==
  ASSUME RunInv, NEW r \in Run, NEW k \in Run,
         Begin(r) \/ RunStep(r) \/ Strikes(r) \/ Ui(r)
  PROVE  Good(k)'
<1> USE NoRunAssumption, NoExitAssumption
    DEF RunInv, RunTypeOK, Good, Exclusive, PayloadAt, UiAt, Active, Locked, Stopping,
        Ends, Steady, Goes
<1>1. CASE Begin(r)
  BY <1>1 DEF Begin
<1>2. CASE Acquire(r)
  BY <1>2 DEF Acquire, Reports
<1>3. CASE Clear(r)
  BY <1>3 DEF Clear
<1>4. CASE Decide(r)
  BY <1>4 DEF Decide, Reports
<1>5. CASE Open(r)
  BY <1>5 DEF Open
<1>6. CASE SpawnUi(r)
  BY <1>6 DEF SpawnUi
<1>7. CASE Prove(r)
  BY <1>7 DEF Prove, Fails, Reports, Unlocked, RolledBack
<1>8. CASE Adopt(r)
  BY <1>8 DEF Adopt, Reports
<1>9. CASE Work(r)
  BY <1>9 DEF Work, Guarded, Fails, Reports, Unlocked, RolledBack
<1>10. CASE Commit(r)
  BY <1>10 DEF Commit
<1>11. CASE Done(r)
  BY <1>11 DEF Done, Guarded, Fails, Reports, Unlocked, RolledBack
<1>12. CASE Ask(r)
  BY <1>12 DEF Ask, Stopped, Cleans, Abandons, Mishap
<1>13. CASE Term(r)
  BY <1>13 DEF Term, Stopped, Cleans, Abandons, Mishap
<1>14. CASE Publish(r)
  BY <1>14 DEF Publish
<1>15. CASE Release(r)
  BY <1>15 DEF Release
<1>16. CASE End(r)
  BY <1>16 DEF End, Cleans, Abandons, Mishap
<1>17. CASE Raise(r)
  BY <1>17 DEF Raise, Fails, Reports, Unlocked, RolledBack, Mishap
<1>18. CASE Interrupt(r)
  <2>1. PICK pc \in {"end", "ask"} :
          /\ run' = [run EXCEPT ![r].pc = pc, ![r].outcome = "none"]
          /\ pc = "end" => run[r].pc \notin Locked \/ ui[r] = "none"
    BY <1>18 DEF Interrupt, Reports
  <2>2. /\ run[r].pc \in Active /\ UNCHANGED <<payload, ui>>
        /\ UNCHANGED dir \/ dir' = [dir EXCEPT ![r] = "left"]
    BY <1>18 DEF Interrupt, Abandons
  <2>3. owner' = IF owner = r THEN NoRun ELSE owner
    BY <1>18 DEF Interrupt, Unlocked
  <2>4. CASE k = r
    BY <2>1, <2>2, <2>3, <2>4
  <2>5. CASE k # r
    <3>1. run'[k] = run[k]
      BY <2>1, <2>5
    <3> QED
      BY <2>2, <2>3, <2>5, <3>1
  <2> QED
    BY <2>4, <2>5
<1>19. CASE Die(r)
  BY <1>19 DEF Die, Unlocked, Mishap
<1>20. CASE UiShows(r)
  BY <1>20 DEF UiShows
<1>21. CASE UiEnds(r)
  BY <1>21 DEF UiEnds, Mishap
<1> QED
  BY <1>1, <1>2, <1>3, <1>4, <1>5, <1>6, <1>7, <1>8, <1>9, <1>10, <1>11, <1>12, <1>13, <1>14, <1>15, <1>16, <1>17, <1>18, <1>19, <1>20, <1>21
     DEF RunStep, Strikes, Ui

LEMMA InvStep == RunInv /\ [RunNext]_runVars => RunInv'
<1> SUFFICES ASSUME RunInv, [RunNext]_runVars PROVE RunInv'
  OBVIOUS
<1>1. CASE UNCHANGED runVars
  BY <1>1 DEF runVars, RunInv, RunTypeOK, Good, Exclusive, PayloadAt, UiAt
<1>2. CASE RunNext
  <2>1. PICK r \in Run : Begin(r) \/ RunStep(r) \/ Strikes(r) \/ Ui(r)
    BY <1>2 DEF RunNext
  <2>2. RunTypeOK'
    BY <2>1, TypeStep DEF RunInv
  <2>3. \A k \in Run : Good(k)'
    BY <2>1, GoodStep
  <2> QED BY <2>2, <2>3 DEF RunInv
<1> QED BY <1>1, <1>2

LEMMA InvHolds == RunSpec => []RunInv
<1> QED BY InitGood, InvStep, PTL DEF RunSpec
-----------------------------------------------------------------------------
LEMMA GoodGives ==
  ASSUME RunInv
  PROVE  TornIsOwned /\ SuccessIsTrue /\ UiEndsWithRun
<1>1. TornIsOwned
  BY DEF RunInv, Good, Exclusive, PayloadAt, TornIsOwned, Locked
<1>2. SuccessIsTrue
  BY DEF RunInv, Good, PayloadAt, SuccessIsTrue
<1>3. UiEndsWithRun
  BY NoExitAssumption DEF RunInv, Good, UiAt, UiEndsWithRun
<1> QED BY <1>1, <1>2, <1>3

(* Every variable keeps its type.                                          *)
THEOREM RunTypeOKHolds == RunSpec => []RunTypeOK
<1>1. RunInv => RunTypeOK
  BY DEF RunInv
<1> QED BY <1>1, InvHolds, PTL

(* No run looks at, builds on or reports a payload that a commit left in   *)
(* pieces, however many runs are started, interrupted or killed            *)
(* (WorkspaceLock, recover_transaction).                                   *)
THEOREM TornIsAlwaysOwned == RunSpec => []TornIsOwned
<1>1. RunInv => TornIsOwned
  BY GoodGives
<1> QED BY <1>1, InvHolds, PTL

(* A run whose outcome is success has published a payload that is ready.   *)
THEOREM SuccessIsAlwaysTrue == RunSpec => []SuccessIsTrue
<1>1. RunInv => SuccessIsTrue
  BY GoodGives
<1> QED BY <1>1, InvHolds, PTL

(* A run that returns has ended its UI, and has removed its runtime        *)
(* directory or failed to (_cleanup_runtime).                              *)
THEOREM UiAlwaysEndsWithRun == RunSpec => []UiEndsWithRun
<1>1. RunInv => UiEndsWithRun
  BY GoodGives
<1> QED BY <1>1, InvHolds, PTL
-----------------------------------------------------------------------------
LEMMA PlaceIsNat == \A pc \in Pc : Place(pc) \in 0..16
BY DEF Pc, Active, Locked, Stopping, Place

(* A step to a later place, or one that gives up a success, is progress.   *)
LEMMA LaterIsLess ==
  ASSUME run \in Runs, run' \in Runs, NEW k \in Run,
         \/ Place(run[k].pc) < Place(run'[k].pc)
         \/ run'[k].pc = run[k].pc /\ run[k].outcome = "success" /\ run'[k].outcome # "success"
  PROVE  StepsLeft(run'[k]) < StepsLeft(run[k])
<1>1. Place(run[k].pc) \in 0..16 /\ Place(run'[k].pc) \in 0..16
  BY PlaceIsNat DEF Runs
<1> QED BY <1>1 DEF StepsLeft

LEMMA StepAdvances ==
  ASSUME RunInv, NEW r \in Run, NEW k \in Run, run'[k] # run[k],
         Begin(r) \/ RunStep(r) \/ Strikes(r) \/ Ui(r)
  PROVE  StepsLeft(run'[k]) < StepsLeft(run[k])
<1>1. run \in Runs
  BY DEF RunInv, RunTypeOK, Runs, Pc
<1>2. run' \in Runs
  BY <1>1, RunsStep
<1>3. SUFFICES \/ Place(run[k].pc) < Place(run'[k].pc)
               \/ /\ run'[k].pc = run[k].pc
                  /\ run[k].outcome = "success" /\ run'[k].outcome # "success"
  BY <1>1, <1>2, LaterIsLess
<1> USE <1>1 DEF Runs, Goes, Reports, Place
<1>4. CASE Begin(r) \/ Acquire(r) \/ Clear(r) \/ Decide(r) \/ Open(r) \/ SpawnUi(r)
  BY <1>4 DEF Begin, Acquire, Clear, Decide, Open, SpawnUi
<1>5. CASE Prove(r) \/ Adopt(r)
  BY <1>5 DEF Prove, Adopt, Fails
<1>6. CASE Work(r) \/ Commit(r) \/ Done(r)
  BY <1>6 DEF Work, Commit, Done, Guarded, Fails
<1>7. CASE Ask(r) \/ Term(r)
  BY <1>7 DEF Ask, Term, Stopped
<1>8. CASE Publish(r) \/ Release(r) \/ End(r)
  BY <1>8 DEF Publish, Release, End
<1>9. CASE Raise(r)
  BY <1>9 DEF Raise, Fails, Locked
<1>10. CASE Interrupt(r)
  <2>1. PICK pc \in {"end", "ask"} :
          /\ run' = [run EXCEPT ![r].pc = pc, ![r].outcome = "none"]
          /\ pc = "ask" => run[r].pc \in Locked
    BY <1>10 DEF Interrupt
  <2>2. run[r].pc \in Locked \cup Stopping \cup {"publish"}
    BY <1>10 DEF Interrupt
  <2>3. Place(run[r].pc) < Place(pc)
    BY <2>1, <2>2 DEF Locked, Stopping
  <2>4. k = r /\ run'[k].pc = pc
    BY <2>1
  <2> QED BY <2>3, <2>4
<1>11. CASE Die(r)
  BY <1>11 DEF Die, Active, Locked, Stopping
<1>12. CASE Ui(r)
  BY <1>12 DEF Ui, UiShows, UiEnds
<1> QED
  BY <1>4, <1>5, <1>6, <1>7, <1>8, <1>9, <1>10, <1>11, <1>12 DEF RunStep, Strikes

(* Every step of a run, whatever befalls it, is one of at most 33: what it *)
(* takes for EveryRunEnds, but for the scheduling.                         *)
THEOREM RunAlwaysAdvances == RunSpec => RunAdvances
<1>1. RunInv /\ [RunNext]_runVars =>
          [\A r \in Run : run'[r] # run[r] => StepsLeft(run'[r]) < StepsLeft(run[r])]_runVars
  BY StepAdvances DEF RunNext
<1> QED BY <1>1, InvHolds, PTL DEF RunSpec, RunAdvances
=============================================================================
