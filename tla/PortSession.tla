----------------------------- MODULE PortSession -----------------------------
(***************************************************************************)
(* A session of the port: the launcher takes the port's lock, runs the     *)
(* installer, starts the game and ends it, with the deadline the launcher  *)
(* sets and the one the game sets itself.  Every launcher l has a run of   *)
(* the installer and a game, both named l; the other runs of InstallRun    *)
(* are started by hand, past the port's lock.                              *)
(*                                                                         *)
(* Time is counted in ticks, and only while somebody waits for a deadline. *)
(***************************************************************************)
EXTENDS InstallRun, FiniteSets

CONSTANTS Launcher,   \* starts of "Chrono Trigger.sh"
          Off,        \* a clock that is not running
          Grace,      \* ticks between TERM and KILL (10 s)
          Deadline,   \* ticks of the game's own deadline (8 s)
          MaxSignals, \* bound: signals to one launcher
          MaxStarts   \* bound: launchers and runs by hand

ASSUME LauncherAssumption == Launcher \subseteq Run
ASSUME TimeAssumption == Grace \in Nat /\ Deadline \in Nat /\ Deadline < Grace
ASSUME OffAssumption == Off \notin Nat
ASSUME MaxSignalsAssumption == MaxSignals \in Nat

VARIABLES sh,   \* the launchers
          game  \* the games

vars == <<runVars, sh, game>>

NoGame == [pc |-> "none", how |-> "none", asked |-> FALSE, late |-> 0,
           clock |-> Off, saved |-> FALSE]
-----------------------------------------------------------------------------
(* The game.  It is alive from its fork on; asked says that SIGTERM has    *)
(* set its flag, late how long ago when the main loop saw it.              *)

Alive(l) == game[l].pc \in {"boot", "load", "play", "save", "leave"}

Gone(l, how) == [NoGame EXCEPT !.pc = "gone", !.how = how, !.saved = game[l].saved]

Over(l, how) == game' = [game EXCEPT ![l] = Gone(l, how)]

(* ct_single_instance_lock: from there to ct_single_instance_unlock.       *)
Locks(l) == game[l].pc \in {"load", "play", "save"}

(* Exit codes of the ways a game ends.                                     *)
Code(how) == CASE how \in {"exit", "fault", "deadline"} -> 0
               [] how \in {"refused", "fatal"} -> 1
               [] how = "term" -> 143 [] how = "kill" -> 137 [] OTHER -> 139

Still == UNCHANGED <<runVars, sh>>

(* Mutant: without the lock.                                               *)
BootAnyway(l) == /\ game[l].pc = "boot"
                 /\ game' = [game EXCEPT ![l].pc = "load"]
                 /\ Still

Boot(l) == /\ game[l].pc = "boot"
           /\ IF \E k \in Launcher : Locks(k) THEN Over(l, "refused")
              ELSE game' = [game EXCEPT ![l].pc = "load"]
           /\ Still

Load(l) == /\ game[l].pc = "load"
           /\ game' = [game EXCEPT ![l].pc = "play"] \/ Over(l, "fatal")
           /\ Still

(* The loop ends at a request; the deadline starts before the save.        *)
Leave(l) == /\ game[l].pc = "play"
            /\ game' = [game EXCEPT ![l].pc = "save", ![l].clock = Deadline]
            /\ Still

Save(l) == /\ game[l].pc = "save"
           /\ game' = [game EXCEPT ![l].pc = "leave", ![l].saved = TRUE]
           /\ Still

Exit(l) == game[l].pc = "leave" /\ Over(l, "exit") /\ Still

(* ct_shutdown_fault is installed with the deadline.                       *)
FaultOf(l) == /\ game[l].pc \in {"load", "play", "save", "leave"}
              /\ Over(l, IF game[l].pc \in {"save", "leave"} THEN "fault" ELSE "crash")
              /\ Still

Expire(l) == Alive(l) /\ game[l].clock = 0 /\ Over(l, "deadline") /\ Still

(* SIGTERM: deadly until main has installed its handler.                   *)
Termed(l) == IF game[l].pc = "boot" THEN Gone(l, "term")
             ELSE IF Alive(l) THEN [game[l] EXCEPT !.asked = TRUE]
             ELSE game[l]

GameStep(l) == Boot(l) \/ Load(l) \/ Leave(l) \/ Save(l) \/ Exit(l) \/ FaultOf(l)
-----------------------------------------------------------------------------
(* The launcher.                                                           *)

NoShell == [pc |-> "new", signals |-> 0, status |-> NoExit, left |-> Off]

To(l, pc) == sh' = [sh EXCEPT ![l].pc = pc]

Returns(l, status) == sh' = [sh EXCEPT ![l].pc = "over", ![l].status = status]

Waiting == {"wait", "grace", "rewait"}

Early == {"rotate", "extract", "check", "splash"}

Running(l) == sh[l].pc \in {"spawn", "pid"} \cup Early \cup Waiting

Extracting(l) == run[l].pc \notin {"new", "over"}

(* Mutant: the lock is the launcher's alone.                               *)
HoldsAlone(l) == Running(l)

(* The lock on fd 9 is held by whoever has the descriptor: the launcher    *)
(* and its installer, never the game (9>&-) or the setup UI.               *)
Holds(l) == Running(l) \/ Extracting(l)

Calm(l) == sh[l].signals = 0

Begun == {l \in Launcher : sh[l].pc # "new"}
           \cup {r \in Run \ Launcher : run[r].pc # "new"}

MayStart == Cardinality(Begun) < MaxStarts

Lock(l) == /\ sh[l].pc = "new" /\ MayStart
           /\ IF \E k \in Launcher : Holds(k) THEN Returns(l, 1) ELSE To(l, "rotate")
           /\ UNCHANGED <<runVars, game>>

(* The last result is put aside before the installer starts.               *)
Rotate(l) == /\ sh[l].pc = "rotate" /\ Calm(l)
             /\ run' = [run EXCEPT ![l].pc = "lock"]
             /\ result' = NoResult
             /\ To(l, "extract")
             /\ UNCHANGED <<owner, payload, ui, dir, mishaps, game>>

Extracted(l) == /\ sh[l].pc = "extract" /\ Calm(l)
                /\ run[l].pc = "over"
                /\ To(l, "check")
                /\ UNCHANGED <<runVars, game>>

(* Mutant: the result alone counts.                                        *)
CheckResult(l) == /\ sh[l].pc = "check" /\ Calm(l)
                  /\ IF result = "success" THEN To(l, "splash") ELSE Returns(l, 1)
                  /\ UNCHANGED <<runVars, game>>

(* nxbootstrap_validate_nxextract_result: outcome and status must agree.   *)
Check(l) == /\ sh[l].pc = "check" /\ Calm(l)
            /\ IF /\ run[l].exit = 0
                  /\ result = "success"
               THEN To(l, "splash")
               ELSE Returns(l, IF run[l].exit = 0 THEN 1 ELSE run[l].exit)
            /\ UNCHANGED <<runVars, game>>

(* The files the manifest names, the splash, the port's own adapter.       *)
Splash(l) == /\ sh[l].pc = "splash" /\ Calm(l)
             /\ To(l, "spawn") \/ Returns(l, 1)
             /\ UNCHANGED <<runVars, game>>

(* nxbootstrap_abort_before_game; the trap waits for the child in front.   *)
Abort(l) == /\ sh[l].pc \in Early /\ ~Calm(l)
            /\ ~Extracting(l)
            /\ Returns(l, 143)
            /\ UNCHANGED <<runVars, game>>

Spawn(l) == /\ sh[l].pc = "spawn"
            /\ game' = [game EXCEPT ![l].pc = "boot"]
            /\ To(l, "pid")
            /\ UNCHANGED runVars

(* Mutant: a signal before the pid was known is forgotten.                 *)
CatchUpNot(l) == /\ sh[l].pc = "pid"
                 /\ To(l, "wait") /\ UNCHANGED <<runVars, game>>

(* game_pid is known from here; an earlier signal is passed on now.        *)
CatchUp(l) == /\ sh[l].pc = "pid"
              /\ To(l, "wait")
              /\ game' = IF Calm(l) THEN game ELSE [game EXCEPT ![l] = Termed(l)]
              /\ UNCHANGED runVars

(* The builtin returns with the child's status.                            *)
Wait(l) == /\ sh[l].pc = "wait" /\ ~Alive(l)
           /\ IF Calm(l) THEN Returns(l, Code(game[l].how))
              ELSE sh' = [sh EXCEPT ![l].pc = "grace", ![l].status = Code(game[l].how),
                                    ![l].left = Grace]
           /\ UNCHANGED <<runVars, game>>

(* Mutant: one tick less.                                                  *)
EndGraceEarly(l) == /\ sh[l].pc = "grace" /\ (sh[l].left <= 1 \/ ~Alive(l))
                    /\ game' = IF Alive(l)
                                THEN [game EXCEPT ![l].pc = "gone", ![l].how = "kill"]
                                ELSE game
                    /\ sh' = [sh EXCEPT ![l].pc = "rewait", ![l].left = Off]
                    /\ UNCHANGED runVars

(* Mutant: the game is waited for.                                         *)
EndGracePatient(l) == /\ sh[l].pc = "grace" /\ ~Alive(l)
                      /\ sh' = [sh EXCEPT ![l].pc = "rewait", ![l].left = Off]
                      /\ UNCHANGED <<runVars, game>>

(* After the ticks, or with the child gone: KILL what is still there.      *)
EndGrace(l) == /\ sh[l].pc = "grace" /\ (sh[l].left = 0 \/ ~Alive(l))
               /\ game' = IF Alive(l)
                           THEN [game EXCEPT ![l].pc = "gone", ![l].how = "kill"]
                           ELSE game
               /\ sh' = [sh EXCEPT ![l].pc = "rewait", ![l].left = Off]
               /\ UNCHANGED runVars

(* Mutant: the status of the interrupted wait is returned.                 *)
RewaitNot(l) == /\ sh[l].pc = "rewait"
                /\ Returns(l, sh[l].status)
                /\ UNCHANGED <<runVars, game>>

(* A status of 128 + n may be the signal's: ask again, at most once for    *)
(* each signal.                                                            *)
Rewait(l) == /\ sh[l].pc = "rewait" /\ ~Alive(l)
             /\ Returns(l, IF sh[l].status = 143 THEN Code(game[l].how) ELSE sh[l].status)
             /\ UNCHANGED <<runVars, game>>

LauncherStep(l) == \/ Lock(l) \/ Rotate(l) \/ Extracted(l) \/ Check(l) \/ Splash(l)
                   \/ Abort(l) \/ Spawn(l) \/ CatchUp(l) \/ Wait(l)
                   \/ EndGrace(l) \/ Rewait(l)

(* TERM, INT or HUP from the frontend.  In wait it is passed on once and   *)
(* ends the builtin, unless it comes just before it.  Later it is ignored. *)
Signal(l) ==
    /\ sh[l].pc \in Early \cup {"spawn", "pid", "wait"}
    /\ sh[l].signals < MaxSignals
    /\ game' = IF sh[l].pc = "wait" /\ Calm(l) THEN [game EXCEPT ![l] = Termed(l)] ELSE game
    /\ \/ sh' = [sh EXCEPT ![l].signals = @ + 1]
       \/ /\ sh[l].pc = "wait"
          /\ sh' = [sh EXCEPT ![l].signals = @ + 1, ![l].pc = "grace",
                              ![l].status = 143, ![l].left = Grace]
    /\ UNCHANGED runVars

(* SIGKILL: its installer and its game go on.                              *)
KillLauncher(l) == /\ Mishap
                   /\ Running(l)
                   /\ sh' = [sh EXCEPT ![l] = [NoShell EXCEPT !.pc = "dead"]]
                   /\ UNCHANGED <<run, owner, result, payload, ui, dir, game>>
-----------------------------------------------------------------------------
(* One tick for every clock; what is due comes first.                      *)
Counting(l) == sh[l].pc = "grace" /\ Alive(l)

Ticking(l) == Alive(l) /\ game[l].clock # Off

Due(l) == \/ sh[l].pc = "grace" /\ (sh[l].left = 0 \/ ~Alive(l))
          \/ Ticking(l) /\ game[l].clock = 0

Tick == /\ \E l \in Launcher : Counting(l) \/ Ticking(l)
        /\ \A l \in Launcher : ~Due(l)
        /\ sh' = [l \in Launcher |->
               IF Counting(l) THEN [sh[l] EXCEPT !.left = @ - 1] ELSE sh[l]]
        /\ game' = [l \in Launcher |->
               [game[l] EXCEPT
                   !.clock = IF Ticking(l) THEN @ - 1 ELSE @,
                   !.late = IF /\ game[l].asked /\ game[l].pc \in {"load", "play"}
                               /\ @ < Grace
                            THEN @ + 1 ELSE @]]
        /\ UNCHANGED runVars

Init == /\ RunInit
        /\ sh = [l \in Launcher |-> NoShell]
        /\ game = [l \in Launcher |-> NoGame]

Aside == UNCHANGED <<sh, game>>

Hand(r) == r \notin Launcher /\ MayStart /\ Begin(r)

Next == \/ \E r \in Run : (Hand(r) \/ RunStep(r) \/ Strikes(r) \/ Ui(r)) /\ Aside
        \/ \E l \in Launcher : \/ LauncherStep(l) \/ Signal(l) \/ KillLauncher(l)
                               \/ GameStep(l) \/ Expire(l)
        \/ Tick

Spec == Init /\ [][Next]_vars

(* The processes of the port are scheduled and its clocks run; the setup   *)
(* UI, the game and the frontend owe nothing.                              *)
FairSpec == /\ Spec
            /\ \A r \in Run : WF_vars(RunStep(r) /\ Aside)
            /\ \A l \in Launcher : WF_vars(LauncherStep(l)) /\ WF_vars(Expire(l))
            /\ WF_vars(Tick)
-----------------------------------------------------------------------------
TypeOK ==
    /\ RunTypeOK
    /\ sh \in [Launcher -> [pc : Early \cup Waiting \cup {"new", "spawn", "pid", "over", "dead"},
                            signals : 0..MaxSignals, status : Ends \cup {NoExit},
                            left : 0..Grace \cup {Off}]]
    /\ game \in [Launcher -> [pc : {"none", "boot", "load", "play", "save", "leave", "gone"},
                              how : {"none", "exit", "fault", "deadline", "refused",
                                     "fatal", "term", "kill", "crash"},
                              asked : BOOLEAN, late : 0..Grace,
                              clock : 0..Deadline \cup {Off}, saved : BOOLEAN]]

(* Two starts of the port never prepare its files together, not even when  *)
(* the first launcher was killed over its installer ("Close the lock fd IN *)
(* THE CHILD ONLY", Chrono Trigger.sh; the installer keeps it).            *)
OneInstallAtATime == \A l, k \in Launcher : Extracting(l) /\ Extracting(k) => l = k

(* A game starts only over data its own installer has just found or made   *)
(* good, whatever a run started by hand leaves in the result.              *)
StartsOnGoodData == \A l \in Launcher :
    game[l].pc # "none" => run[l].exit = 0 /\ payload = "ready"

(* Who draws: one game, but for one that has given back the lock and is    *)
(* about to exit; and no setup UI that its own run could still have ended. *)
OneOnScreen == \A l \in Launcher : Locks(l) =>
    /\ \A k \in Launcher \ {l} : ~Locks(k)
    /\ ui[l] \in {"none", "gone"}

(* A signal is passed on to the game whenever it comes, also before the    *)
(* launcher knows its pid (nxbootstrap_signal_child).                      *)
SignalIsPassedOn == \A l \in Launcher :
    sh[l].pc \in {"wait", "grace"} /\ ~Calm(l) /\ Alive(l) => game[l].asked

(* The KILL of the launcher cuts no save short that began in time: the     *)
(* game's own deadline comes first.                                        *)
SaveIsNotCut == \A l \in Launcher :
    game[l].how = "kill" /\ game[l].clock # Off /\ ~game[l].saved
        => game[l].late >= Grace - Deadline

(* A launcher that returns after a game returns when the game is gone, and *)
(* with the game's own status, however its wait was interrupted.           *)
StatusIsTheGames == \A l \in Launcher :
    sh[l].pc = "over" /\ game[l].pc # "none"
        => game[l].pc = "gone" /\ sh[l].status = Code(game[l].how)

(* Every run of the installer ends, even under a setup UI that neither     *)
(* shows itself nor ends.                                                  *)
EveryRunEnds == \A r \in Run : run[r].pc = "lock" ~> run[r].pc = "over"

(* A request to end that comes before the game, or interrupts the wait for *)
(* it, ends the session, even when the setup UI or the game hangs.         *)
RequestIsAnswered == \A l \in Launcher :
    (sh[l].pc = "grace" \/ (sh[l].pc \in Early /\ ~Calm(l))) ~> sh[l].pc \in {"over", "dead"}

(* "Depois que a parte segura terminou ... o save ja esta em disco"        *)
(* (ct_platform.c, over ct_shutdown_fault): a fault that is reported as a  *)
(* clean exit comes after the save.                                        *)
FaultIsAfterSave == \A l \in Launcher : game[l].how = "fault" => game[l].saved
=============================================================================
