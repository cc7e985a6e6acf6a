-------------------------- MODULE PortSessionProofs --------------------------
(***************************************************************************)
(* The invariants of PortSession, for any number of starts of the port,    *)
(* runs by hand, signals and mishaps, and any two deadlines of which the   *)
(* game's is the shorter.                                                  *)
(*                                                                         *)
(* A session does to the installer's variables what InstallRun does, so    *)
(* RunInv holds in it too.  Over RunInv, a launcher goes on only past a    *)
(* run that returned 0; and what is left of its own deadline, how late the *)
(* game saw the request and what the game has used of its deadline always  *)
(* add up to the grace it was given.                                       *)
(***************************************************************************)
EXTENDS PortSession, InstallRunProofs

SessionStep(l) == \/ LauncherStep(l) \/ Signal(l) \/ KillLauncher(l)
                  \/ GameStep(l) \/ Expire(l)

GamePc == {"none", "boot", "load", "play", "save", "leave", "gone"}

How == {"none", "exit", "fault", "deadline", "refused", "fatal", "term", "kill", "crash"}

GameRec == [pc : GamePc, how : How, asked : BOOLEAN, late : 0..Grace,
            clock : 0..Deadline \cup {Off}, saved : BOOLEAN]

Games == [Launcher -> GameRec]

ShellPc == Early \cup Waiting \cup {"new", "spawn", "pid", "over", "dead"}

ShellRec == [pc : ShellPc, signals : 0..MaxSignals, status : Ends \cup {NoExit},
             left : 0..Grace \cup {Off}]

Shells == [Launcher -> ShellRec]

(* How far a launcher is, its run and its game.                            *)
Staged(l) ==
    /\ sh[l].pc \in {"new", "rotate"} => run[l].pc = "new"
    /\ sh[l].pc \in {"splash", "spawn", "pid"} \cup Waiting => run[l].exit = 0
    /\ game[l].pc # "none" => run[l].exit = 0
    /\ sh[l].pc \in {"new", "spawn"} \cup Early => game[l].pc = "none"

(* One holder of the port's lock, one game with the game's own lock.       *)
Exclusion == \A k, l \in Launcher : /\ Holds(k) /\ Holds(l) => k = l
                                    /\ Locks(k) /\ Locks(l) => k = l

(* What the game knows of a request.                                       *)
Told(l) ==
    /\ game[l].pc = "none" => /\ game[l].how = "none" /\ ~game[l].asked
                              /\ game[l].late = 0 /\ game[l].clock = Off
    /\ game[l].pc = "boot" => ~game[l].asked
    /\ Alive(l) => (game[l].clock # Off <=> game[l].pc \in {"save", "leave"})
    /\ sh[l].pc \in {"wait", "grace"} /\ ~Calm(l) /\ Alive(l) => game[l].asked
    /\ sh[l].pc = "grace" => ~Calm(l)

(* The status a launcher has in hand, and the one it has returned.         *)
Answered(l) ==
    /\ sh[l].pc \in {"pid"} \cup Waiting => game[l].pc # "none"
    /\ sh[l].pc \in {"grace", "rewait"} =>
           sh[l].status = 143 \/ (~Alive(l) /\ sh[l].status = Code(game[l].how))
    /\ sh[l].pc = "over" /\ game[l].pc # "none" =>
           game[l].pc = "gone" /\ sh[l].status = Code(game[l].how)

Spent(l) == IF game[l].clock = Off THEN 0 ELSE Deadline - game[l].clock

(* The two deadlines.                                                      *)
Timed(l) ==
    /\ sh[l].pc = "grace" => sh[l].left \in 0..Grace
    /\ sh[l].pc = "grace" /\ Alive(l) => sh[l].left + game[l].late + Spent(l) >= Grace
    /\ Alive(l) => game[l].how = "none"
    /\ game[l].how = "kill" /\ game[l].clock # Off => game[l].late >= Grace - Deadline

Each(l) == Staged(l) /\ Told(l) /\ Answered(l) /\ Timed(l)

SessionInv == /\ RunInv
              /\ sh \in Shells /\ game \in Games
              /\ Exclusion
              /\ \A l \in Launcher : Each(l)
-----------------------------------------------------------------------------
(* What a step makes of the entries of l; the others are kept.             *)
GameGets(l, pc, how, asked, late, clock, saved) ==
    /\ game' \in Games
    /\ game'[l].pc = pc /\ game'[l].how = how /\ game'[l].asked = asked
    /\ game'[l].late = late /\ game'[l].clock = clock /\ game'[l].saved = saved
    /\ \A k \in Launcher \ {l} : game'[k] = game[k]

ShellGets(l, pc, signals, status, left) ==
    /\ sh' \in Shells
    /\ sh'[l].pc = pc /\ sh'[l].signals = signals
    /\ sh'[l].status = status /\ sh'[l].left = left
    /\ \A k \in Launcher \ {l} : sh'[k] = sh[k]

LEMMA PutGame ==
  ASSUME game \in Games, NEW l \in Launcher, NEW g \in GameRec,
         game' = [game EXCEPT ![l] = g]
  PROVE  GameGets(l, g.pc, g.how, g.asked, g.late, g.clock, g.saved)
<1>1. game' \in Games
  BY DEF Games
<1>2. game'[l] = g /\ \A k \in Launcher \ {l} : game'[k] = game[k]
  BY DEF Games
<1> QED BY <1>1, <1>2 DEF GameGets

LEMMA PutShell ==
  ASSUME sh \in Shells, NEW l \in Launcher, NEW s \in ShellRec,
         sh' = [sh EXCEPT ![l] = s]
  PROVE  ShellGets(l, s.pc, s.signals, s.status, s.left)
<1>1. sh' \in Shells
  BY DEF Shells
<1>2. sh'[l] = s /\ \A k \in Launcher \ {l} : sh'[k] = sh[k]
  BY DEF Shells
<1> QED BY <1>1, <1>2 DEF ShellGets

LEMMA SameGame ==
  ASSUME game \in Games, NEW l \in Launcher, game' = game
  PROVE  GameGets(l, game[l].pc, game[l].how, game[l].asked, game[l].late,
                  game[l].clock, game[l].saved)
BY DEF GameGets

LEMMA SameShell ==
  ASSUME sh \in Shells, NEW l \in Launcher, sh' = sh
  PROVE  ShellGets(l, sh[l].pc, sh[l].signals, sh[l].status, sh[l].left)
BY DEF ShellGets

LEMMA PcGame ==
  ASSUME game \in Games, NEW l \in Launcher, NEW pc \in GamePc,
         game' = [game EXCEPT ![l].pc = pc]
  PROVE  GameGets(l, pc, game[l].how, game[l].asked, game[l].late, game[l].clock, game[l].saved)
<1> DEFINE x == [game[l] EXCEPT !.pc = pc]
<1>1. game[l] \in GameRec
  BY DEF Games
<1>2. x \in GameRec
  BY <1>1 DEF GameRec
<1>3. /\ x.pc = pc /\ x.how = game[l].how /\ x.asked = game[l].asked
      /\ x.late = game[l].late /\ x.clock = game[l].clock /\ x.saved = game[l].saved
  BY <1>1 DEF GameRec
<1>4. game' = [game EXCEPT ![l] = x]
  OBVIOUS
<1> HIDE DEF x
<1>5. GameGets(l, x.pc, x.how, x.asked, x.late, x.clock, x.saved)
  BY <1>2, <1>4, PutGame
<1> QED BY <1>3, <1>5

LEMMA SavingGame ==
  ASSUME game \in Games, NEW l \in Launcher, NEW pc \in GamePc, NEW clock \in 0..Deadline \cup {Off},
         game' = [game EXCEPT ![l].pc = pc, ![l].clock = clock]
  PROVE  GameGets(l, pc, game[l].how, game[l].asked, game[l].late, clock, game[l].saved)
<1> DEFINE x == [game[l] EXCEPT !.pc = pc, !.clock = clock]
<1>1. game[l] \in GameRec
  BY DEF Games
<1>2. x \in GameRec
  BY <1>1 DEF GameRec
<1>3. /\ x.pc = pc /\ x.how = game[l].how /\ x.asked = game[l].asked
      /\ x.late = game[l].late /\ x.clock = clock /\ x.saved = game[l].saved
  BY <1>1 DEF GameRec
<1>4. game' = [game EXCEPT ![l] = x]
  OBVIOUS
<1> HIDE DEF x
<1>5. GameGets(l, x.pc, x.how, x.asked, x.late, x.clock, x.saved)
  BY <1>2, <1>4, PutGame
<1> QED BY <1>3, <1>5

LEMMA SavedGame ==
  ASSUME game \in Games, NEW l \in Launcher, NEW pc \in GamePc, NEW saved \in BOOLEAN,
         game' = [game EXCEPT ![l].pc = pc, ![l].saved = saved]
  PROVE  GameGets(l, pc, game[l].how, game[l].asked, game[l].late, game[l].clock, saved)
<1> DEFINE x == [game[l] EXCEPT !.pc = pc, !.saved = saved]
<1>1. game[l] \in GameRec
  BY DEF Games
<1>2. x \in GameRec
  BY <1>1 DEF GameRec
<1>3. /\ x.pc = pc /\ x.how = game[l].how /\ x.asked = game[l].asked
      /\ x.late = game[l].late /\ x.clock = game[l].clock /\ x.saved = saved
  BY <1>1 DEF GameRec
<1>4. game' = [game EXCEPT ![l] = x]
  OBVIOUS
<1> HIDE DEF x
<1>5. GameGets(l, x.pc, x.how, x.asked, x.late, x.clock, x.saved)
  BY <1>2, <1>4, PutGame
<1> QED BY <1>3, <1>5

LEMMA KilledGame ==
  ASSUME game \in Games, NEW l \in Launcher, NEW pc \in GamePc, NEW how \in How,
         game' = [game EXCEPT ![l].pc = pc, ![l].how = how]
  PROVE  GameGets(l, pc, how, game[l].asked, game[l].late, game[l].clock, game[l].saved)
<1> DEFINE x == [game[l] EXCEPT !.pc = pc, !.how = how]
<1>1. game[l] \in GameRec
  BY DEF Games
<1>2. x \in GameRec
  BY <1>1 DEF GameRec
<1>3. /\ x.pc = pc /\ x.how = how /\ x.asked = game[l].asked
      /\ x.late = game[l].late /\ x.clock = game[l].clock /\ x.saved = game[l].saved
  BY <1>1 DEF GameRec
<1>4. game' = [game EXCEPT ![l] = x]
  OBVIOUS
<1> HIDE DEF x
<1>5. GameGets(l, x.pc, x.how, x.asked, x.late, x.clock, x.saved)
  BY <1>2, <1>4, PutGame
<1> QED BY <1>3, <1>5

LEMMA AskedGame ==
  ASSUME game \in Games, NEW l \in Launcher, NEW asked \in BOOLEAN,
         game' = [game EXCEPT ![l].asked = asked]
  PROVE  GameGets(l, game[l].pc, game[l].how, asked, game[l].late, game[l].clock, game[l].saved)
<1> DEFINE x == [game[l] EXCEPT !.asked = asked]
<1>1. game[l] \in GameRec
  BY DEF Games
<1>2. x \in GameRec
  BY <1>1 DEF GameRec
<1>3. /\ x.pc = game[l].pc /\ x.how = game[l].how /\ x.asked = asked
      /\ x.late = game[l].late /\ x.clock = game[l].clock /\ x.saved = game[l].saved
  BY <1>1 DEF GameRec
<1>4. game' = [game EXCEPT ![l] = x]
  OBVIOUS
<1> HIDE DEF x
<1>5. GameGets(l, x.pc, x.how, x.asked, x.late, x.clock, x.saved)
  BY <1>2, <1>4, PutGame
<1> QED BY <1>3, <1>5

LEMMA PcShell ==
  ASSUME sh \in Shells, NEW l \in Launcher, NEW pc \in ShellPc,
         sh' = [sh EXCEPT ![l].pc = pc]
  PROVE  ShellGets(l, pc, sh[l].signals, sh[l].status, sh[l].left)
<1> DEFINE x == [sh[l] EXCEPT !.pc = pc]
<1>1. sh[l] \in ShellRec
  BY DEF Shells
<1>2. x \in ShellRec
  BY <1>1 DEF ShellRec
<1>3. /\ x.pc = pc /\ x.signals = sh[l].signals /\ x.status = sh[l].status
      /\ x.left = sh[l].left
  BY <1>1 DEF ShellRec
<1>4. sh' = [sh EXCEPT ![l] = x]
  OBVIOUS
<1> HIDE DEF x
<1>5. ShellGets(l, x.pc, x.signals, x.status, x.left)
  BY <1>2, <1>4, PutShell
<1> QED BY <1>3, <1>5

LEMMA ReturnShell ==
  ASSUME sh \in Shells, NEW l \in Launcher, NEW pc \in ShellPc, NEW status \in Ends \cup {NoExit},
         sh' = [sh EXCEPT ![l].pc = pc, ![l].status = status]
  PROVE  ShellGets(l, pc, sh[l].signals, status, sh[l].left)
<1> DEFINE x == [sh[l] EXCEPT !.pc = pc, !.status = status]
<1>1. sh[l] \in ShellRec
  BY DEF Shells
<1>2. x \in ShellRec
  BY <1>1 DEF ShellRec
<1>3. /\ x.pc = pc /\ x.signals = sh[l].signals /\ x.status = status
      /\ x.left = sh[l].left
  BY <1>1 DEF ShellRec
<1>4. sh' = [sh EXCEPT ![l] = x]
  OBVIOUS
<1> HIDE DEF x
<1>5. ShellGets(l, x.pc, x.signals, x.status, x.left)
  BY <1>2, <1>4, PutShell
<1> QED BY <1>3, <1>5

LEMMA GraceShell ==
  ASSUME sh \in Shells, NEW l \in Launcher, NEW pc \in ShellPc, NEW status \in Ends \cup {NoExit}, NEW left \in 0..Grace \cup {Off},
         sh' = [sh EXCEPT ![l].pc = pc, ![l].status = status, ![l].left = left]
  PROVE  ShellGets(l, pc, sh[l].signals, status, left)
<1> DEFINE x == [sh[l] EXCEPT !.pc = pc, !.status = status, !.left = left]
<1>1. sh[l] \in ShellRec
  BY DEF Shells
<1>2. x \in ShellRec
  BY <1>1 DEF ShellRec
<1>3. /\ x.pc = pc /\ x.signals = sh[l].signals /\ x.status = status
      /\ x.left = left
  BY <1>1 DEF ShellRec
<1>4. sh' = [sh EXCEPT ![l] = x]
  OBVIOUS
<1> HIDE DEF x
<1>5. ShellGets(l, x.pc, x.signals, x.status, x.left)
  BY <1>2, <1>4, PutShell
<1> QED BY <1>3, <1>5

LEMMA RewaitShell ==
  ASSUME sh \in Shells, NEW l \in Launcher, NEW pc \in ShellPc, NEW left \in 0..Grace \cup {Off},
         sh' = [sh EXCEPT ![l].pc = pc, ![l].left = left]
  PROVE  ShellGets(l, pc, sh[l].signals, sh[l].status, left)
<1> DEFINE x == [sh[l] EXCEPT !.pc = pc, !.left = left]
<1>1. sh[l] \in ShellRec
  BY DEF Shells
<1>2. x \in ShellRec
  BY <1>1 DEF ShellRec
<1>3. /\ x.pc = pc /\ x.signals = sh[l].signals /\ x.status = sh[l].status
      /\ x.left = left
  BY <1>1 DEF ShellRec
<1>4. sh' = [sh EXCEPT ![l] = x]
  OBVIOUS
<1> HIDE DEF x
<1>5. ShellGets(l, x.pc, x.signals, x.status, x.left)
  BY <1>2, <1>4, PutShell
<1> QED BY <1>3, <1>5

LEMMA SignalShell ==
  ASSUME sh \in Shells, NEW l \in Launcher, NEW signals \in 0..MaxSignals,
         sh' = [sh EXCEPT ![l].signals = signals]
  PROVE  ShellGets(l, sh[l].pc, signals, sh[l].status, sh[l].left)
<1> DEFINE x == [sh[l] EXCEPT !.signals = signals]
<1>1. sh[l] \in ShellRec
  BY DEF Shells
<1>2. x \in ShellRec
  BY <1>1 DEF ShellRec
<1>3. /\ x.pc = sh[l].pc /\ x.signals = signals /\ x.status = sh[l].status
      /\ x.left = sh[l].left
  BY <1>1 DEF ShellRec
<1>4. sh' = [sh EXCEPT ![l] = x]
  OBVIOUS
<1> HIDE DEF x
<1>5. ShellGets(l, x.pc, x.signals, x.status, x.left)
  BY <1>2, <1>4, PutShell
<1> QED BY <1>3, <1>5

LEMMA BrokenShell ==
  ASSUME sh \in Shells, NEW l \in Launcher, NEW signals \in 0..MaxSignals, NEW pc \in ShellPc, NEW status \in Ends \cup {NoExit}, NEW left \in 0..Grace \cup {Off},
         sh' = [sh EXCEPT ![l].signals = signals, ![l].pc = pc, ![l].status = status, ![l].left = left]
  PROVE  ShellGets(l, pc, signals, status, left)
<1> DEFINE x == [sh[l] EXCEPT !.signals = signals, !.pc = pc, !.status = status, !.left = left]
<1>1. sh[l] \in ShellRec
  BY DEF Shells
<1>2. x \in ShellRec
  BY <1>1 DEF ShellRec
<1>3. /\ x.pc = pc /\ x.signals = signals /\ x.status = status
      /\ x.left = left
  BY <1>1 DEF ShellRec
<1>4. sh' = [sh EXCEPT ![l] = x]
  OBVIOUS
<1> HIDE DEF x
<1>5. ShellGets(l, x.pc, x.signals, x.status, x.left)
  BY <1>2, <1>4, PutShell
<1> QED BY <1>3, <1>5

LEMMA OverGame ==
  ASSUME game \in Games, NEW l \in Launcher, NEW how \in How,
         game' = [game EXCEPT ![l] = Gone(l, how)]
  PROVE  GameGets(l, "gone", how, FALSE, 0, Off, game[l].saved)
<1> DEFINE x == Gone(l, how)
<1>1. game[l].saved \in BOOLEAN
  BY DEF Games, GameRec
<1>2. /\ NoGame \in GameRec
      /\ NoGame.asked = FALSE /\ NoGame.late = 0 /\ NoGame.clock = Off
  BY TimeAssumption DEF NoGame, GameRec, GamePc, How
<1>3. /\ x \in GameRec /\ x.pc = "gone" /\ x.how = how /\ x.saved = game[l].saved
      /\ x.asked = NoGame.asked /\ x.late = NoGame.late /\ x.clock = NoGame.clock
  BY <1>1, <1>2 DEF Gone, GameRec, GamePc
<1> HIDE DEF x
<1>4. GameGets(l, x.pc, x.how, x.asked, x.late, x.clock, x.saved)
  BY <1>3, PutGame DEF x
<1> QED BY <1>2, <1>3, <1>4

LEMMA DeadShell ==
  ASSUME sh \in Shells, NEW l \in Launcher,
         sh' = [sh EXCEPT ![l] = [NoShell EXCEPT !.pc = "dead"]]
  PROVE  ShellGets(l, "dead", 0, NoExit, Off)
<1> DEFINE x == [NoShell EXCEPT !.pc = "dead"]
<1>1. /\ NoShell \in ShellRec
      /\ NoShell.signals = 0 /\ NoShell.status = NoExit /\ NoShell.left = Off
  BY MaxSignalsAssumption DEF NoShell, ShellRec, ShellPc
<1>2. /\ x \in ShellRec /\ x.pc = "dead" /\ x.signals = NoShell.signals
      /\ x.status = NoShell.status /\ x.left = NoShell.left
  BY <1>1 DEF ShellRec, ShellPc
<1> HIDE DEF x
<1>3. ShellGets(l, x.pc, x.signals, x.status, x.left)
  BY <1>2, PutShell DEF x
<1> QED BY <1>1, <1>2, <1>3

(* SIGTERM.                                                                *)
LEMMA TermedGame ==
  ASSUME game \in Games, NEW l \in Launcher, game' = [game EXCEPT ![l] = Termed(l)]
  PROVE  IF game[l].pc = "boot" THEN GameGets(l, "gone", "term", FALSE, 0, Off, game[l].saved)
         ELSE GameGets(l, game[l].pc, game[l].how, Alive(l) \/ game[l].asked, game[l].late,
                       game[l].clock, game[l].saved)
<1>1. CASE game[l].pc = "boot"
  <2>1. game' = [game EXCEPT ![l] = Gone(l, "term")]
    BY <1>1 DEF Termed
  <2> QED BY <1>1, <2>1, OverGame DEF How
<1>2. CASE game[l].pc # "boot" /\ Alive(l)
  <2>1. Termed(l) = [game[l] EXCEPT !.asked = TRUE]
    BY <1>2 DEF Termed
  <2>2. game' = [game EXCEPT ![l].asked = TRUE]
    BY <2>1
  <2>3. GameGets(l, game[l].pc, game[l].how, TRUE, game[l].late, game[l].clock, game[l].saved)
    BY <2>2, AskedGame
  <2> QED BY <1>2, <2>3
<1>3. CASE game[l].pc # "boot" /\ ~Alive(l)
  <2>1. Termed(l) = game[l]
    BY <1>3 DEF Termed
  <2>2. game' = game
    BY <2>1 DEF Games
  <2>3. game[l].asked \in BOOLEAN
    BY DEF Games, GameRec
  <2> QED BY <1>3, <2>2, <2>3, SameGame
<1> QED BY <1>1, <1>2, <1>3
-----------------------------------------------------------------------------
(* What a step of l's session keeps: the entries of the others, the        *)
(* invariant of l, and the two locks.                                      *)
Kept(l) ==
    /\ sh' \in Shells /\ game' \in Games
    /\ \A k \in Launcher \ {l} : sh'[k] = sh[k] /\ game'[k] = game[k] /\ run'[k] = run[k]
    /\ Staged(l)' /\ Told(l)' /\ Answered(l)' /\ Timed(l)'
    /\ Holds(l)' => Holds(l) \/ \A k \in Launcher : ~Holds(k)
    /\ Locks(l)' => Locks(l) \/ \A k \in Launcher : ~Locks(k)

(* The entries of l, typed, and what the invariant says of them.           *)
Known(l) ==
    /\ sh[l].pc \in ShellPc /\ sh[l].signals \in 0..MaxSignals
    /\ sh[l].status \in Ends \cup {NoExit} /\ sh[l].left \in 0..Grace \cup {Off}
    /\ game[l].pc \in GamePc /\ game[l].how \in How /\ game[l].asked \in BOOLEAN
    /\ game[l].late \in 0..Grace /\ game[l].clock \in 0..Deadline \cup {Off}
    /\ game[l].saved \in BOOLEAN
    /\ Each(l)
    /\ run[l].exit \in Ends \cup {NoExit}
    /\ run[l].exit # NoExit <=> run[l].pc = "over"

LEMMA Knows ==
  ASSUME SessionInv, NEW l \in Launcher
  PROVE  /\ sh \in Shells /\ game \in Games
         /\ Known(l)
<1>1. sh[l] \in ShellRec /\ game[l] \in GameRec
  BY DEF SessionInv, Shells, Games
<1>2. l \in Run
  BY LauncherAssumption
<1>3. run[l].exit \in Ends \cup {NoExit} /\ (run[l].exit # NoExit <=> run[l].pc = "over")
  BY <1>2 DEF SessionInv, RunInv, RunTypeOK, Good, UiAt
<1> QED BY <1>1, <1>3 DEF SessionInv, Known, ShellRec, GameRec

LEMMA Numbers == {0, 1, 137, 139, 143} \subseteq Ends
BY DEF Ends

LEMMA Returned ==
  ASSUME sh \in Shells, NEW l \in Launcher, NEW status \in Ends \cup {NoExit},
         Returns(l, status)
  PROVE  ShellGets(l, "over", sh[l].signals, status, sh[l].left)
BY ReturnShell DEF Returns, ShellPc

LEMMA BootKeeps ==
  ASSUME SessionInv, NEW l \in Launcher, Boot(l)
  PROVE  Kept(l)
<1> sh \in Shells /\ game \in Games /\ Known(l)
  BY Knows
<1>1. ShellGets(l, sh[l].pc, sh[l].signals, sh[l].status, sh[l].left)
  BY SameShell DEF Boot, Still
<1>2. \/ GameGets(l, "gone", "refused", FALSE, 0, Off, game[l].saved)
      \/ /\ GameGets(l, "load", game[l].how, game[l].asked, game[l].late,
                game[l].clock, game[l].saved)
         /\ \A k \in Launcher : ~Locks(k)
  <2>1. CASE \E k \in Launcher : Locks(k)
    <3>1. game' = [game EXCEPT ![l] = Gone(l, "refused")]
      BY <2>1 DEF Boot, Over
    <3>2. GameGets(l, "gone", "refused", FALSE, 0, Off, game[l].saved)
      BY <3>1, OverGame DEF How
    <3> QED BY <3>2
  <2>2. CASE ~\E k \in Launcher : Locks(k)
    <3>1. game' = [game EXCEPT ![l].pc = "load"]
      BY <2>2 DEF Boot
    <3> QED BY <2>2, <3>1, PcGame DEF GamePc
  <2> QED BY <2>1, <2>2
<1>3. run' = run /\ game[l].pc = "boot"
  BY DEF Boot, Still, runVars
<1> QED
  BY <1>1, <1>2, <1>3, OffAssumption, TimeAssumption, NoExitAssumption
     DEF Kept, Known, Each, Staged, Told, Answered, Timed, Spent, Alive, Calm, Locks,
     Holds, Running, Extracting, ShellGets, GameGets, Code, Early, Waiting, How, GamePc

LEMMA LoadKeeps ==
  ASSUME SessionInv, NEW l \in Launcher, Load(l)
  PROVE  Kept(l)
<1> sh \in Shells /\ game \in Games /\ Known(l)
  BY Knows
<1>1. ShellGets(l, sh[l].pc, sh[l].signals, sh[l].status, sh[l].left)
  BY SameShell DEF Load, Still
<1>2. \/ GameGets(l, "gone", "fatal", FALSE, 0, Off, game[l].saved)
      \/ GameGets(l, "play", game[l].how, game[l].asked, game[l].late,
                game[l].clock, game[l].saved)
  BY PcGame, OverGame DEF Load, Over, How, GamePc
<1>3. run' = run /\ game[l].pc = "load"
  BY DEF Load, Still, runVars
<1> QED
  BY <1>1, <1>2, <1>3, OffAssumption, TimeAssumption, NoExitAssumption
     DEF Kept, Known, Each, Staged, Told, Answered, Timed, Spent, Alive, Calm, Locks,
     Holds, Running, Extracting, ShellGets, GameGets, Code, Early, Waiting, How, GamePc

LEMMA LeaveKeeps ==
  ASSUME SessionInv, NEW l \in Launcher, Leave(l)
  PROVE  Kept(l)
<1> sh \in Shells /\ game \in Games /\ Known(l)
  BY Knows
<1>1. ShellGets(l, sh[l].pc, sh[l].signals, sh[l].status, sh[l].left)
  BY SameShell DEF Leave, Still
<1>2. Deadline \in 0..Deadline \cup {Off}
  BY TimeAssumption
<1>3. GameGets(l, "save", game[l].how, game[l].asked, game[l].late,
                Deadline, game[l].saved)
  BY <1>2, SavingGame DEF Leave, GamePc
<1>4. run' = run /\ game[l].pc = "play"
  BY DEF Leave, Still, runVars
<1> QED
  BY <1>1, <1>2, <1>3, <1>4, OffAssumption, TimeAssumption, NoExitAssumption
     DEF Kept, Known, Each, Staged, Told, Answered, Timed, Spent, Alive, Calm, Locks,
     Holds, Running, Extracting, ShellGets, GameGets, Code, Early, Waiting, How, GamePc

LEMMA SaveKeeps ==
  ASSUME SessionInv, NEW l \in Launcher, Save(l)
  PROVE  Kept(l)
<1> sh \in Shells /\ game \in Games /\ Known(l)
  BY Knows
<1>1. ShellGets(l, sh[l].pc, sh[l].signals, sh[l].status, sh[l].left)
  BY SameShell DEF Save, Still
<1>2. GameGets(l, "leave", game[l].how, game[l].asked, game[l].late,
                game[l].clock, TRUE)
  BY SavedGame DEF Save, GamePc
<1>3. run' = run /\ game[l].pc = "save"
  BY DEF Save, Still, runVars
<1> QED
  BY <1>1, <1>2, <1>3, OffAssumption, TimeAssumption, NoExitAssumption
     DEF Kept, Known, Each, Staged, Told, Answered, Timed, Spent, Alive, Calm, Locks,
     Holds, Running, Extracting, ShellGets, GameGets, Code, Early, Waiting, How, GamePc

LEMMA ExitKeeps ==
  ASSUME SessionInv, NEW l \in Launcher, Exit(l)
  PROVE  Kept(l)
<1> sh \in Shells /\ game \in Games /\ Known(l)
  BY Knows
<1>1. ShellGets(l, sh[l].pc, sh[l].signals, sh[l].status, sh[l].left)
  BY SameShell DEF Exit, Still
<1>2. GameGets(l, "gone", "exit", FALSE, 0, Off, game[l].saved)
  BY OverGame DEF Exit, Over, How
<1>3. run' = run /\ game[l].pc = "leave"
  BY DEF Exit, Still, runVars
<1> QED
  BY <1>1, <1>2, <1>3, OffAssumption, TimeAssumption, NoExitAssumption
     DEF Kept, Known, Each, Staged, Told, Answered, Timed, Spent, Alive, Calm, Locks,
     Holds, Running, Extracting, ShellGets, GameGets, Code, Early, Waiting, How, GamePc

LEMMA FaultOfKeeps ==
  ASSUME SessionInv, NEW l \in Launcher, FaultOf(l)
  PROVE  Kept(l)
<1> sh \in Shells /\ game \in Games /\ Known(l)
  BY Knows
<1>1. ShellGets(l, sh[l].pc, sh[l].signals, sh[l].status, sh[l].left)
  BY SameShell DEF FaultOf, Still
<1>2. \E how \in {"fault", "crash"} : GameGets(l, "gone", how, FALSE, 0, Off, game[l].saved)
  BY OverGame DEF FaultOf, Over, How
<1>3. run' = run /\ Alive(l)
  BY DEF FaultOf, Still, runVars, Alive
<1> QED
  BY <1>1, <1>2, <1>3, OffAssumption, TimeAssumption, NoExitAssumption
     DEF Kept, Known, Each, Staged, Told, Answered, Timed, Spent, Alive, Calm, Locks,
     Holds, Running, Extracting, ShellGets, GameGets, Code, Early, Waiting, How, GamePc

LEMMA ExpireKeeps ==
  ASSUME SessionInv, NEW l \in Launcher, Expire(l)
  PROVE  Kept(l)
<1> sh \in Shells /\ game \in Games /\ Known(l)
  BY Knows
<1>1. ShellGets(l, sh[l].pc, sh[l].signals, sh[l].status, sh[l].left)
  BY SameShell DEF Expire, Still
<1>2. GameGets(l, "gone", "deadline", FALSE, 0, Off, game[l].saved)
  BY OverGame DEF Expire, Over, How
<1>3. run' = run /\ Alive(l)
  BY DEF Expire, Still, runVars
<1> QED
  BY <1>1, <1>2, <1>3, OffAssumption, TimeAssumption, NoExitAssumption
     DEF Kept, Known, Each, Staged, Told, Answered, Timed, Spent, Alive, Calm, Locks,
     Holds, Running, Extracting, ShellGets, GameGets, Code, Early, Waiting, How, GamePc

LEMMA LockKeeps ==
  ASSUME SessionInv, NEW l \in Launcher, Lock(l)
  PROVE  Kept(l)
<1> sh \in Shells /\ game \in Games /\ Known(l)
  BY Knows
<1>1. GameGets(l, game[l].pc, game[l].how, game[l].asked, game[l].late, game[l].clock, game[l].saved)
  BY SameGame DEF Lock
<1>2. \/ ShellGets(l, "over", sh[l].signals, 1, sh[l].left)
      \/ ShellGets(l, "rotate", sh[l].signals, sh[l].status, sh[l].left) /\ \A k \in Launcher : ~Holds(k)
  BY PcShell, Returned, Numbers DEF Lock, To, ShellPc, Early
<1>3. run' = run /\ sh[l].pc = "new"
  BY DEF Lock, Still, runVars
<1> QED
  BY <1>1, <1>2, <1>3, OffAssumption, TimeAssumption, NoExitAssumption
     DEF Kept, Known, Each, Staged, Told, Answered, Timed, Spent, Alive, Calm, Locks,
     Holds, Running, Extracting, ShellGets, GameGets, Code, Early, Waiting, How, GamePc

LEMMA RotateKeeps ==
  ASSUME SessionInv, NEW l \in Launcher, Rotate(l)
  PROVE  Kept(l)
<1> sh \in Shells /\ game \in Games /\ Known(l)
  BY Knows
<1>1. GameGets(l, game[l].pc, game[l].how, game[l].asked, game[l].late, game[l].clock, game[l].saved)
  BY SameGame DEF Rotate
<1>2. ShellGets(l, "extract", sh[l].signals, sh[l].status, sh[l].left)
  BY PcShell DEF Rotate, To, ShellPc, Early
<1>3. run'[l].pc = "lock" /\ run'[l].exit = run[l].exit /\ sh[l].pc = "rotate"
      /\ \A k \in Launcher \ {l} : run'[k] = run[k]
  BY LauncherAssumption DEF Rotate, SessionInv, RunInv, RunTypeOK
<1> QED
  BY <1>1, <1>2, <1>3, OffAssumption, TimeAssumption, NoExitAssumption
     DEF Kept, Known, Each, Staged, Told, Answered, Timed, Spent, Alive, Calm, Locks,
     Holds, Running, Extracting, ShellGets, GameGets, Code, Early, Waiting, How, GamePc

LEMMA ExtractedKeeps ==
  ASSUME SessionInv, NEW l \in Launcher, Extracted(l)
  PROVE  Kept(l)
<1> sh \in Shells /\ game \in Games /\ Known(l)
  BY Knows
<1>1. GameGets(l, game[l].pc, game[l].how, game[l].asked, game[l].late, game[l].clock, game[l].saved)
  BY SameGame DEF Extracted
<1>2. ShellGets(l, "check", sh[l].signals, sh[l].status, sh[l].left)
  BY PcShell DEF Extracted, To, ShellPc, Early
<1>3. run' = run /\ sh[l].pc = "extract"
  BY DEF Extracted, Still, runVars
<1> QED
  BY <1>1, <1>2, <1>3, OffAssumption, TimeAssumption, NoExitAssumption
     DEF Kept, Known, Each, Staged, Told, Answered, Timed, Spent, Alive, Calm, Locks,
     Holds, Running, Extracting, ShellGets, GameGets, Code, Early, Waiting, How, GamePc

LEMMA CheckKeeps ==
  ASSUME SessionInv, NEW l \in Launcher, Check(l)
  PROVE  Kept(l)
<1> sh \in Shells /\ game \in Games /\ Known(l)
  BY Knows
<1>1. GameGets(l, game[l].pc, game[l].how, game[l].asked, game[l].late, game[l].clock, game[l].saved)
  BY SameGame DEF Check
<1>2. \/ ShellGets(l, "splash", sh[l].signals, sh[l].status, sh[l].left) /\ run[l].exit = 0
      \/ \E status \in Ends \cup {NoExit} : ShellGets(l, "over", sh[l].signals, status, sh[l].left)
  BY PcShell, Returned, Numbers DEF Check, To, ShellPc, Early, Known
<1>3. run' = run /\ sh[l].pc = "check"
  BY DEF Check, Still, runVars
<1> QED
  BY <1>1, <1>2, <1>3, OffAssumption, TimeAssumption, NoExitAssumption
     DEF Kept, Known, Each, Staged, Told, Answered, Timed, Spent, Alive, Calm, Locks,
     Holds, Running, Extracting, ShellGets, GameGets, Code, Early, Waiting, How, GamePc

LEMMA SplashKeeps ==
  ASSUME SessionInv, NEW l \in Launcher, Splash(l)
  PROVE  Kept(l)
<1> sh \in Shells /\ game \in Games /\ Known(l)
  BY Knows
<1>1. GameGets(l, game[l].pc, game[l].how, game[l].asked, game[l].late, game[l].clock, game[l].saved)
  BY SameGame DEF Splash
<1>2. \/ ShellGets(l, "spawn", sh[l].signals, sh[l].status, sh[l].left)
      \/ ShellGets(l, "over", sh[l].signals, 1, sh[l].left)
  BY PcShell, Returned, Numbers DEF Splash, To, ShellPc, Early
<1>3. run' = run /\ sh[l].pc = "splash"
  BY DEF Splash, Still, runVars
<1> QED
  BY <1>1, <1>2, <1>3, OffAssumption, TimeAssumption, NoExitAssumption
     DEF Kept, Known, Each, Staged, Told, Answered, Timed, Spent, Alive, Calm, Locks,
     Holds, Running, Extracting, ShellGets, GameGets, Code, Early, Waiting, How, GamePc

LEMMA AbortKeeps ==
  ASSUME SessionInv, NEW l \in Launcher, Abort(l)
  PROVE  Kept(l)
<1> sh \in Shells /\ game \in Games /\ Known(l)
  BY Knows
<1>1. GameGets(l, game[l].pc, game[l].how, game[l].asked, game[l].late, game[l].clock, game[l].saved)
  BY SameGame DEF Abort
<1>2. ShellGets(l, "over", sh[l].signals, 143, sh[l].left)
  BY Returned, Numbers DEF Abort
<1>3. run' = run /\ sh[l].pc \in Early
  BY DEF Abort, Still, runVars
<1> QED
  BY <1>1, <1>2, <1>3, OffAssumption, TimeAssumption, NoExitAssumption
     DEF Kept, Known, Each, Staged, Told, Answered, Timed, Spent, Alive, Calm, Locks,
     Holds, Running, Extracting, ShellGets, GameGets, Code, Early, Waiting, How, GamePc

LEMMA SpawnKeeps ==
  ASSUME SessionInv, NEW l \in Launcher, Spawn(l)
  PROVE  Kept(l)
<1> sh \in Shells /\ game \in Games /\ Known(l)
  BY Knows
<1>1. GameGets(l, "boot", game[l].how, game[l].asked, game[l].late,
                game[l].clock, game[l].saved)
  BY PcGame DEF Spawn, GamePc
<1>2. ShellGets(l, "pid", sh[l].signals, sh[l].status, sh[l].left)
  BY PcShell DEF Spawn, To, ShellPc
<1>3. run' = run /\ sh[l].pc = "spawn"
  BY DEF Spawn, Still, runVars
<1> QED
  BY <1>1, <1>2, <1>3, OffAssumption, TimeAssumption, NoExitAssumption
     DEF Kept, Known, Each, Staged, Told, Answered, Timed, Spent, Alive, Calm, Locks,
     Holds, Running, Extracting, ShellGets, GameGets, Code, Early, Waiting, How, GamePc

LEMMA CatchUpKeeps ==
  ASSUME SessionInv, NEW l \in Launcher, CatchUp(l)
  PROVE  Kept(l)
<1> sh \in Shells /\ game \in Games /\ Known(l)
  BY Knows
<1>1. IF Calm(l) THEN GameGets(l, game[l].pc, game[l].how, game[l].asked, game[l].late,
                game[l].clock, game[l].saved)
      ELSE IF game[l].pc = "boot" THEN GameGets(l, "gone", "term", FALSE, 0, Off, game[l].saved)
      ELSE GameGets(l, game[l].pc, game[l].how, Alive(l) \/ game[l].asked, game[l].late,
                game[l].clock, game[l].saved)
  BY SameGame, TermedGame DEF CatchUp
<1>2. ShellGets(l, "wait", sh[l].signals, sh[l].status, sh[l].left)
  BY PcShell DEF CatchUp, To, ShellPc, Waiting
<1>3. run' = run /\ sh[l].pc = "pid"
  BY DEF CatchUp, Still, runVars
<1> USE <1>1, <1>2, <1>3, OffAssumption, TimeAssumption, NoExitAssumption
    DEF Kept, Known, Each, Staged, Told, Answered, Timed, Spent, Alive, Calm, Locks,
     Holds, Running, Extracting, ShellGets, GameGets, Code, Early, Waiting, How, GamePc
<1>4. Staged(l)'
  OBVIOUS
<1>5. Told(l)'
  OBVIOUS
<1>6. Answered(l)'
  OBVIOUS
<1>7. Timed(l)'
  OBVIOUS
<1>8. Holds(l)' => Holds(l) \/ \A k \in Launcher : ~Holds(k)
  OBVIOUS
<1>9. Locks(l)' => Locks(l) \/ \A k \in Launcher : ~Locks(k)
  OBVIOUS
<1> QED
  BY <1>4, <1>5, <1>6, <1>7, <1>8, <1>9

LEMMA WaitKeeps ==
  ASSUME SessionInv, NEW l \in Launcher, Wait(l)
  PROVE  Kept(l)
<1> sh \in Shells /\ game \in Games /\ Known(l)
  BY Knows
<1>1. GameGets(l, game[l].pc, game[l].how, game[l].asked, game[l].late, game[l].clock, game[l].saved)
  BY SameGame DEF Wait
<1>2. Code(game[l].how) \in Ends
  BY DEF Known, Code, How, Ends
<1>3. \/ ShellGets(l, "over", sh[l].signals, Code(game[l].how), sh[l].left)
      \/ ShellGets(l, "grace", sh[l].signals, Code(game[l].how), Grace) /\ ~Calm(l)
  <2>1. Grace \in 0..Grace \cup {Off}
    BY TimeAssumption
  <2> QED BY <1>2, <2>1, Returned, GraceShell DEF Wait, ShellPc, Waiting
<1>4. run' = run /\ sh[l].pc = "wait" /\ ~Alive(l)
  BY DEF Wait, Still, runVars
<1> USE <1>1, <1>2, <1>3, <1>4, OffAssumption, TimeAssumption, NoExitAssumption
    DEF Kept, Known, Each, Staged, Told, Answered, Timed, Spent, Alive, Calm, Locks,
     Holds, Running, Extracting, ShellGets, GameGets, Code, Early, Waiting, How, GamePc
<1>5. Staged(l)'
  OBVIOUS
<1>6. Told(l)'
  OBVIOUS
<1>7. Answered(l)'
  OBVIOUS
<1>8. Timed(l)'
  OBVIOUS
<1>9. Holds(l)' => Holds(l) \/ \A k \in Launcher : ~Holds(k)
  OBVIOUS
<1>10. Locks(l)' => Locks(l) \/ \A k \in Launcher : ~Locks(k)
  OBVIOUS
<1> QED
  BY <1>5, <1>6, <1>7, <1>8, <1>9, <1>10

LEMMA EndGraceKeeps ==
  ASSUME SessionInv, NEW l \in Launcher, EndGrace(l)
  PROVE  Kept(l)
<1> sh \in Shells /\ game \in Games /\ Known(l)
  BY Knows
<1>1. IF Alive(l) THEN GameGets(l, "gone", "kill", game[l].asked, game[l].late,
                game[l].clock, game[l].saved)
      ELSE GameGets(l, game[l].pc, game[l].how, game[l].asked, game[l].late, game[l].clock, game[l].saved)
  BY SameGame, KilledGame DEF EndGrace, GamePc, How
<1>2. ShellGets(l, "rewait", sh[l].signals, sh[l].status, Off)
  BY RewaitShell DEF EndGrace, ShellPc, Waiting
<1>3. run' = run /\ sh[l].pc = "grace" /\ (sh[l].left = 0 \/ ~Alive(l))
  BY DEF EndGrace, Still, runVars
<1> QED
  BY <1>1, <1>2, <1>3, OffAssumption, TimeAssumption, NoExitAssumption
     DEF Kept, Known, Each, Staged, Told, Answered, Timed, Spent, Alive, Calm, Locks,
     Holds, Running, Extracting, ShellGets, GameGets, Code, Early, Waiting, How, GamePc

LEMMA RewaitKeeps ==
  ASSUME SessionInv, NEW l \in Launcher, Rewait(l)
  PROVE  Kept(l)
<1> sh \in Shells /\ game \in Games /\ Known(l)
  BY Knows
<1>1. GameGets(l, game[l].pc, game[l].how, game[l].asked, game[l].late, game[l].clock, game[l].saved)
  BY SameGame DEF Rewait
<1>2. Code(game[l].how) \in Ends
  BY DEF Known, Code, How, Ends
<1>3. ShellGets(l, "over", sh[l].signals,
                IF sh[l].status = 143 THEN Code(game[l].how) ELSE sh[l].status, sh[l].left)
  BY <1>2, Returned DEF Rewait, Known
<1>4. run' = run /\ sh[l].pc = "rewait" /\ ~Alive(l)
  BY DEF Rewait, Still, runVars
<1> QED
  BY <1>1, <1>2, <1>3, <1>4, OffAssumption, TimeAssumption, NoExitAssumption
     DEF Kept, Known, Each, Staged, Told, Answered, Timed, Spent, Alive, Calm, Locks,
     Holds, Running, Extracting, ShellGets, GameGets, Code, Early, Waiting, How, GamePc

LEMMA SignalKeeps ==
  ASSUME SessionInv, NEW l \in Launcher, Signal(l)
  PROVE  Kept(l)
<1> sh \in Shells /\ game \in Games /\ Known(l)
  BY Knows
<1>1. IF sh[l].pc = "wait" /\ Calm(l)
      THEN IF game[l].pc = "boot" THEN GameGets(l, "gone", "term", FALSE, 0, Off, game[l].saved)
           ELSE GameGets(l, game[l].pc, game[l].how, Alive(l) \/ game[l].asked, game[l].late,
                             game[l].clock, game[l].saved)
      ELSE GameGets(l, game[l].pc, game[l].how, game[l].asked, game[l].late,
                game[l].clock, game[l].saved)
  BY SameGame, TermedGame DEF Signal
<1>2. sh[l].signals + 1 \in 1..MaxSignals
  BY MaxSignalsAssumption DEF Signal, Known
<1>3. \/ ShellGets(l, sh[l].pc, sh[l].signals + 1, sh[l].status, sh[l].left)
      \/ /\ sh[l].pc = "wait"
         /\ ShellGets(l, "grace", sh[l].signals + 1, 143, Grace)
  <2>1. Grace \in 0..Grace \cup {Off}
    BY TimeAssumption
  <2>2. sh[l].signals + 1 \in 0..MaxSignals
    BY <1>2
  <2>3. "grace" \in ShellPc
    BY DEF ShellPc, Waiting
  <2> QED BY <2>1, <2>2, <2>3, Numbers, SignalShell, BrokenShell DEF Signal
<1>4. run' = run /\ sh[l].pc \in Early \cup {"spawn", "pid", "wait"}
  BY DEF Signal, Still, runVars
<1> USE <1>1, <1>2, <1>3, <1>4, OffAssumption, TimeAssumption, NoExitAssumption
    DEF Kept, Known, Each, Staged, Told, Answered, Timed, Spent, Alive, Calm, Locks,
     Holds, Running, Extracting, ShellGets, GameGets, Code, Early, Waiting, How, GamePc
<1>5. Staged(l)'
  OBVIOUS
<1>6. Told(l)'
  <2>1. CASE sh[l].pc = "wait" /\ Calm(l) /\ game[l].pc = "boot"
    BY <2>1
  <2>2. CASE sh[l].pc = "wait" /\ Calm(l) /\ game[l].pc # "boot"
    <3>1. CASE Alive(l)
      <4>1. game'[l].asked = TRUE
        BY <2>2, <3>1
      <4> QED BY <2>2, <3>1, <4>1
    <3>2. CASE ~Alive(l)
      <4>1. game'[l].asked = game[l].asked
        BY <2>2, <3>2
      <4> QED BY <2>2, <3>2, <4>1
    <3> QED BY <3>1, <3>2
  <2>3. CASE ~(sh[l].pc = "wait" /\ Calm(l))
    BY <2>3
  <2> QED BY <2>1, <2>2, <2>3
<1>7. Answered(l)'
  OBVIOUS
<1>8. Timed(l)'
  OBVIOUS
<1>9. Holds(l)' => Holds(l) \/ \A k \in Launcher : ~Holds(k)
  OBVIOUS
<1>10. Locks(l)' => Locks(l) \/ \A k \in Launcher : ~Locks(k)
  OBVIOUS
<1> QED
  BY <1>5, <1>6, <1>7, <1>8, <1>9, <1>10

LEMMA KillLauncherKeeps ==
  ASSUME SessionInv, NEW l \in Launcher, KillLauncher(l)
  PROVE  Kept(l)
<1> sh \in Shells /\ game \in Games /\ Known(l)
  BY Knows
<1>1. GameGets(l, game[l].pc, game[l].how, game[l].asked, game[l].late, game[l].clock, game[l].saved)
  BY SameGame DEF KillLauncher
<1>2. ShellGets(l, "dead", 0, NoExit, Off)
  BY DeadShell DEF KillLauncher
<1>3. run' = run
  BY DEF KillLauncher, Still, runVars
<1> QED
  BY <1>1, <1>2, <1>3, OffAssumption, TimeAssumption, NoExitAssumption
     DEF Kept, Known, Each, Staged, Told, Answered, Timed, Spent, Alive, Calm, Locks,
     Holds, Running, Extracting, ShellGets, GameGets, Code, Early, Waiting, How, GamePc

-----------------------------------------------------------------------------
LEMMA SessionInit == Init => SessionInv
<1> SUFFICES ASSUME Init PROVE SessionInv
  OBVIOUS
<1>1. RunInv
  BY InitGood DEF Init
<1>2. sh \in Shells /\ game \in Games
  BY TimeAssumption, MaxSignalsAssumption
     DEF Init, Shells, ShellRec, ShellPc, Games, GameRec, GamePc, How, NoShell, NoGame
<1>3. \A l \in Launcher : run[l].pc = "new" /\ sh[l].pc = "new" /\ game[l] = NoGame
  BY LauncherAssumption DEF Init, RunInit, NoShell
<1>4. Exclusion
  BY <1>3 DEF Exclusion, Holds, Locks, Running, Extracting, NoGame, Early, Waiting
<1>5. \A l \in Launcher : Each(l)
  BY <1>3, OffAssumption
     DEF Each, Staged, Told, Answered, Timed, NoGame, Early, Waiting, Alive, Locks
<1> QED BY <1>1, <1>2, <1>4, <1>5 DEF SessionInv
(* What a step of the installer may do to the run of a launcher.           *)
LEMMA RunKeeps ==
  ASSUME RunInv, NEW r \in Run, NEW l \in Run,
         (Begin(r) /\ r # l) \/ RunStep(r) \/ Strikes(r) \/ Ui(r)
  PROVE  /\ run[l].pc = "new" <=> run'[l].pc = "new"
         /\ run[l].pc = "over" => run'[l] = run[l]
<1> USE DEF RunInv, RunTypeOK, Goes
<1>1. CASE Begin(r) /\ r # l
  BY <1>1 DEF Begin
<1>2. CASE Acquire(r)
  BY <1>2 DEF Acquire, Reports
<1>3. CASE Clear(r)
  BY <1>3 DEF Clear
<1>4. CASE Decide(r)
  BY <1>4 DEF Decide, Reports
<1>5. CASE Open(r)
  BY <1>5 DEF Open
<1>6. CASE SpawnUi(r)
  BY <1>6 DEF SpawnUi
<1>7. CASE Prove(r)
  BY <1>7 DEF Prove, Fails, Reports
<1>8. CASE Adopt(r)
  BY <1>8 DEF Adopt, Reports
<1>9. CASE Work(r)
  BY <1>9 DEF Work, Guarded, Fails, Reports
<1>10. CASE Commit(r)
  BY <1>10 DEF Commit
<1>11. CASE Done(r)
  BY <1>11 DEF Done, Guarded, Fails, Reports
<1>12. CASE Ask(r)
  BY <1>12 DEF Ask, Stopped
<1>13. CASE Term(r)
  BY <1>13 DEF Term, Stopped
<1>14. CASE Publish(r)
  BY <1>14 DEF Publish
<1>15. CASE Release(r)
  BY <1>15 DEF Release
<1>16. CASE End(r)
  BY <1>16 DEF End
<1>17. CASE Raise(r)
  BY <1>17 DEF Raise, Fails, Reports, Locked
<1>18. CASE Interrupt(r)
  BY <1>18 DEF Interrupt, Reports, Locked, Stopping
<1>19. CASE Die(r)
  BY <1>19 DEF Die, Active, Locked, Stopping
<1>20. CASE Ui(r)
  BY <1>20 DEF Ui, UiShows, UiEnds
<1> QED
  BY <1>1, <1>2, <1>3, <1>4, <1>5, <1>6, <1>7, <1>8, <1>9, <1>10, <1>11, <1>12, <1>13, <1>14, <1>15, <1>16, <1>17, <1>18, <1>19, <1>20
     DEF RunStep, Strikes

LEMMA InstallStep ==
  ASSUME SessionInv, NEW r \in Run, Aside,
         Hand(r) \/ RunStep(r) \/ Strikes(r) \/ Ui(r)
  PROVE  SessionInv'
<1>1. RunInv'
  <2>1. RunNext
    BY DEF RunNext, Hand
  <2> QED BY <2>1, InvStep DEF SessionInv
<1>2. sh' = sh /\ game' = game
  BY DEF Aside
<1>3. \A l \in Launcher : /\ run[l].pc = "new" <=> run'[l].pc = "new"
                          /\ run[l].pc = "over" => run'[l] = run[l]
  BY LauncherAssumption, RunKeeps DEF SessionInv, Hand
<1>4. \A l \in Launcher : run[l].exit = 0 => run'[l].exit = 0
  BY <1>3, LauncherAssumption, NoExitAssumption DEF SessionInv, RunInv, Good, UiAt
<1>5. \A l \in Launcher : Holds(l)' => Holds(l)
  BY <1>2, <1>3 DEF Holds, Running, Extracting
<1>6. Exclusion'
  BY <1>2, <1>5 DEF SessionInv, Exclusion, Locks
<1>7. \A l \in Launcher : Staged(l)'
  BY <1>2, <1>3, <1>4 DEF SessionInv, Each, Staged
<1>8. \A l \in Launcher : Told(l)' /\ Answered(l)' /\ Timed(l)'
  BY <1>2 DEF SessionInv, Each, Told, Answered, Timed, Alive, Calm, Spent
<1> QED BY <1>1, <1>2, <1>6, <1>7, <1>8 DEF SessionInv, Each, Shells, Games
-----------------------------------------------------------------------------
LEMMA RunInvStep ==
  ASSUME SessionInv, NEW l \in Launcher, SessionStep(l)
  PROVE  RunInv'
<1>1. CASE UNCHANGED runVars
  BY <1>1 DEF SessionInv, runVars, RunInv, RunTypeOK, Good, Exclusive, PayloadAt, UiAt
<1>2. CASE KillLauncher(l)
  BY <1>2, MaxMishapsAssumption
     DEF KillLauncher, Mishap, SessionInv, RunInv, RunTypeOK, Good, Exclusive, PayloadAt, UiAt
<1>3. CASE Rotate(l)
  <2>1. run[l].pc = "new" /\ l \in Run
    BY <1>3, LauncherAssumption DEF Rotate, SessionInv, Each, Staged
  <2>2. RunTypeOK'
    BY <1>3, <2>1 DEF Rotate, SessionInv, RunInv, RunTypeOK, Active
  <2>3. \A k \in Run : Good(k)'
    BY <1>3, <2>1, NoExitAssumption
       DEF Rotate, SessionInv, RunInv, RunTypeOK, Good, Exclusive, PayloadAt, UiAt, Locked
  <2> QED BY <2>2, <2>3 DEF RunInv
<1> QED
  BY <1>1, <1>2, <1>3
     DEF SessionStep, LauncherStep, GameStep, Lock, Extracted, Check, Splash, Abort, Spawn,
         CatchUp, Wait, EndGrace, Rewait, Signal, Boot, Load, Leave, Save, Exit, FaultOf,
         Expire, Still

LEMMA SessionStepKeeps ==
  ASSUME SessionInv, NEW l \in Launcher, SessionStep(l)
  PROVE  Kept(l)
BY LockKeeps, RotateKeeps, ExtractedKeeps, CheckKeeps, SplashKeeps, AbortKeeps, SpawnKeeps,
   CatchUpKeeps, WaitKeeps, EndGraceKeeps, RewaitKeeps, SignalKeeps, KillLauncherKeeps,
   BootKeeps, LoadKeeps, LeaveKeeps, SaveKeeps, ExitKeeps, FaultOfKeeps, ExpireKeeps
   DEF SessionStep, LauncherStep, GameStep

LEMMA SessionStepInv ==
  ASSUME SessionInv, NEW l \in Launcher, SessionStep(l)
  PROVE  SessionInv'
<1>1. Kept(l)
  BY SessionStepKeeps
<1>2. RunInv'
  BY RunInvStep
<1>3. ASSUME NEW k \in Launcher, k # l
      PROVE  Each(k)' /\ (Holds(k)' <=> Holds(k)) /\ (Locks(k)' <=> Locks(k))
  <2>1. sh'[k] = sh[k] /\ game'[k] = game[k] /\ run'[k] = run[k]
    BY <1>1, <1>3 DEF Kept
  <2>2. Each(k)
    BY DEF SessionInv
  <2> QED
    BY <2>1, <2>2 DEF Each, Staged, Told, Answered, Timed, Spent, Alive, Calm, Locks, Holds,
       Running, Extracting
<1>4. \A k \in Launcher : Each(k)'
  BY <1>1, <1>3 DEF Kept, Each
<1>5. Exclusion'
  <2> HIDE DEF Holds, Locks
  <2>1. \A k, j \in Launcher : Holds(k)' /\ Holds(j)' => k = j
    BY <1>1, <1>3 DEF Kept, SessionInv, Exclusion
  <2>2. \A k, j \in Launcher : Locks(k)' /\ Locks(j)' => k = j
    BY <1>1, <1>3 DEF Kept, SessionInv, Exclusion
  <2> QED BY <2>1, <2>2 DEF Exclusion
<1> QED BY <1>1, <1>2, <1>4, <1>5 DEF SessionInv, Kept

(* A tick: what is counted moves by one, the rest stays.                   *)
LEMMA TickStep ==
  ASSUME SessionInv, Tick
  PROVE  SessionInv'
<1> USE TimeAssumption, OffAssumption
<1>1. run' = run /\ RunInv'
  BY ZenonT(60) DEF Tick, SessionInv, runVars, RunInv, RunTypeOK, Good, Exclusive, PayloadAt, UiAt
<1>2. ASSUME NEW l \in Launcher
      PROVE  /\ sh'[l] \in ShellRec
             /\ sh'[l].pc = sh[l].pc /\ sh'[l].signals = sh[l].signals
             /\ sh'[l].status = sh[l].status
             /\ sh'[l].left = IF Counting(l) THEN sh[l].left - 1 ELSE sh[l].left
  <2>1. sh[l] \in ShellRec /\ ~Due(l) /\ Timed(l)
    BY DEF SessionInv, Shells, Tick, Each
  <2>2. CASE Counting(l)
    <3>1. sh'[l] = [sh[l] EXCEPT !.left = @ - 1]
      BY <2>2 DEF Tick
    <3>2. sh[l].left - 1 \in 0..Grace
      BY <2>1, <2>2 DEF Counting, Due, Timed
    <3> QED BY <2>1, <2>2, <3>1, <3>2 DEF ShellRec
  <2>3. CASE ~Counting(l)
    BY <2>1, <2>3 DEF Tick
  <2> QED BY <2>2, <2>3
<1>3. ASSUME NEW l \in Launcher
      PROVE  /\ game'[l] \in GameRec
             /\ game'[l].pc = game[l].pc /\ game'[l].how = game[l].how
             /\ game'[l].asked = game[l].asked
             /\ game'[l].clock = IF Ticking(l) THEN game[l].clock - 1 ELSE game[l].clock
             /\ game'[l].late = IF /\ game[l].asked /\ game[l].pc \in {"load", "play"}
                                   /\ game[l].late < Grace
                                THEN game[l].late + 1 ELSE game[l].late
  <2> DEFINE clock == IF Ticking(l) THEN game[l].clock - 1 ELSE game[l].clock
             late == IF /\ game[l].asked /\ game[l].pc \in {"load", "play"}
                        /\ game[l].late < Grace
                     THEN game[l].late + 1 ELSE game[l].late
  <2>1. game[l] \in GameRec /\ ~Due(l)
    BY DEF SessionInv, Games, Tick
  <2>2. game'[l] = [game[l] EXCEPT !.clock = clock, !.late = late]
    BY DEF Tick
  <2>3. clock \in 0..Deadline \cup {Off} /\ late \in 0..Grace
    BY <2>1 DEF GameRec, Ticking, Due
  <2> HIDE DEF clock, late
  <2>4. /\ game'[l] \in GameRec
        /\ game'[l].pc = game[l].pc /\ game'[l].how = game[l].how
        /\ game'[l].asked = game[l].asked /\ game'[l].clock = clock /\ game'[l].late = late
    BY <2>1, <2>2, <2>3 DEF GameRec
  <2> QED BY <2>4 DEF clock, late
<1>4. sh' \in Shells /\ game' \in Games
  <2>1. sh' = [l \in Launcher |-> sh'[l]] /\ game' = [l \in Launcher |-> game'[l]]
    BY DEF Tick
  <2> QED BY <2>1, <1>2, <1>3 DEF Shells, Games
<1>5. Exclusion'
  BY <1>1, <1>2, <1>3 DEF SessionInv, Exclusion, Holds, Locks, Running, Extracting
<1>6. ASSUME NEW l \in Launcher PROVE Each(l)'
  <2>1. Known(l) /\ ~Due(l)
    BY Knows DEF Tick
  <2>2. game'[l].clock = Off <=> game[l].clock = Off
    BY <1>3, <2>1 DEF Known, Ticking, Due
  <2>3. Staged(l)' /\ Answered(l)'
    BY <1>1, <1>2, <1>3, <2>1 DEF Known, Each, Staged, Answered, Alive, Code
  <2>4. Told(l)'
    BY <1>2, <1>3, <2>1, <2>2 DEF Known, Each, Told, Alive, Calm, Ticking
  <2>5. Timed(l)'
    BY <1>2, <1>3, <2>1, <2>2
       DEF Known, Each, Told, Timed, Spent, Alive, Calm, Counting, Ticking, Due, GamePc
  <2> QED BY <2>3, <2>4, <2>5 DEF Each
<1> QED BY <1>1, <1>4, <1>5, <1>6 DEF SessionInv

LEMMA SessionKeeps == SessionInv /\ [Next]_vars => SessionInv'
<1> SUFFICES ASSUME SessionInv, [Next]_vars PROVE SessionInv'
  OBVIOUS
<1>1. CASE UNCHANGED vars
  <2>1. sh' = sh /\ game' = game /\ UNCHANGED runVars
    BY <1>1 DEF vars
  <2>2. RunInv'
    BY <2>1, InvStep DEF SessionInv
  <2> QED
    BY <2>1, <2>2 DEF runVars, SessionInv, Shells, Games, Exclusion, Holds, Locks, Running,
       Extracting, Each, Staged, Told, Answered, Timed, Spent, Alive, Calm
<1>2. ASSUME NEW r \in Run, (Hand(r) \/ RunStep(r) \/ Strikes(r) \/ Ui(r)) /\ Aside
      PROVE  SessionInv'
  BY <1>2, InstallStep
<1>3. ASSUME NEW l \in Launcher, SessionStep(l)
      PROVE  SessionInv'
  BY <1>3, SessionStepInv
<1>4. CASE Tick
  BY <1>4, TickStep
<1> QED BY <1>1, <1>2, <1>3, <1>4 DEF Next, SessionStep

LEMMA SessionHolds == Spec => []SessionInv
<1> QED BY SessionInit, SessionKeeps, PTL DEF Spec
-----------------------------------------------------------------------------
(* Every variable keeps its type.                                          *)
THEOREM SessionTypeOK == Spec => []TypeOK
<1>1. SessionInv => TypeOK
  BY DEF SessionInv, RunInv, TypeOK, Shells, ShellRec, ShellPc, Games, GameRec, GamePc, How
<1> QED BY <1>1, SessionHolds, PTL

(* Two starts of the port never have a run of the installer at the same    *)
(* time, also when a launcher was killed over its own.                     *)
THEOREM OneInstallAtATimeAlways == Spec => []OneInstallAtATime
<1>1. SessionInv => OneInstallAtATime
  BY DEF SessionInv, Exclusion, Holds, OneInstallAtATime
<1> QED BY <1>1, SessionHolds, PTL

(* A game starts only over data its own installer found or made good,      *)
(* whatever other runs leave in the result.                                *)
THEOREM StartsOnGoodDataAlways == Spec => []StartsOnGoodData
<1>1. SessionInv => StartsOnGoodData
  BY LauncherAssumption, NoExitAssumption DEF SessionInv, Each, Staged, RunInv, Good, UiAt, PayloadAt, StartsOnGoodData
<1> QED BY <1>1, SessionHolds, PTL

(* One game plays, and no setup UI its run could have ended is left.       *)
THEOREM OneOnScreenAlways == Spec => []OneOnScreen
<1>1. SessionInv => OneOnScreen
  BY LauncherAssumption, NoExitAssumption
     DEF SessionInv, Exclusion, Locks, Each, Staged, RunInv, Good, UiAt, OneOnScreen
<1> QED BY <1>1, SessionHolds, PTL

(* A request to end reaches the game, whenever it comes.                   *)
THEOREM SignalIsAlwaysPassedOn == Spec => []SignalIsPassedOn
<1>1. SessionInv => SignalIsPassedOn
  BY DEF SessionInv, Each, Told, SignalIsPassedOn
<1> QED BY <1>1, SessionHolds, PTL

(* With the shorter deadline in the game, the launcher kills no save that  *)
(* began in time.                                                          *)
THEOREM SaveIsNeverCut == Spec => []SaveIsNotCut
<1>1. SessionInv => SaveIsNotCut
  BY DEF SessionInv, Each, Timed, SaveIsNotCut
<1> QED BY <1>1, SessionHolds, PTL

(* A launcher that started a game returns the game's own status.           *)
THEOREM StatusIsAlwaysTheGames == Spec => []StatusIsTheGames
<1>1. SessionInv => StatusIsTheGames
  BY DEF SessionInv, Each, Answered, StatusIsTheGames
<1> QED BY <1>1, SessionHolds, PTL

(* What InstallRun promises of the installer holds in a session too, where *)
(* a launcher clears the result before it starts its run and can be killed *)
(* over it.  Nobody builds on or reports a payload in pieces.              *)
THEOREM TornIsOwnedInSession == Spec => []TornIsOwned
<1>1. SessionInv => TornIsOwned
  BY GoodGives DEF SessionInv
<1> QED BY <1>1, SessionHolds, PTL

(* A run that has reported success, to the launcher of a session or by     *)
(* hand, leaves a payload that stays ready.                                *)
THEOREM SuccessIsTrueInSession == Spec => []SuccessIsTrue
<1>1. SessionInv => SuccessIsTrue
  BY GoodGives DEF SessionInv
<1> QED BY <1>1, SessionHolds, PTL

(* The game of a session finds no setup UI that a finished run left.       *)
THEOREM UiEndsWithRunInSession == Spec => []UiEndsWithRun
<1>1. SessionInv => UiEndsWithRun
  BY GoodGives DEF SessionInv
<1> QED BY <1>1, SessionHolds, PTL

(* A launcher takes no run back either: it starts one that is new.         *)
THEOREM RunAdvancesInSession == Spec => RunAdvances
<1> DEFINE Advance == \A r \in Run : run'[r] # run[r] => StepsLeft(run'[r]) < StepsLeft(run[r])
<1>1. ASSUME SessionInv, [Next]_vars PROVE [Advance]_runVars
  <2>1. CASE \E r \in Run : Hand(r) \/ RunStep(r) \/ Strikes(r) \/ Ui(r)
    BY <1>1, <2>1, StepAdvances DEF SessionInv, Hand
  <2>2. ASSUME NEW l \in Launcher, Rotate(l) PROVE Advance
    <3>1. l \in Run /\ run[l].pc = "new" /\ run' = [run EXCEPT ![l].pc = "lock"]
      BY <1>1, <2>2, LauncherAssumption DEF Rotate, SessionInv, Each, Staged
    <3>2. run \in Runs
      BY <1>1 DEF SessionInv, RunInv, RunTypeOK, Runs, Pc
    <3>3. run' \in Runs
      BY <3>1, <3>2, PcSet DEF Pc, Active
    <3>4. ASSUME NEW r \in Run, run'[r] # run[r]
          PROVE  StepsLeft(run'[r]) < StepsLeft(run[r])
      <4>1. run[r].pc = "new" /\ run'[r].pc = "lock"
        BY <3>1, <3>2, <3>4 DEF Runs
      <4>2. Place("new") < Place("lock")
        BY DEF Place
      <4> QED BY <3>2, <3>3, <4>1, <4>2, LaterIsLess
    <3> QED BY <3>4
  <2>3. run' = run => Advance
    OBVIOUS
  <2>4. ASSUME NEW l \in Launcher, SessionStep(l) PROVE Rotate(l) \/ run' = run
    BY <2>4
       DEF SessionStep, runVars, LauncherStep, GameStep, Lock, Extracted, Check, Splash, Abort,
           Spawn, CatchUp, Wait, EndGrace, Rewait, Signal, KillLauncher, Boot, Load, Leave,
           Save, Exit, FaultOf, Expire, Still
  <2>5. Tick \/ UNCHANGED vars => run' = run
    BY DEF Tick, vars, runVars
  <2> HIDE DEF Advance
  <2> QED BY <1>1, <2>1, <2>2, <2>3, <2>4, <2>5 DEF Next, SessionStep
<1>2. SessionInv /\ [Next]_vars => [Advance]_runVars
  BY <1>1
<1> HIDE DEF Advance
<1>3. Spec => [][Advance]_runVars
  BY <1>2, SessionHolds, PTL DEF Spec
<1> QED BY <1>3 DEF RunAdvances, Advance
=============================================================================
