------------------------------ MODULE PadInput ------------------------------
(***************************************************************************)
(* The gamepad of the port: how a press travels from SDL to the engine,    *)
(* and how SELECT+START becomes a request to leave.  Everything here runs  *)
(* in the main loop of src/main.c, on one thread, but three pieces of code *)
(* keep a view of the buttons of their own:                                *)
(*                                                                         *)
(*   game   main.c: the buttons reported to the engine, the releases put   *)
(*          off to the next frame, and an exit chord;                      *)
(*   nx     vendor/nxinput: the pads that are open, their buttons, the     *)
(*          focus, and an exit chord per pad;                              *)
(*   chord  nxinput_evdev_chord.h: an exit chord polled from the state of  *)
(*          the first pad, and from raw devices when no pad is open.       *)
(*                                                                         *)
(* SDL is the environment.  It keeps the state of every pad and a queue of *)
(* events.  State and queue change when SDL pumps, which is while the      *)
(* program polls events or updates the pads; code that reads the state     *)
(* may therefore be ahead of code that reads the queue.                    *)
(***************************************************************************)
EXTENDS Naturals, Sequences

CONSTANTS
  Pads,           \* game controllers SDL knows
  RawPads,        \* /dev/input devices watched without SDL
  Buttons,        \* the buttons of a controller
  BACK, START,    \* the two buttons of the chord
  NoPad,          \* an empty slot
  MaxPads,        \* NXINPUT_MAX_PADS
  HoldPolls,      \* NX_EXIT_CHORD_HOLD_POLLS
  AnnounceAfter,  \* frames before the pad is announced (120)
  MaxQueue        \* bound on the events SDL holds

ASSUME ButtonAssumption == BACK \in Buttons /\ START \in Buttons /\ BACK # START
ASSUME PadAssumption == NoPad \notin Pads
ASSUME LimitAssumption ==
  /\ MaxPads \in Nat \ {0}
  /\ HoldPolls \in Nat \ {0}
  /\ AnnounceAfter \in Nat \ {0}
  /\ MaxQueue \in Nat

VARIABLES
  sdl,       \* SDL: the buttons down on each pad
  attached,  \* SDL: the pads that are plugged in
  focus,     \* SDL: does the window have the focus
  queue,     \* SDL: events not polled yet
  raw,       \* raw devices: the chord keys down, and those that changed
  pc,        \* where the main loop is
  game,      \* main.c
  nx,        \* nxinput
  chord,     \* nxinput_evdev_chord.h
  unseen,    \* history: buttons pressed since the engine last read them
  owed,      \* history: buttons pressed and neither released nor lost since
  together   \* history: some pad has had BACK and START down at once

sdlVars == <<sdl, attached, focus, queue, raw>>
history == <<unseen, owed, together>>
vars == <<sdl, attached, focus, queue, raw, pc, game, nx, chord,
          unseen, owed, together>>

Chord == {BACK, START}
Slots == 1 .. MaxPads

\* Why the main loop was asked to stop; the first reason is kept.
Reasons == {"none", "pad", "held", "raw", "nxinput", "quit"}

ButtonEvents == [type : {"down", "up"}, pad : Pads, button : Buttons]
PlugEvents == [type : {"added", "removed"}, pad : Pads]
WindowEvents == [type : {"focus lost", "focus gained", "quit"}]
Events == ButtonEvents \cup PlugEvents \cup WindowEvents

TypeOK ==
  /\ sdl \in [Pads -> SUBSET Buttons]
  /\ attached \subseteq Pads
  /\ focus \in BOOLEAN
  /\ queue \in Seq(Events)
  /\ raw \in [RawPads -> [down : SUBSET Chord, changed : SUBSET Chord]]
  /\ pc \in {"frame", "events", "sample", "render", "left"}
  /\ game \in [down : SUBSET Buttons, pending : SUBSET Buttons,
               fresh : SUBSET Buttons, chord : SUBSET Chord,
               engine : SUBSET Buttons, announceAt : 0 .. AnnounceAfter,
               announced : BOOLEAN, exit : Reasons]
  /\ nx \in [slots : [Slots -> Pads \cup {NoPad}],
             buttons : [Pads -> SUBSET Buttons], active : SUBSET Pads,
             focused : BOOLEAN, quit : BOOLEAN]
  /\ chord \in [bound : BOOLEAN, hold : 0 .. HoldPolls, fired : BOOLEAN,
                down : [RawPads -> SUBSET Chord], rawFired : BOOLEAN]
  /\ unseen \subseteq Buttons
  /\ owed \subseteq Buttons
  /\ together \in BOOLEAN

-----------------------------------------------------------------------------
(* main.c: the buttons the engine is told about *)

Asked(g, reason) == IF g.exit = "none" THEN [g EXCEPT !.exit = reason] ELSE g

\* track_exit_chord
TrackExitChord(g, b, pressed) ==
  LET c == IF ~pressed THEN g.chord \ {b} ELSE g.chord \cup ({b} \cap Chord)
      h == [g EXCEPT !.chord = c]
  IN  IF c = Chord THEN Asked(h, "pad") ELSE h

\* The end of send_button: the chord and the call into the engine.
Tell(g, b, pressed) ==
  LET h == TrackExitChord(g, b, pressed)
  IN  [h EXCEPT !.engine = IF pressed THEN @ \cup {b} ELSE @ \ {b}]

\* A release that shows at once, whatever was pressed in this frame.
ReleaseUnlatched(g, b) == Tell([g EXCEPT !.down = @ \ {b}], b, FALSE)

\* send_button(b, 0)
Release(g, b) ==
  IF b \in g.fresh
  THEN [g EXCEPT !.pending = @ \cup {b}]
  ELSE Tell([g EXCEPT !.down = @ \ {b}], b, FALSE)

\* send_button(b, 1)
Press(g, b) ==
  Tell([g EXCEPT !.down = @ \cup {b}, !.fresh = @ \cup {b}], b, TRUE)

\* flush_pending_releases: nothing is fresh any more, so every release that
\* was put off reaches the engine.
FlushPending(g) ==
  [g EXCEPT !.fresh = {}, !.pending = {}, !.down = @ \ g.pending,
            !.engine = @ \ g.pending, !.chord = @ \ g.pending]

\* release_all_buttons with the pending releases dropped last.
ReleaseAllThenForget(g) ==
  LET gone == g.down \ g.fresh
  IN  [g EXCEPT !.pending = {}, !.down = @ \ gone, !.engine = @ \ gone,
                !.chord = {}]

\* release_all_buttons: what was pressed in this frame is put off again.
ReleaseAll(g) ==
  LET gone == g.down \ g.fresh
  IN  [g EXCEPT !.pending = g.down \cap g.fresh, !.down = @ \ gone,
                !.engine = @ \ gone, !.chord = {}]

-----------------------------------------------------------------------------
(* nxinput: one slot per pad, its buttons and its chord *)

OpenPads(n) == {n.slots[i] : i \in Slots} \ {NoPad}
HasController(n) == OpenPads(n) # {}

\* nxinput_core_set_button
SetButton(n, p, b, down) ==
  LET held == IF down THEN n.buttons[p] \cup {b} ELSE n.buttons[p] \ {b}
      both == Chord \subseteq held
  IN  [n EXCEPT !.buttons[p] = held,
                !.active = IF both THEN @ \cup {p} ELSE @ \ {p},
                !.quit = @ \/ (both /\ p \notin n.active)]

\* nxinput_core_release_all
ForgetButtons(n, ps) ==
  [n EXCEPT !.buttons = [p \in Pads |-> IF p \in ps THEN {} ELSE @[p]],
            !.active = @ \ ps]

\* nxinput_sample_slot for each of some pads.  The buttons are set one by one,
\* BACK before START, so a chord can be complete in between.
Sample(n, ps) ==
  LET between(p) == Chord \subseteq (n.buttons[p] \ {BACK}) \cup (sdl[p] \cap {BACK})
      held == {p \in ps : Chord \subseteq sdl[p]}
  IN  IF ~n.focused THEN n
      ELSE [n EXCEPT
              !.buttons = [p \in Pads |-> IF p \in ps THEN sdl[p] ELSE @[p]],
              !.active = (@ \ ps) \cup held,
              !.quit = @ \/ \E p \in ps : IF between(p) THEN p \notin n.active
                                          ELSE p \in held]

\* The slots after pads were opened in some order, each in the first free one.
Fillings(n, ps) ==
  LET new == (ps \cap attached) \ OpenPads(n)
  IN  {s \in [Slots -> Pads \cup {NoPad}] :
         /\ \A i \in Slots : s[i] = n.slots[i] \/ (n.slots[i] = NoPad /\ s[i] \in new)
         /\ \A i, j \in Slots :
              i < j /\ s[j] \in new => s[i] # NoPad /\ s[i] # s[j]
         /\ (\E i \in Slots : s[i] = NoPad) => \A p \in new : \E i \in Slots : s[i] = p}

\* nxinput_open_device on each of some devices, whose order is SDL's.
OpenDevices(n, ps) ==
  {LET m == [n EXCEPT !.slots = s]
       new == OpenPads(m) \ OpenPads(n)
   IN  Sample(ForgetButtons(m, new), new) : s \in Fillings(n, ps)}

\* nxinput_rescan
Rescan(n) == OpenDevices(n, attached)

\* nxinput_disconnect_slot of the slots of some pads
Disconnect(n, ps) ==
  [ForgetButtons(n, ps \cap OpenPads(n)) EXCEPT
     !.slots = [i \in Slots |-> IF @[i] \in ps THEN NoPad ELSE @[i]]]

\* nxinput_set_focus
SetFocus(n, f) ==
  IF n.focused = f THEN n
  ELSE LET m == [n EXCEPT !.focused = f]
       IN  IF f THEN m ELSE ForgetButtons(m, OpenPads(m))

\* nxinput_observe_event
Observe(n, e) ==
  CASE e.type = "added"        -> OpenDevices(n, {e.pad})
    [] e.type = "removed"      -> {Disconnect(n, {e.pad})}
    [] e.type \in {"down", "up"} ->
         {IF e.pad \in OpenPads(m) /\ m.focused
          THEN SetButton(m, e.pad, e.button, e.type = "down")
          ELSE m : m \in (IF e.pad \in OpenPads(n) THEN {n} ELSE Rescan(n))}
    [] e.type = "focus lost"   -> {SetFocus(n, FALSE)}
    [] e.type = "focus gained" -> {SetFocus(n, TRUE)}
    [] OTHER                   -> {n}

\* nxinput_poll: pads that went away are closed, the others are read from
\* SDL's state.  The periodic rescan may be due or not.
PollNoSample(n) ==
  LET left == Disconnect(n, OpenPads(n) \ attached)
  IN  {left} \cup Rescan(left)

Poll(n) ==
  LET left == Disconnect(n, OpenPads(n) \ attached)
      read == Sample(left, OpenPads(left))
  IN  {read} \cup Rescan(read)

-----------------------------------------------------------------------------
(* nxinput_evdev_chord.h: the chord by state *)

\* nxinput_first_connected, passed on by ct_exit_chord_set_controller
FirstPad(n) ==
  LET taken == {i \in Slots : n.slots[i] # NoPad}
  IN  IF taken = {} THEN NoPad
      ELSE n.slots[CHOOSE i \in taken : \A j \in taken : i <= j]

\* nx_evdev_chord_bind_sdl, without the reset of the raw keys
BindKeepsKeys(c, bound) ==
  IF c.bound = bound THEN c ELSE [c EXCEPT !.bound = bound, !.rawFired = FALSE]

\* nx_evdev_chord_bind_sdl
Bind(c, bound) ==
  IF c.bound = bound THEN c
  ELSE [c EXCEPT !.bound = bound, !.rawFired = FALSE,
                 !.down = [r \in RawPads |-> {}]]

\* nx_exit_chord_poll_sdl
PollState(c, p) ==
  IF p = NoPad \/ ~(Chord \subseteq sdl[p])
  THEN [c EXCEPT !.hold = 0, !.fired = FALSE]
  ELSE LET h == IF c.hold < HoldPolls THEN c.hold + 1 ELSE c.hold
       IN  [c EXCEPT !.hold = h, !.fired = @ \/ h >= HoldPolls]

\* nx_evdev_chord_poll: the devices are always drained, and followed only
\* while no pad is bound.
PollRaw(c) ==
  IF c.bound THEN c
  ELSE LET keys == [r \in RawPads |-> (c.down[r] \ raw[r].changed)
                                        \cup (raw[r].down \cap raw[r].changed)]
       IN  [c EXCEPT !.down = keys,
                     !.rawFired = \E r \in RawPads : keys[r] = Chord]

-----------------------------------------------------------------------------
(* SDL and the devices.  SDL pumps while the program polls events and while *)
(* nxinput updates the pads.                                                *)

Pumping == pc \in {"events", "sample"}

Send(e) ==
  /\ Pumping
  /\ Len(queue) < MaxQueue
  /\ queue' = Append(queue, e)

\* A button of a pad goes down or up.  Without the focus SDL drops presses.
Button(p, b, down) ==
  /\ p \in attached
  /\ (b \in sdl[p]) # down
  /\ down => focus
  /\ Send([type |-> IF down THEN "down" ELSE "up", pad |-> p, button |-> b])
  /\ sdl' = [sdl EXCEPT ![p] = IF down THEN @ \cup {b} ELSE @ \ {b}]
  /\ together' = (together \/ Chord \subseteq sdl'[p])
  /\ UNCHANGED <<attached, focus, raw, pc, game, nx, chord, unseen, owed>>

\* A pad is plugged in: for SDL a new device, of which nothing is left.
Plug(p) ==
  /\ p \notin attached
  /\ p \notin OpenPads(nx)
  /\ \A i \in DOMAIN queue :
       queue[i].type \in {"down", "up", "added", "removed"} => queue[i].pad # p
  /\ Send([type |-> "added", pad |-> p])
  /\ attached' = attached \cup {p}
  /\ UNCHANGED <<sdl, focus, raw, pc, game, nx, chord, history>>

Unplug(p) ==
  /\ p \in attached
  /\ Send([type |-> "removed", pad |-> p])
  /\ attached' = attached \ {p}
  /\ sdl' = [sdl EXCEPT ![p] = {}]
  /\ UNCHANGED <<focus, raw, pc, game, nx, chord, history>>

Focus(f) ==
  /\ focus # f
  /\ Send([type |-> IF f THEN "focus gained" ELSE "focus lost"])
  /\ focus' = f
  /\ UNCHANGED <<sdl, attached, raw, pc, game, nx, chord, history>>

Quit ==
  /\ Send([type |-> "quit"])
  /\ UNCHANGED <<sdl, attached, focus, raw, pc, game, nx, chord, history>>

\* A key of a raw device; the kernel keeps the event until it is read.
RawKey(r, k) ==
  /\ raw' = [raw EXCEPT ![r] =
               [down    |-> IF k \in @.down THEN @.down \ {k} ELSE @.down \cup {k},
                changed |-> @.changed \cup {k}]]
  /\ UNCHANGED <<sdl, attached, focus, queue, pc, game, nx, chord, history>>

-----------------------------------------------------------------------------
(* The main loop *)

\* The delay of the announcement.
CountDown(n) == IF n > 0 THEN n - 1 ELSE n

\* One turn starts: the releases put off, the chord by state, the pad
\* announced once the scene has lived for a while.
Frame ==
  /\ pc = "frame"
  /\ game.exit = "none"
  /\ LET first == FirstPad(nx)
         state == PollState(Bind(chord, first # NoPad), first)
         after == PollRaw(state)
         held  == state.fired /\ ~chord.fired
         rawed == after.rawFired /\ ~state.rawFired
         due   == game.announceAt = 1 /\ HasController(nx)
         told  == [FlushPending(game) EXCEPT
                     !.announceAt = CountDown(@),
                     !.announced = @ \/ due]
     IN  /\ chord' = IF held THEN state ELSE after
         /\ raw' = IF held THEN raw ELSE [r \in RawPads |-> [raw[r] EXCEPT !.changed = {}]]
         /\ game' = IF held THEN Asked(told, "held")
                    ELSE IF rawed THEN Asked(told, "raw") ELSE told
  /\ pc' = "events"
  /\ UNCHANGED <<sdl, attached, focus, queue, nx, history>>

\* SDL_CONTROLLERDEVICEADDED, leaving it to the delayed announcement
AddedQuietly(g, n) == g

\* SDL_CONTROLLERDEVICEADDED
Added(g, n) == [g EXCEPT !.announced = @ \/ HasController(n)]

\* The switch over one polled event.
Handle(g, n, e) ==
  CASE e.type = "down" -> Press(g, e.button)
    [] e.type = "up" -> Release(g, e.button)
    [] e.type \in {"removed", "focus lost"} -> ReleaseAll(g)
    [] e.type = "added" -> Added(g, n)
    [] e.type = "quit" -> Asked(g, "quit")
    [] OTHER -> g

\* One event of while (SDL_PollEvent(&e)); nxinput sees it first.
PollEvent ==
  /\ pc = "events"
  /\ queue # <<>>
  /\ LET e == Head(queue)
     IN  /\ nx' \in Observe(nx, e)
         /\ game' = Handle(game, nx', e)
         /\ unseen' = IF e.type = "down" THEN unseen \cup {e.button} ELSE unseen
         /\ owed' = CASE e.type = "down" -> owed \cup {e.button}
                      [] e.type = "up" -> owed \ {e.button}
                      [] e.type \in {"removed", "focus lost"} -> {}
                      [] OTHER -> owed
  /\ queue' = Tail(queue)
  /\ UNCHANGED <<sdl, attached, focus, raw, pc, chord, together>>

\* SDL_PollEvent returned 0.
NoMoreEvents ==
  /\ pc = "events"
  /\ queue = <<>>
  /\ pc' = "sample"
  /\ UNCHANGED <<sdlVars, game, nx, chord, history>>

\* ct_framework_poll_input and ct_framework_consume_quit
PollInput ==
  /\ pc = "sample"
  /\ \E n \in Poll(nx) :
       /\ nx' = [n EXCEPT !.quit = FALSE]
       /\ game' = IF n.quit THEN Asked(game, "nxinput") ELSE game
  /\ pc' = "render"
  /\ UNCHANGED <<sdlVars, chord, history>>

\* nativeRender: the engine reads the state of the buttons once.
Render ==
  /\ pc = "render"
  /\ unseen' = {}
  /\ pc' = "frame"
  /\ UNCHANGED <<sdlVars, game, nx, chord, owed, together>>

\* while (!ct_exit_requested()) ends.
Leave ==
  /\ pc = "frame"
  /\ game.exit # "none"
  /\ pc' = "left"
  /\ UNCHANGED <<sdlVars, game, nx, chord, history>>

-----------------------------------------------------------------------------
(* Before the loop SDL has queued one event for every pad it found, and     *)
(* nxinput_create has opened them.  Nothing polls events before the loop.   *)

Init ==
  /\ attached \in {{}} \cup {{p} : p \in Pads}
  /\ sdl = [p \in Pads |-> {}]
  /\ focus = TRUE
  /\ queue = IF attached = {} THEN <<>>
             ELSE <<[type |-> "added", pad |-> CHOOSE p \in attached : TRUE]>>
  /\ raw = [r \in RawPads |-> [down |-> {}, changed |-> {}]]
  /\ pc = "frame"
  /\ game = [down |-> {}, pending |-> {}, fresh |-> {}, chord |-> {},
             engine |-> {}, announceAt |-> AnnounceAfter, announced |-> FALSE,
             exit |-> "none"]
  /\ nx \in Rescan([slots |-> [i \in Slots |-> NoPad],
                     buttons |-> [p \in Pads |-> {}], active |-> {},
                     focused |-> TRUE, quit |-> FALSE])
  /\ chord = [bound |-> FALSE, hold |-> 0, fired |-> FALSE,
              down |-> [r \in RawPads |-> {}], rawFired |-> FALSE]
  /\ unseen = {}
  /\ owed = {}
  /\ together = FALSE

Environment ==
  \/ \E p \in Pads : \/ \E b \in Buttons, d \in BOOLEAN : Button(p, b, d)
                     \/ Plug(p)
                     \/ Unplug(p)
  \/ \E f \in BOOLEAN : Focus(f)
  \/ Quit
  \/ \E r \in RawPads, k \in Chord : RawKey(r, k)

Loop == Frame \/ PollEvent \/ NoMoreEvents \/ PollInput \/ Render \/ Leave

Next == Loop \/ Environment

Spec == Init /\ [][Next]_vars

-----------------------------------------------------------------------------
(* Properties *)

\* A button whose press was handled since the engine last read the pad is
\* down for the engine when it reads, however short the press was and
\* whatever else happened in that frame: "a engine precisa VER o press"
\* (main.c, send_button).
PressIsSeen == pc = "render" => unseen \subseteq game.engine

\* A button the engine takes for pressed is down on some pad, or its release
\* is on the way: put off to the next frame, or in an event not polled yet.
\* "Nenhum botao pode ficar preso" (main.c, release_all_buttons): neither an
\* unplugged pad nor a lost focus leaves a button down.
NothingStuck ==
  \A b \in game.engine :
    \/ \E p \in attached : b \in sdl[p]
    \/ b \in game.pending
    \/ \E i \in DOMAIN queue :
         \/ queue[i].type \in {"removed", "focus lost"}
         \/ queue[i].type = "up" /\ queue[i].button = b

\* When an open pad with the focus has BACK and START down, that frame asks
\* the loop to stop, also when the chord was formed before the pad was opened
\* or while the window had no focus and the events went unheard.
HeldChordQuits ==
  pc = "render" /\ nx.focused /\ (\E p \in OpenPads(nx) : Chord \subseteq sdl[p])
    => game.exit # "none"

\* The raw devices end the game only when one of them has both keys down at
\* that moment and no controller is open: with a controller open these key
\* codes may be other buttons (nxinput_evdev_chord.h, items 2 and 3).
RawChordIsHeld ==
  [][game'.exit = "raw" /\ game.exit = "none"
       => ~HasController(nx) /\ \E r \in RawPads : raw[r].down = Chord]_vars

\* Once the delay is over, a controller that nxinput has open has been
\* announced to the engine, or the event that announces it is still queued:
\* no order of hot-plug, rescan and delayed announcement forgets one.
ConnectedIsAnnounced ==
  pc = "render" /\ game.announceAt = 0 /\ HasController(nx)
    => \/ game.announced
       \/ \E i \in DOMAIN queue : queue[i].type = "added"

\* A button that was pressed, and since then neither released nor lost with
\* its pad or the focus, is down for the engine when it reads the pad.
HeldIsReported == pc = "render" => owed \subseteq game.engine

\* The chord of nxinput stops the loop only if SELECT and START were down at
\* the same time on one pad. No run checks it; see the observations in
\* README.md.
NxChordIsHeld == game.exit = "nxinput" => together

=============================================================================
