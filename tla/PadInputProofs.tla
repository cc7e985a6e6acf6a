--------------------------- MODULE PadInputProofs ---------------------------
(***************************************************************************)
(* For every set of pads and buttons, every number of slots, every queue   *)
(* length and every delay: the engine sees each press, no button stays     *)
(* down, a chord that is held ends the game, no open pad stays             *)
(* unannounced, and the raw chord counts only while it is held.            *)
(***************************************************************************)
EXTENDS PadInput, SequenceTheorems, WellFoundedInduction, TLAPS

Game == [down : SUBSET Buttons, pending : SUBSET Buttons,
         fresh : SUBSET Buttons, chord : SUBSET Chord,
         engine : SUBSET Buttons, announceAt : 0 .. AnnounceAfter,
         announced : BOOLEAN, exit : Reasons]

(***************************************************************************)
(* What main.c keeps.  A press not read yet is still fresh, so no release  *)
(* of it was passed on; a fresh button is down, and the engine has exactly *)
(* the buttons that are down.                                              *)
(***************************************************************************)
GameOK ==
  /\ game \in Game
  /\ game.engine = game.down
  /\ game.fresh \subseteq game.down

UnseenIsFresh ==
  /\ unseen \subseteq game.fresh
  /\ pc = "frame" => unseen = {}

\* What the environment keeps: a press in the queue is still held, or what
\* ends it is further back in the queue.
Ends(e, b) ==
  \/ e.type \in {"removed", "focus lost"}
  \/ e.type = "up" /\ e.button = b

Down(p, b) == p \in attached /\ b \in sdl[p]
DownNext(p, b) == p \in attached' /\ b \in sdl'[p]

QueueOK ==
  /\ queue \in Seq(Events)
  /\ sdl \in [Pads -> SUBSET Buttons]
  /\ attached \subseteq Pads
  /\ \A i \in 1 .. Len(queue) : queue[i].type = "down" =>
       \/ Down(queue[i].pad, queue[i].button)
       \/ \E j \in i + 1 .. Len(queue) : Ends(queue[j], queue[i].button)

\* NothingStuck, in the terms above
Accounted ==
  \A b \in game.engine :
    \/ \E p \in Pads : Down(p, b)
    \/ b \in game.pending
    \/ \E i \in 1 .. Len(queue) : Ends(queue[i], b)

IInv == GameOK /\ UnseenIsFresh /\ QueueOK /\ Accounted

-----------------------------------------------------------------------------
(* The operations of main.c *)

\* track_exit_chord and the call into the engine: only the chord, the request
\* to leave and the engine's view of one button change.
LEMMA TellFacts ==
  ASSUME NEW g \in Game, NEW b \in Buttons, NEW pressed \in BOOLEAN
  PROVE  /\ Tell(g, b, pressed) \in Game
         /\ Tell(g, b, pressed).down = g.down
         /\ Tell(g, b, pressed).pending = g.pending
         /\ Tell(g, b, pressed).fresh = g.fresh
         /\ Tell(g, b, pressed).engine =
              IF pressed THEN g.engine \cup {b} ELSE g.engine \ {b}
<1>1. ASSUME NEW h \in Game
      PROVE  /\ Asked(h, "pad") \in Game
             /\ Asked(h, "pad").down = h.down
             /\ Asked(h, "pad").pending = h.pending
             /\ Asked(h, "pad").fresh = h.fresh
             /\ Asked(h, "pad").engine = h.engine
  BY <1>1 DEF Asked, Game, Reasons
<1> DEFINE c == IF ~pressed THEN g.chord \ {b} ELSE g.chord \cup ({b} \cap Chord)
           k == [g EXCEPT !.chord = c]
           t == TrackExitChord(g, b, pressed)
<1>2. /\ k \in Game /\ k.down = g.down /\ k.pending = g.pending
      /\ k.fresh = g.fresh /\ k.engine = g.engine
  BY DEF Game
<1>3. /\ t \in Game /\ t.down = g.down /\ t.pending = g.pending
      /\ t.fresh = g.fresh /\ t.engine = g.engine
  <2>1. t = IF c = Chord THEN Asked(k, "pad") ELSE k
    BY DEF TrackExitChord
  <2> QED BY <2>1, <1>1, <1>2
<1> HIDE DEF c, k, t
<1>4. Tell(g, b, pressed) =
        [t EXCEPT !.engine = IF pressed THEN t.engine \cup {b} ELSE t.engine \ {b}]
  BY <1>3 DEF Tell, t
<1> QED BY <1>3, <1>4 DEF Game

LEMMA PressFacts ==
  ASSUME NEW g \in Game, NEW b \in Buttons
  PROVE  /\ Press(g, b) \in Game
         /\ Press(g, b).down = g.down \cup {b}
         /\ Press(g, b).pending = g.pending
         /\ Press(g, b).fresh = g.fresh \cup {b}
         /\ Press(g, b).engine = g.engine \cup {b}
<1> DEFINE h == [g EXCEPT !.down = g.down \cup {b}, !.fresh = g.fresh \cup {b}]
<1>1. /\ h \in Game /\ h.down = g.down \cup {b} /\ h.pending = g.pending
      /\ h.fresh = g.fresh \cup {b} /\ h.engine = g.engine
  BY DEF Game
<1>2. Press(g, b) = Tell(h, b, TRUE)
  BY DEF Press
<1> HIDE DEF h
<1>3. /\ Tell(h, b, TRUE) \in Game
      /\ Tell(h, b, TRUE).down = h.down
      /\ Tell(h, b, TRUE).pending = h.pending
      /\ Tell(h, b, TRUE).fresh = h.fresh
      /\ Tell(h, b, TRUE).engine = h.engine \cup {b}
  BY <1>1, TellFacts, Zenon
<1> QED BY <1>1, <1>2, <1>3

LEMMA ReleaseFacts ==
  ASSUME NEW g \in Game, NEW b \in Buttons
  PROVE  /\ Release(g, b) \in Game
         /\ Release(g, b).fresh = g.fresh
         /\ b \in g.fresh => /\ Release(g, b).down = g.down
                             /\ Release(g, b).engine = g.engine
                             /\ Release(g, b).pending = g.pending \cup {b}
         /\ b \notin g.fresh => /\ Release(g, b).down = g.down \ {b}
                                /\ Release(g, b).engine = g.engine \ {b}
                                /\ Release(g, b).pending = g.pending
<1>1. CASE b \in g.fresh
  <2>1. Release(g, b) = [g EXCEPT !.pending = g.pending \cup {b}]
    BY <1>1 DEF Release
  <2> QED BY <1>1, <2>1 DEF Game
<1>2. CASE b \notin g.fresh
  <2> DEFINE h == [g EXCEPT !.down = g.down \ {b}]
  <2>1. /\ h \in Game /\ h.down = g.down \ {b} /\ h.pending = g.pending
        /\ h.fresh = g.fresh /\ h.engine = g.engine
    BY DEF Game
  <2>2. Release(g, b) = Tell(h, b, FALSE)
    BY <1>2 DEF Release
  <2> HIDE DEF h
  <2>3. /\ Tell(h, b, FALSE) \in Game
        /\ Tell(h, b, FALSE).down = h.down
        /\ Tell(h, b, FALSE).pending = h.pending
        /\ Tell(h, b, FALSE).fresh = h.fresh
        /\ Tell(h, b, FALSE).engine = h.engine \ {b}
    BY <2>1, TellFacts, Zenon
  <2> QED BY <1>2, <2>1, <2>2, <2>3
<1> QED BY <1>1, <1>2

LEMMA FlushFacts ==
  ASSUME NEW g \in Game
  PROVE  /\ FlushPending(g) \in Game
         /\ FlushPending(g).fresh = {}
         /\ FlushPending(g).pending = {}
         /\ FlushPending(g).down = g.down \ g.pending
         /\ FlushPending(g).engine = g.engine \ g.pending
  BY DEF FlushPending, Game

LEMMA ReleaseAllFacts ==
  ASSUME NEW g \in Game, g.engine = g.down
  PROVE  /\ ReleaseAll(g) \in Game
         /\ ReleaseAll(g).fresh = g.fresh
         /\ ReleaseAll(g).pending = g.down \cap g.fresh
         /\ ReleaseAll(g).down = g.down \cap g.fresh
         /\ ReleaseAll(g).engine = g.down \cap g.fresh
<1> DEFINE r == ReleaseAll(g)
<1>1. /\ r \in Game /\ r.fresh = g.fresh /\ r.pending = g.down \cap g.fresh
      /\ r.down = g.down \ (g.down \ g.fresh)
      /\ r.engine = g.engine \ (g.down \ g.fresh)
  BY DEF ReleaseAll, Game
<1> HIDE DEF r
<1>2. g.down \ (g.down \ g.fresh) = g.down \cap g.fresh
  OBVIOUS
<1> QED BY <1>1, <1>2 DEF r

-----------------------------------------------------------------------------
(* The queue *)

\* SDL appends an event.  A button that is up afterwards was up before, or
\* the event says so.
LEMMA QueueGrows ==
  ASSUME QueueOK, Accounted, NEW e \in Events, queue' = Append(queue, e),
         sdl' \in [Pads -> SUBSET Buttons], attached' \subseteq Pads,
         game' = game, game.engine \subseteq Buttons,
         e.type = "down" => DownNext(e.pad, e.button),
         \A p \in Pads, b \in Buttons : Down(p, b) => DownNext(p, b) \/ Ends(e, b)
  PROVE  QueueOK' /\ Accounted'
<1> DEFINE n == Len(queue)
<1>1. /\ n \in Nat /\ Len(queue') = n + 1 /\ queue' \in Seq(Events)
      /\ \A i \in 1 .. n : queue'[i] = queue[i] /\ queue[i] \in Events
      /\ queue'[n + 1] = e
  BY DEF QueueOK
<1>2. ASSUME NEW i \in 1 .. n, NEW b, Ends(queue[i], b)
      PROVE  Ends(queue'[i], b)
  BY <1>1, <1>2
<1>3. ASSUME NEW i \in 1 .. n + 1, queue'[i].type = "down"
      PROVE  \/ DownNext(queue'[i].pad, queue'[i].button)
             \/ \E j \in i + 1 .. n + 1 : Ends(queue'[j], queue'[i].button)
  <2>1. CASE i = n + 1
    BY <2>1, <1>1, <1>3
  <2>2. CASE i \in 1 .. n
    <3>1. queue[i].type = "down" /\ queue'[i] = queue[i]
      BY <2>2, <1>1, <1>3
    <3>2. queue[i].pad \in Pads /\ queue[i].button \in Buttons
      BY <3>1, <2>2, <1>1 DEF Events, ButtonEvents, PlugEvents, WindowEvents
    <3>3. \/ Down(queue[i].pad, queue[i].button)
          \/ \E j \in i + 1 .. n : Ends(queue[j], queue[i].button)
      BY <3>1, <2>2 DEF QueueOK
    <3>4. CASE Down(queue[i].pad, queue[i].button)
      <4>1. \/ DownNext(queue[i].pad, queue[i].button)
            \/ Ends(e, queue[i].button)
        BY <3>4, <3>2
      <4>2. CASE Ends(e, queue[i].button)
        BY <4>2, <3>1, <2>2, <1>1
      <4> QED BY <4>1, <4>2, <3>1
    <3>5. CASE \E j \in i + 1 .. n : Ends(queue[j], queue[i].button)
      <4>1. PICK j \in i + 1 .. n : Ends(queue[j], queue[i].button)
        BY <3>5
      <4>2. j \in 1 .. n /\ j \in i + 1 .. n + 1
        BY <2>2, <1>1
      <4> QED BY <4>1, <4>2, <3>1, <1>2
    <3> QED BY <3>3, <3>4, <3>5
  <2> QED BY <1>1, <2>1, <2>2
<1>4. QueueOK'
  BY <1>1, <1>3 DEF QueueOK, Down, DownNext
<1>5. ASSUME NEW b \in game.engine
      PROVE  \/ \E p \in Pads : DownNext(p, b)
             \/ b \in game.pending
             \/ \E i \in 1 .. n + 1 : Ends(queue'[i], b)
  <2>1. CASE \E p \in Pads : Down(p, b)
    <3>1. PICK p \in Pads : Down(p, b)
      BY <2>1
    <3>2. DownNext(p, b) \/ Ends(e, b)
      BY <3>1 DEF DownNext
    <3>3. CASE Ends(e, b)
      BY <3>3, <1>1
    <3> QED BY <3>2, <3>3
  <2>2. CASE \E i \in 1 .. n : Ends(queue[i], b)
    BY <2>2, <1>1, <1>2
  <2> QED BY <2>1, <2>2 DEF Accounted
<1>6. Accounted'
  BY <1>5, <1>1 DEF Accounted, Down, DownNext
<1> QED BY <1>4, <1>6

\* The program takes the first event.
LEMMA QueueShrinks ==
  ASSUME QueueOK, queue # <<>>, queue' = Tail(queue), sdl' = sdl,
         attached' = attached
  PROVE  /\ QueueOK'
         /\ Head(queue) \in Events
         /\ Head(queue).type = "down" =>
              \/ DownNext(Head(queue).pad, Head(queue).button)
              \/ \E i \in 1 .. Len(queue') : Ends(queue'[i], Head(queue).button)
         /\ \A b : (\E i \in 1 .. Len(queue) : Ends(queue[i], b)) =>
              \/ Ends(Head(queue), b)
              \/ \E i \in 1 .. Len(queue') : Ends(queue'[i], b)
<1> DEFINE n == Len(queue)
<1>1. /\ n \in Nat \ {0} /\ Len(queue') = n - 1 /\ queue' \in Seq(Events)
      /\ \A i \in 1 .. n - 1 : queue'[i] = queue[i + 1]
      /\ Head(queue) = queue[1] /\ queue[1] \in Events
  BY DEF QueueOK
<1>2. ASSUME NEW i \in 1 .. n, queue[i].type = "down"
      PROVE  \/ DownNext(queue[i].pad, queue[i].button)
             \/ \E j \in i .. n - 1 : Ends(queue'[j], queue[i].button)
  <2>1. CASE \E j \in i + 1 .. n : Ends(queue[j], queue[i].button)
    <3>1. PICK j \in i + 1 .. n : Ends(queue[j], queue[i].button)
      BY <2>1
    <3>2. /\ j - 1 \in i .. n - 1 /\ j - 1 \in 1 .. n - 1
          /\ queue'[j - 1] = queue[(j - 1) + 1] /\ (j - 1) + 1 = j
      BY <1>1
    <3>3. Ends(queue'[j - 1], queue[i].button)
      BY <3>1, <3>2
    <3> QED BY <3>2, <3>3
  <2>2. CASE Down(queue[i].pad, queue[i].button)
    BY <2>2 DEF Down, DownNext
  <2> QED BY <1>2, <2>1, <2>2 DEF QueueOK
<1>3. ASSUME NEW i \in 1 .. n - 1, queue'[i].type = "down"
      PROVE  \/ DownNext(queue'[i].pad, queue'[i].button)
             \/ \E j \in i + 1 .. n - 1 : Ends(queue'[j], queue'[i].button)
  <2>1. i + 1 \in 1 .. n /\ queue'[i] = queue[i + 1]
    BY <1>1
  <2> QED BY <2>1, <1>2, <1>3
<1>4. QueueOK'
  <2>1. sdl' \in [Pads -> SUBSET Buttons] /\ attached' \subseteq Pads
    BY DEF QueueOK
  <2> QED BY <1>1, <1>3, <2>1 DEF QueueOK, Down, DownNext
<1>5. Head(queue).type = "down" =>
        \/ DownNext(Head(queue).pad, Head(queue).button)
        \/ \E i \in 1 .. Len(queue') : Ends(queue'[i], Head(queue).button)
  <2>1. 1 \in 1 .. n
    BY <1>1
  <2> QED BY <2>1, <1>1, <1>2
<1>6. ASSUME NEW b, NEW i \in 1 .. n, Ends(queue[i], b)
      PROVE  \/ Ends(Head(queue), b)
             \/ \E j \in 1 .. Len(queue') : Ends(queue'[j], b)
  <2>1. CASE i = 1
    BY <2>1, <1>1, <1>6
  <2>2. CASE i # 1
    <3>1. /\ i - 1 \in 1 .. n - 1 /\ queue'[i - 1] = queue[(i - 1) + 1]
          /\ (i - 1) + 1 = i
      BY <2>2, <1>1
    <3>2. Ends(queue'[i - 1], b)
      BY <3>1, <1>6
    <3> QED BY <3>1, <3>2, <1>1
  <2> QED BY <2>1, <2>2
<1> QED BY <1>1, <1>4, <1>5, <1>6

-----------------------------------------------------------------------------
(* The steps *)

LEMMA GameIsGame == GameOK <=> /\ game \in Game
                               /\ game.engine = game.down
                               /\ game.fresh \subseteq game.down
  BY DEF GameOK, Game

LEMMA InitHolds == Init => IInv
<1> SUFFICES ASSUME Init PROVE IInv
  OBVIOUS
<1>1. GameOK /\ UnseenIsFresh /\ Accounted
  BY LimitAssumption DEF Init, GameOK, Game, UnseenIsFresh, Accounted, Reasons
<1>2. sdl \in [Pads -> SUBSET Buttons] /\ attached \subseteq Pads
  BY DEF Init
<1>3. CASE attached = {}
  <2>1. queue = <<>>
    BY <1>3 DEF Init
  <2> QED BY <2>1, <1>1, <1>2 DEF IInv, QueueOK
<1>4. CASE attached # {}
  <2> DEFINE p == CHOOSE p \in attached : TRUE
             e == [type |-> "added", pad |-> p]
  <2>1. p \in Pads /\ queue = <<e>>
    BY <1>2, <1>4 DEF Init
  <2>2. e \in Events /\ e.type = "added"
    BY <2>1 DEF Events, PlugEvents
  <2> HIDE DEF e
  <2>3. /\ queue \in Seq(Events) /\ Len(queue) = 1 /\ queue[1] = e
    BY <2>1, <2>2
  <2> QED BY <2>2, <2>3, <1>1, <1>2 DEF IInv, QueueOK
<1> QED BY <1>3, <1>4

\* An operation of main.c that changes neither what is down, nor what is put
\* off, keeps everything main.c owes the engine.
LEMMA SameButtons ==
  ASSUME GameOK, game' \in Game, game'.down = game.down,
         game'.fresh = game.fresh, game'.pending = game.pending,
         game'.engine = game.engine
  PROVE  GameOK'
  BY GameIsGame DEF GameOK, Game

LEMMA AskedFacts ==
  ASSUME NEW g \in Game, NEW reason \in Reasons
  PROVE  /\ Asked(g, reason) \in Game
         /\ Asked(g, reason).down = g.down
         /\ Asked(g, reason).pending = g.pending
         /\ Asked(g, reason).fresh = g.fresh
         /\ Asked(g, reason).engine = g.engine
  BY DEF Asked, Game

LEMMA AddedFacts ==
  ASSUME NEW g \in Game, NEW n
  PROVE  /\ Added(g, n) \in Game
         /\ Added(g, n).down = g.down
         /\ Added(g, n).pending = g.pending
         /\ Added(g, n).fresh = g.fresh
         /\ Added(g, n).engine = g.engine
<1> DEFINE a == g.announced \/ HasController(n)
<1>1. a \in BOOLEAN
  BY DEF Game, HasController
<1>2. Added(g, n) = [g EXCEPT !.announced = a]
  BY DEF Added
<1> HIDE DEF a
<1> QED BY <1>1, <1>2 DEF Game

\* SDL and the devices
LEMMA EnvironmentStep == IInv /\ Environment => IInv'
<1> SUFFICES ASSUME IInv, Environment PROVE IInv'
  OBVIOUS
<1> USE DEF IInv
<1>1. /\ sdl \in [Pads -> SUBSET Buttons] /\ attached \subseteq Pads
      /\ game.engine \subseteq Buttons
  BY DEF QueueOK, GameOK, Game
<1>2. ASSUME game' = game, unseen' = unseen, pc' = pc
      PROVE  GameOK' /\ UnseenIsFresh'
  BY <1>2 DEF GameOK, UnseenIsFresh
<1>3. ASSUME NEW p \in Pads, NEW b \in Buttons, NEW d \in BOOLEAN, Button(p, b, d)
      PROVE  IInv'
  <2> DEFINE e == [type |-> IF d THEN "down" ELSE "up", pad |-> p, button |-> b]
  <2>1. /\ e \in Events /\ e.pad = p /\ e.button = b
        /\ e.type = (IF d THEN "down" ELSE "up")
    BY DEF Events, ButtonEvents
  <2>2. queue' = Append(queue, e)
    BY <1>3 DEF Button, Send
  <2> HIDE DEF e
  <2>3. /\ sdl' = [sdl EXCEPT ![p] = IF d THEN @ \cup {b} ELSE @ \ {b}]
        /\ attached' = attached /\ p \in attached
        /\ game' = game /\ unseen' = unseen /\ pc' = pc
    BY <1>3 DEF Button
  <2>4. /\ sdl' \in [Pads -> SUBSET Buttons]
        /\ e.type = "down" => DownNext(e.pad, e.button)
    BY <1>1, <2>1, <2>3 DEF Down, DownNext
  <2>5. \A q \in Pads, c \in Buttons : Down(q, c) => DownNext(q, c) \/ Ends(e, c)
    BY <1>1, <2>1, <2>3 DEF Down, DownNext, Ends
  <2>6. QueueOK' /\ Accounted'
    BY <1>1, <2>1, <2>2, <2>3, <2>4, <2>5, QueueGrows
  <2> QED BY <1>2, <2>3, <2>6
<1>4. ASSUME NEW p \in Pads, Plug(p)
      PROVE  IInv'
  <2> DEFINE e == [type |-> "added", pad |-> p]
  <2>1. e \in Events /\ e.type = "added"
    BY DEF Events, PlugEvents
  <2>2. queue' = Append(queue, e)
    BY <1>4 DEF Plug, Send
  <2> HIDE DEF e
  <2>3. /\ sdl' = sdl /\ attached' = attached \cup {p}
        /\ game' = game /\ unseen' = unseen /\ pc' = pc
    BY <1>4 DEF Plug, history
  <2>4. /\ \A q \in Pads, c \in Buttons : Down(q, c) => DownNext(q, c) \/ Ends(e, c)
        /\ e.type = "down" => DownNext(e.pad, e.button)
        /\ attached' \subseteq Pads
    BY <1>1, <2>1, <2>3 DEF Down, DownNext
  <2>5. QueueOK' /\ Accounted'
    BY <1>1, <2>1, <2>2, <2>3, <2>4, QueueGrows
  <2> QED BY <1>2, <2>3, <2>5
<1>5. ASSUME NEW p \in Pads, Unplug(p)
      PROVE  IInv'
  <2> DEFINE e == [type |-> "removed", pad |-> p]
  <2>1. e \in Events /\ e.type = "removed"
    BY DEF Events, PlugEvents
  <2>2. queue' = Append(queue, e)
    BY <1>5 DEF Unplug, Send
  <2> HIDE DEF e
  <2>3. /\ sdl' = [sdl EXCEPT ![p] = {}] /\ attached' = attached \ {p}
        /\ game' = game /\ unseen' = unseen /\ pc' = pc
    BY <1>5 DEF Unplug, history
  <2>4. sdl' \in [Pads -> SUBSET Buttons] /\ attached' \subseteq Pads
    BY <1>1, <2>3
  <2>5. /\ \A q \in Pads, c \in Buttons : Down(q, c) => DownNext(q, c) \/ Ends(e, c)
        /\ e.type = "down" => DownNext(e.pad, e.button)
    BY <2>1 DEF Ends
  <2>6. QueueOK' /\ Accounted'
    BY <1>1, <2>1, <2>2, <2>3, <2>4, <2>5, QueueGrows
  <2> QED BY <1>2, <2>3, <2>6
<1>6. ASSUME NEW e \in WindowEvents, Send(e), sdl' = sdl, attached' = attached,
             game' = game, unseen' = unseen, pc' = pc
      PROVE  IInv'
  <2>1. e \in Events /\ e.type # "down"
    BY <1>6 DEF Events, WindowEvents
  <2>2. /\ \A q \in Pads, c \in Buttons : Down(q, c) => DownNext(q, c) \/ Ends(e, c)
        /\ e.type = "down" => DownNext(e.pad, e.button)
    BY <1>6, <2>1 DEF Down, DownNext
  <2>3. queue' = Append(queue, e)
    BY <1>6 DEF Send
  <2>4. QueueOK' /\ Accounted'
    BY <1>1, <1>6, <2>1, <2>2, <2>3, QueueGrows
  <2> QED BY <1>2, <1>6, <2>4
<1>7. ASSUME NEW f \in BOOLEAN, Focus(f)
      PROVE  IInv'
  <2> DEFINE e == [type |-> IF f THEN "focus gained" ELSE "focus lost"]
  <2>1. e \in WindowEvents
    BY DEF WindowEvents
  <2>2. /\ Send(e) /\ sdl' = sdl /\ attached' = attached
        /\ game' = game /\ unseen' = unseen /\ pc' = pc
    BY <1>7 DEF Focus, history
  <2> QED BY <1>6, <2>1, <2>2
<1>8. ASSUME Quit
      PROVE  IInv'
  <2> DEFINE e == [type |-> "quit"]
  <2>1. e \in WindowEvents
    BY DEF WindowEvents
  <2>2. /\ Send(e) /\ sdl' = sdl /\ attached' = attached
        /\ game' = game /\ unseen' = unseen /\ pc' = pc
    BY <1>8 DEF Quit, history
  <2> QED BY <1>6, <2>1, <2>2
<1>9. ASSUME NEW r \in RawPads, NEW k \in Chord, RawKey(r, k)
      PROVE  IInv'
  <2>1. /\ sdl' = sdl /\ attached' = attached /\ queue' = queue
        /\ game' = game /\ unseen' = unseen /\ pc' = pc
    BY <1>9 DEF RawKey, history
  <2> QED BY <1>2, <2>1 DEF QueueOK, Accounted, Down, DownNext
<1> QED BY <1>3, <1>4, <1>5, <1>7, <1>8, <1>9 DEF Environment

\* The steps of the loop that leave the queue alone and only ask for the end.
LEMMA QuietStep ==
  ASSUME IInv, sdl' = sdl, attached' = attached, queue' = queue,
         game' \in Game, game'.down = game.down, game'.fresh = game.fresh,
         game'.pending = game.pending, game'.engine = game.engine
  PROVE  GameOK' /\ QueueOK' /\ Accounted'
  BY SameButtons DEF IInv, QueueOK, Accounted, Down

\* One turn begins: what was put off reaches the engine.
LEMMA FrameStep == IInv /\ Frame => IInv'
<1> SUFFICES ASSUME IInv, Frame PROVE IInv'
  OBVIOUS
<1> USE DEF IInv
<1>1. game \in Game /\ game.engine = game.down
  BY GameIsGame
<1> DEFINE f == FlushPending(game)
           Told(at, due) == [f EXCEPT !.announceAt = at, !.announced = f.announced \/ due]
<1>2. /\ f \in Game /\ f.fresh = {} /\ f.pending = {}
      /\ f.down = game.down \ game.pending
      /\ f.engine = game.engine \ game.pending
  BY <1>1, FlushFacts
<1> HIDE DEF f
<1>3. \E at \in 0 .. AnnounceAfter, due \in BOOLEAN, reason \in Reasons :
        game' = Told(at, due) \/ game' = Asked(Told(at, due), reason)
  <2> DEFINE at == IF f.announceAt > 0 THEN f.announceAt - 1 ELSE f.announceAt
             due == game.announceAt = 1 /\ HasController(nx)
  <2>1. at \in 0 .. AnnounceAfter /\ due \in BOOLEAN
    BY <1>2, LimitAssumption DEF Game
  <2>2. \/ game' = Told(at, due)
        \/ game' = Asked(Told(at, due), "held")
        \/ game' = Asked(Told(at, due), "raw")
    BY DEF Frame, CountDown, f
  <2>3. "held" \in Reasons /\ "raw" \in Reasons
    BY DEF Reasons
  <2> HIDE DEF at, due, Told
  <2> QED BY <2>1, <2>2, <2>3
<1>4. PICK at \in 0 .. AnnounceAfter, due \in BOOLEAN, reason \in Reasons :
        game' = Told(at, due) \/ game' = Asked(Told(at, due), reason)
  BY <1>3
<1>5. /\ Told(at, due) \in Game /\ Told(at, due).fresh = f.fresh
      /\ Told(at, due).pending = f.pending /\ Told(at, due).down = f.down
      /\ Told(at, due).engine = f.engine
  <2>1. (f.announced \/ due) \in BOOLEAN
    BY <1>2 DEF Game
  <2> QED BY <1>2, <2>1 DEF Game
<1> HIDE DEF Told
<1>6. /\ game' \in Game /\ game'.fresh = {} /\ game'.pending = {}
      /\ game'.down = game.down \ game.pending
      /\ game'.engine = game.engine \ game.pending
  BY <1>2, <1>4, <1>5, AskedFacts
<1>7. /\ sdl' = sdl /\ attached' = attached /\ queue' = queue
      /\ unseen' = unseen /\ pc' = "events" /\ unseen = {}
  BY DEF Frame, UnseenIsFresh, history
<1>8. GameOK'
  BY <1>1, <1>6 DEF GameOK, Game
<1>9. QueueOK' /\ Accounted'
  BY <1>1, <1>6, <1>7 DEF QueueOK, Accounted, Down
<1> QED BY <1>6, <1>7, <1>8, <1>9 DEF UnseenIsFresh

\* One event is handled.
LEMMA PollEventStep == IInv /\ PollEvent => IInv'
<1> SUFFICES ASSUME IInv, PollEvent PROVE IInv'
  OBVIOUS
<1> DEFINE e == Head(queue)
<1>1. /\ game \in Game /\ game.engine = game.down /\ game.fresh \subseteq game.down
      /\ unseen \subseteq game.fresh
  BY GameIsGame DEF IInv, UnseenIsFresh
<1>2. /\ queue # <<>> /\ queue' = Tail(queue) /\ sdl' = sdl
      /\ attached' = attached /\ pc = "events" /\ pc' = "events"
      /\ game' = Handle(game, nx', e)
      /\ unseen' = IF e.type = "down" THEN unseen \cup {e.button} ELSE unseen
  BY DEF PollEvent
<1>3. /\ QueueOK' /\ e \in Events
      /\ e.type = "down" =>
           \/ DownNext(e.pad, e.button)
           \/ \E i \in 1 .. Len(queue') : Ends(queue'[i], e.button)
      /\ \A b : (\E i \in 1 .. Len(queue) : Ends(queue[i], b)) =>
           Ends(e, b) \/ \E i \in 1 .. Len(queue') : Ends(queue'[i], b)
  BY <1>2, QueueShrinks DEF IInv
<1>4. e.type \in {"down", "up"} => e.button \in Buttons /\ e.pad \in Pads
  BY <1>3 DEF Events, ButtonEvents, PlugEvents, WindowEvents
<1>5. ASSUME NEW b \in game.engine, ~Ends(e, b)
      PROVE  \/ \E p \in Pads : DownNext(p, b)
             \/ b \in game.pending
             \/ \E i \in 1 .. Len(queue') : Ends(queue'[i], b)
  BY <1>2, <1>3, <1>5 DEF IInv, Accounted, Down, DownNext
<1> HIDE DEF e
<1>6. CASE e.type = "down"
  <2>1. game' = Press(game, e.button)
    BY <1>2, <1>6 DEF Handle
  <2>2. /\ game' \in Game /\ game'.down = game.down \cup {e.button}
        /\ game'.pending = game.pending /\ game'.fresh = game.fresh \cup {e.button}
        /\ game'.engine = game.engine \cup {e.button}
    BY <2>1, <1>1, <1>4, <1>6, PressFacts
  <2>3. \A b : ~Ends(e, b)
    BY <1>6 DEF Ends
  <2>4. GameOK' /\ UnseenIsFresh'
    BY <1>1, <1>2, <1>6, <2>2 DEF GameOK, UnseenIsFresh, Game
  <2>5. Accounted'
    BY <1>3, <1>4, <1>5, <1>6, <2>2, <2>3 DEF Accounted, Down, DownNext
  <2> QED BY <1>3, <2>4, <2>5 DEF IInv
<1>7. CASE e.type = "up"
  <2>1. game' = Release(game, e.button)
    BY <1>2, <1>7 DEF Handle
  <2> DEFINE b == e.button
  <2>2. /\ game' \in Game /\ game'.fresh = game.fresh
        /\ b \in game.fresh => /\ game'.down = game.down
                               /\ game'.engine = game.engine
                               /\ game'.pending = game.pending \cup {b}
        /\ b \notin game.fresh => /\ game'.down = game.down \ {b}
                                  /\ game'.engine = game.engine \ {b}
                                  /\ game'.pending = game.pending
    BY <2>1, <1>1, <1>4, <1>7, ReleaseFacts
  <2>3. \A c : Ends(e, c) => c = b
    BY <1>7 DEF Ends
  <2> HIDE DEF b
  <2>4. GameOK' /\ UnseenIsFresh'
    BY <1>1, <1>2, <1>7, <2>2 DEF GameOK, UnseenIsFresh, Game
  <2>5. Accounted'
    BY <1>5, <2>2, <2>3 DEF Accounted, Down, DownNext
  <2> QED BY <1>3, <2>4, <2>5 DEF IInv
<1>8. CASE e.type \in {"removed", "focus lost"}
  <2>1. game' = ReleaseAll(game)
    BY <1>2, <1>8 DEF Handle
  <2>2. /\ game' \in Game /\ game'.fresh = game.fresh
        /\ game'.pending = game.down \cap game.fresh
        /\ game'.down = game.down \cap game.fresh
        /\ game'.engine = game.down \cap game.fresh
    BY <2>1, <1>1, ReleaseAllFacts
  <2>3. GameOK' /\ UnseenIsFresh' /\ Accounted'
    BY <1>1, <1>2, <1>8, <2>2 DEF GameOK, UnseenIsFresh, Accounted, Game
  <2> QED BY <1>3, <2>3 DEF IInv
<1>9. CASE e.type \in {"added", "quit", "focus gained"}
  <2>1. \/ game' = Added(game, nx')
        \/ game' = Asked(game, "quit")
        \/ game' = game
    BY <1>2, <1>9 DEF Handle
  <2>2. /\ game' \in Game /\ game'.down = game.down /\ game'.fresh = game.fresh
        /\ game'.pending = game.pending /\ game'.engine = game.engine
    BY <2>1, <1>1, AddedFacts, AskedFacts DEF Reasons
  <2>3. \A b : ~Ends(e, b)
    BY <1>9 DEF Ends
  <2>4. GameOK' /\ UnseenIsFresh'
    BY <1>1, <1>2, <1>9, <2>2 DEF GameOK, UnseenIsFresh, Game
  <2>5. Accounted'
    BY <1>5, <2>2, <2>3 DEF Accounted, Down, DownNext
  <2> QED BY <1>3, <2>4, <2>5 DEF IInv
<1>10. e.type \in {"down", "up", "removed", "focus lost", "added", "quit",
                   "focus gained"}
  BY <1>3 DEF Events, ButtonEvents, PlugEvents, WindowEvents
<1> QED BY <1>6, <1>7, <1>8, <1>9, <1>10

LEMMA LoopStep == IInv /\ Loop => IInv'
<1> SUFFICES ASSUME IInv, Loop PROVE IInv'
  OBVIOUS
<1>1. game \in Game
  BY GameIsGame DEF IInv
<1>2. CASE NoMoreEvents
  <2>1. /\ sdl' = sdl /\ attached' = attached /\ queue' = queue /\ game' = game
        /\ unseen' = unseen /\ pc' = "sample"
    BY <1>2 DEF NoMoreEvents, sdlVars, history
  <2> QED BY <1>1, <2>1, QuietStep DEF IInv, UnseenIsFresh
<1>3. CASE PollInput
  <2>1. /\ sdl' = sdl /\ attached' = attached /\ queue' = queue
        /\ unseen' = unseen /\ pc' = "render"
        /\ game' = Asked(game, "nxinput") \/ game' = game
    BY <1>3 DEF PollInput, sdlVars, history
  <2>2. /\ game' \in Game /\ game'.down = game.down /\ game'.fresh = game.fresh
        /\ game'.pending = game.pending /\ game'.engine = game.engine
    BY <1>1, <2>1, AskedFacts DEF Reasons
  <2> QED BY <2>1, <2>2, QuietStep DEF IInv, UnseenIsFresh
<1>4. CASE Render
  <2>1. /\ sdl' = sdl /\ attached' = attached /\ queue' = queue /\ game' = game
        /\ unseen' = {} /\ pc' = "frame"
    BY <1>4 DEF Render, sdlVars
  <2> QED BY <1>1, <2>1, QuietStep DEF IInv, UnseenIsFresh
<1>5. CASE Leave
  <2>1. /\ sdl' = sdl /\ attached' = attached /\ queue' = queue /\ game' = game
        /\ unseen' = unseen /\ pc' = "left"
    BY <1>5 DEF Leave, sdlVars, history
  <2> QED BY <1>1, <2>1, QuietStep DEF IInv, UnseenIsFresh
<1> QED BY <1>2, <1>3, <1>4, <1>5, FrameStep, PollEventStep DEF Loop

-----------------------------------------------------------------------------
(* nxinput *)

Nx == [slots : [Slots -> Pads \cup {NoPad}], buttons : [Pads -> SUBSET Buttons],
       active : SUBSET Pads, focused : BOOLEAN, quit : BOOLEAN]

SdlOK == sdl \in [Pads -> SUBSET Buttons] /\ attached \subseteq Pads

\* What each of nxinput's operations keeps: a chord that becomes active asks
\* for the end, the request stays, and a pad that becomes open is attached.
Follows(n, m) ==
  /\ m \in Nx
  /\ n.quit => m.quit
  /\ \A p \in m.active : p \in n.active \/ m.quit
  /\ OpenPads(m) \subseteq OpenPads(n) \cup attached

LEMMA FollowsSelf == \A n \in Nx : Follows(n, n)
  BY DEF Follows

LEMMA FollowsOn ==
  \A n, m, k : Follows(n, m) /\ Follows(m, k) => Follows(n, k)
  BY DEF Follows

LEMMA SameSlots ==
  ASSUME NEW n, NEW m, m.slots = n.slots
  PROVE  OpenPads(m) = OpenPads(n)
  BY DEF OpenPads

LEMMA OpenIsPads ==
  \A n \in Nx : OpenPads(n) = {p \in Pads : \E i \in Slots : n.slots[i] = p}
  BY PadAssumption DEF Nx, OpenPads

\* nxinput_sample_slot
LEMMA SampleFacts ==
  ASSUME SdlOK, NEW n \in Nx, NEW ps \in SUBSET Pads
  PROVE  LET r == Sample(n, ps)
         IN  /\ r \in Nx /\ r.slots = n.slots /\ r.focused = n.focused
             /\ n.quit => r.quit
             /\ \A p \in r.active : p \in n.active \/ r.quit
             /\ n.active \ ps \subseteq r.active
             /\ n.focused => \A p \in ps : Chord \subseteq sdl[p] => p \in r.active
<1> DEFINE held == {p \in ps : Chord \subseteq sdl[p]}
           b == [p \in Pads |-> IF p \in ps THEN sdl[p] ELSE n.buttons[p]]
           between(p) == Chord \subseteq (n.buttons[p] \ {BACK}) \cup (sdl[p] \cap {BACK})
           rises == \E p \in ps : IF between(p) THEN p \notin n.active ELSE p \in held
           q == n.quit \/ rises
           r == Sample(n, ps)
<1>1. CASE ~n.focused
  BY <1>1 DEF Sample
<1>2. CASE n.focused
  <2>1. /\ b \in [Pads -> SUBSET Buttons] /\ q \in BOOLEAN
        /\ (n.active \ ps) \cup held \in SUBSET Pads
    BY DEF SdlOK, Nx
  <2>2. r = [n EXCEPT !.buttons = b, !.active = (n.active \ ps) \cup held, !.quit = q]
    BY <1>2, Zenon DEF Sample
  <2>3. \A p \in held : p \in n.active \/ q
    OBVIOUS
  <2>4. \A p \in ps : Chord \subseteq sdl[p] => p \in held
    OBVIOUS
  <2>5. n.quit => q
    OBVIOUS
  <2> HIDE DEF b, q, held, r
  <2>6. /\ r \in Nx /\ r.slots = n.slots /\ r.focused = n.focused /\ r.quit = q
        /\ r.active = (n.active \ ps) \cup held
    BY <2>1, <2>2 DEF Nx
  <2>7. \A p \in r.active : p \in n.active \/ r.quit
    BY <2>3, <2>6
  <2> QED BY <2>4, <2>5, <2>6, <2>7 DEF r
<1> QED BY <1>1, <1>2 DEF Nx

\* nxinput_core_release_all
LEMMA ForgetFacts ==
  ASSUME NEW n \in Nx, NEW ps
  PROVE  LET r == ForgetButtons(n, ps)
         IN  /\ r \in Nx /\ r.slots = n.slots /\ r.focused = n.focused
             /\ r.quit = n.quit /\ r.active = n.active \ ps
  BY DEF ForgetButtons, Nx

LEMMA DisconnectFacts ==
  ASSUME NEW n \in Nx, NEW ps
  PROVE  /\ Follows(n, Disconnect(n, ps))
         /\ Disconnect(n, ps).focused = n.focused
         /\ OpenPads(Disconnect(n, ps)) = OpenPads(n) \ ps
<1> DEFINE f == ForgetButtons(n, ps \cap OpenPads(n))
           s == [i \in Slots |-> IF n.slots[i] \in ps THEN NoPad ELSE n.slots[i]]
           r == Disconnect(n, ps)
<1>1. /\ f \in Nx /\ f.slots = n.slots /\ f.focused = n.focused
      /\ f.quit = n.quit /\ f.active \subseteq n.active
  BY ForgetFacts
<1>2. r = [f EXCEPT !.slots = s]
  BY <1>1, Zenon DEF Disconnect
<1>3. s \in [Slots -> Pads \cup {NoPad}]
  BY DEF Nx
<1> HIDE DEF f, s
<1>4. /\ r \in Nx /\ r.slots = s /\ r.focused = n.focused
      /\ r.quit = n.quit /\ r.active \subseteq n.active
  BY <1>1, <1>2, <1>3 DEF Nx
<1>5. OpenPads(r) = OpenPads(n) \ ps
  BY <1>4, OpenIsPads, PadAssumption DEF s
<1> QED BY <1>4, <1>5 DEF Follows

\* nxinput_core_set_button
LEMMA SetButtonFacts ==
  ASSUME NEW n \in Nx, NEW p \in Pads, NEW b \in Buttons, NEW d \in BOOLEAN
  PROVE  /\ Follows(n, SetButton(n, p, b, d))
         /\ SetButton(n, p, b, d).slots = n.slots
<1> DEFINE held == IF d THEN n.buttons[p] \cup {b} ELSE n.buttons[p] \ {b}
           both == Chord \subseteq held
           a == IF both THEN n.active \cup {p} ELSE n.active \ {p}
           q == n.quit \/ (both /\ p \notin n.active)
           e == [n.buttons EXCEPT ![p] = held]
           r == SetButton(n, p, b, d)
<1>1. /\ e \in [Pads -> SUBSET Buttons] /\ a \in SUBSET Pads /\ q \in BOOLEAN
      /\ n.quit => q
      /\ \A x \in a : x \in n.active \/ q
  BY DEF Nx
<1>2. r = [n EXCEPT !.buttons = e, !.active = a, !.quit = q]
  BY DEF SetButton
<1> HIDE DEF held, a, q, e
<1>3. /\ r \in Nx /\ r.slots = n.slots /\ r.active = a /\ r.quit = q
  BY <1>1, <1>2 DEF Nx
<1> QED BY <1>1, <1>3, SameSlots DEF Follows

LEMMA SetFocusFacts ==
  ASSUME NEW n \in Nx, NEW f \in BOOLEAN
  PROVE  /\ Follows(n, SetFocus(n, f))
         /\ SetFocus(n, f).slots = n.slots
<1> DEFINE m == [n EXCEPT !.focused = f]
<1>1. m \in Nx /\ m.slots = n.slots /\ m.quit = n.quit /\ m.active = n.active
  BY DEF Nx
<1>2. SetFocus(n, f) \in {n, m, ForgetButtons(m, OpenPads(m))}
  BY DEF SetFocus
<1> HIDE DEF m
<1>3. /\ SetFocus(n, f) \in Nx /\ SetFocus(n, f).slots = n.slots
      /\ SetFocus(n, f).quit = n.quit /\ SetFocus(n, f).active \subseteq n.active
  BY <1>1, <1>2, ForgetFacts
<1> QED BY <1>3, SameSlots DEF Follows

\* nxinput_open_device, nxinput_rescan: nothing is closed, what is opened is
\* read, and a device that gets no slot leaves none empty.
LEMMA OpenDevicesFacts ==
  ASSUME SdlOK, NEW n \in Nx, NEW ps, NEW r \in OpenDevices(n, ps)
  PROVE  /\ Follows(n, r) /\ r.focused = n.focused
         /\ OpenPads(n) \subseteq OpenPads(r)
         /\ ps \cap attached # {} => HasController(r)
         /\ \A p \in n.active : p \in r.active \/ p \notin OpenPads(n)
         /\ n.focused => \A p \in OpenPads(r) \ OpenPads(n) :
                           Chord \subseteq sdl[p] => p \in r.active
<1>1. PICK s \in Fillings(n, ps) :
        LET m == [n EXCEPT !.slots = s]
            new == OpenPads(m) \ OpenPads(n)
        IN  r = Sample(ForgetButtons(m, new), new)
  BY DEF OpenDevices
<1> DEFINE m == [n EXCEPT !.slots = s]
           new == OpenPads(m) \ OpenPads(n)
           f == ForgetButtons(m, new)
           late == (ps \cap attached) \ OpenPads(n)
<1>2. /\ s \in [Slots -> Pads \cup {NoPad}]
      /\ \A i \in Slots : s[i] = n.slots[i] \/ (n.slots[i] = NoPad /\ s[i] \in late)
      /\ (\E i \in Slots : s[i] = NoPad) => \A p \in late : \E i \in Slots : s[i] = p
  BY DEF Fillings
<1>3. /\ m \in Nx /\ m.slots = s /\ m.quit = n.quit /\ m.active = n.active
      /\ m.focused = n.focused
  BY <1>2 DEF Nx
<1> HIDE DEF m
<1>4. new \in SUBSET Pads
  BY <1>3, OpenIsPads
<1>5. /\ OpenPads(n) \subseteq OpenPads(m)
      /\ OpenPads(m) \subseteq OpenPads(n) \cup late
  <2>1. OpenPads(m) = {p \in Pads : \E i \in Slots : s[i] = p}
    BY <1>3, OpenIsPads
  <2>2. OpenPads(n) = {p \in Pads : \E i \in Slots : n.slots[i] = p}
    BY OpenIsPads
  <2> QED BY <1>2, <2>1, <2>2, PadAssumption
<1> HIDE DEF new
<1>6. /\ f \in Nx /\ f.slots = s /\ f.focused = n.focused
      /\ f.quit = n.quit /\ f.active = n.active \ new
  BY <1>3, ForgetFacts
<1> HIDE DEF f
<1>7. /\ r \in Nx /\ r.slots = s /\ r.focused = n.focused
      /\ n.quit => r.quit
      /\ \A p \in r.active : p \in n.active \/ r.quit
      /\ n.active \ new \subseteq r.active
      /\ n.focused => \A p \in new : Chord \subseteq sdl[p] => p \in r.active
  <2>1. r = Sample(f, new)
    BY <1>1 DEF f, new, m
  <2> QED BY <1>4, <1>6, <2>1, SampleFacts
<1>8. OpenPads(r) = OpenPads(m)
  BY <1>3, <1>7, SameSlots
<1>9. ASSUME ps \cap attached # {}
      PROVE  HasController(r)
  <2>1. CASE late = {}
    BY <1>5, <1>8, <1>9, <2>1 DEF HasController
  <2>2. CASE late # {} /\ \E i \in Slots : s[i] = NoPad
    <3>1. PICK p \in late : \E i \in Slots : s[i] = p
      BY <1>2, <2>2
    <3>2. p \in OpenPads(r)
      BY <1>7, <3>1, OpenIsPads DEF SdlOK
    <3> QED BY <3>2 DEF HasController
  <2>3. CASE ~\E i \in Slots : s[i] = NoPad
    <3>1. 1 \in Slots /\ s[1] \in Pads
      BY <1>2, <2>3, LimitAssumption DEF Slots
    <3>2. s[1] \in OpenPads(r)
      BY <1>7, <3>1, OpenIsPads
    <3> QED BY <3>2 DEF HasController
  <2> QED BY <2>1, <2>2, <2>3
<1> HIDE DEF late
<1>10. Follows(n, r)
  BY <1>5, <1>7, <1>8 DEF Follows, late
<1> QED BY <1>5, <1>7, <1>8, <1>9, <1>10 DEF new

\* nxinput_observe_event
LEMMA ObserveFacts ==
  ASSUME SdlOK, NEW n \in Nx, NEW e \in Events, NEW r \in Observe(n, e)
  PROVE  /\ Follows(n, r)
         /\ e.type = "added" => /\ OpenPads(n) \subseteq OpenPads(r)
                                /\ e.pad \in attached => HasController(r)
<1>1. /\ e.type \in {"down", "up"} => e.button \in Buttons /\ e.pad \in Pads
      /\ e.type \in {"added", "removed", "down", "up", "focus lost",
                     "focus gained", "quit"}
  BY DEF Events, ButtonEvents, PlugEvents, WindowEvents
<1>2. CASE e.type = "added"
  <2>1. r \in OpenDevices(n, {e.pad})
    BY <1>2 DEF Observe
  <2>2. e.pad \in attached => {e.pad} \cap attached # {}
    OBVIOUS
  <2> QED BY <2>1, <2>2, OpenDevicesFacts
<1>3. CASE e.type = "removed"
  <2>1. r = Disconnect(n, {e.pad})
    BY <1>3 DEF Observe
  <2> QED BY <1>3, <2>1, DisconnectFacts
<1>4. CASE e.type \in {"down", "up"}
  <2>1. PICK m \in (IF e.pad \in OpenPads(n) THEN {n} ELSE Rescan(n)) :
          r = IF e.pad \in OpenPads(m) /\ m.focused
              THEN SetButton(m, e.pad, e.button, e.type = "down")
              ELSE m
    BY <1>4 DEF Observe
  <2>2. Follows(n, m)
    BY OpenDevicesFacts, FollowsSelf DEF Rescan
  <2>3. Follows(m, r)
    <3>1. m \in Nx
      BY <2>2 DEF Follows
    <3>2. (e.type = "down") \in BOOLEAN
      OBVIOUS
    <3> QED BY <1>1, <1>4, <2>1, <3>1, <3>2, SetButtonFacts, FollowsSelf
  <2> QED BY <1>4, <2>2, <2>3, FollowsOn
<1>5. CASE e.type \in {"focus lost", "focus gained"}
  <2>1. r = SetFocus(n, FALSE) \/ r = SetFocus(n, TRUE)
    BY <1>5 DEF Observe
  <2> QED BY <1>5, <2>1, SetFocusFacts
<1>6. CASE e.type = "quit"
  <2>1. r = n
    BY <1>6 DEF Observe
  <2> QED BY <1>6, <2>1, FollowsSelf
<1> QED BY <1>1, <1>2, <1>3, <1>4, <1>5, <1>6

\* nxinput_poll: with the focus, every chord down on an open pad is active.
LEMMA PollFacts ==
  ASSUME SdlOK, NEW n \in Nx, NEW r \in Poll(n)
  PROVE  /\ Follows(n, r)
         /\ r.focused => \A p \in OpenPads(r) : Chord \subseteq sdl[p] => p \in r.active
<1> DEFINE left == Disconnect(n, OpenPads(n) \ attached)
           read == Sample(left, OpenPads(left))
<1>1. Follows(n, left)
  BY DisconnectFacts
<1> HIDE DEF left
<1>2. left \in Nx /\ OpenPads(left) \in SUBSET Pads
  BY <1>1, OpenIsPads DEF Follows
<1>3. /\ read \in Nx /\ read.slots = left.slots
      /\ left.quit => read.quit
      /\ \A p \in read.active : p \in left.active \/ read.quit
      /\ read.focused => \A p \in OpenPads(left) : Chord \subseteq sdl[p] => p \in read.active
  BY <1>2, SampleFacts
<1> HIDE DEF read
<1>4. OpenPads(read) = OpenPads(left)
  BY <1>3, SameSlots
<1>5. Follows(left, read)
  BY <1>3, <1>4 DEF Follows
<1>6. r = read \/ r \in OpenDevices(read, attached)
  BY DEF Poll, Rescan, read, left
<1>7. CASE r = read
  BY <1>1, <1>3, <1>4, <1>5, <1>7, FollowsOn
<1>8. CASE r \in OpenDevices(read, attached)
  <2>1. /\ Follows(read, r) /\ r.focused = read.focused
        /\ \A p \in read.active : p \in r.active \/ p \notin OpenPads(read)
        /\ read.focused => \A p \in OpenPads(r) \ OpenPads(read) :
                             Chord \subseteq sdl[p] => p \in r.active
    BY <1>3, <1>8, OpenDevicesFacts
  <2>2. Follows(n, r)
    BY <1>1, <1>5, <2>1, FollowsOn
  <2> QED BY <1>3, <1>4, <2>1, <2>2
<1> QED BY <1>6, <1>7, <1>8

\* nxinput_first_connected
LEMMA FirstPadFacts ==
  ASSUME NEW n \in Nx
  PROVE  /\ FirstPad(n) \in Pads \cup {NoPad}
         /\ FirstPad(n) = NoPad => ~HasController(n)
<1> DEFINE taken == {i \in Slots : n.slots[i] # NoPad}
<1>1. CASE taken = {}
  BY <1>1 DEF FirstPad, HasController, OpenPads
<1>2. CASE taken # {}
  <2>1. taken \subseteq Nat
    BY LimitAssumption DEF Slots
  <2>2. PICK i \in taken : \A j \in taken : <<j, i>> \notin OpToRel(<, Nat)
    BY <1>2, <2>1, WFMin, NatLessThanWellFounded, Zenon
  <2>3. \A j \in taken : ~(j < i)
    BY <2>1, <2>2, Zenon DEF OpToRel
  <2>4. \A j \in taken : i <= j
    BY <2>1, <2>3
  <2> DEFINE k == CHOOSE l \in taken : \A j \in taken : l <= j
  <2>5. k \in taken
    BY <2>4, Zenon
  <2>6. FirstPad(n) = n.slots[k]
    BY <1>2 DEF FirstPad
  <2> HIDE DEF k
  <2> QED BY <2>5, <2>6 DEF Nx
<1> QED BY <1>1, <1>2

-----------------------------------------------------------------------------
(* The polled chord *)

ChordState == [bound : BOOLEAN, hold : 0 .. HoldPolls, fired : BOOLEAN,
               down : [RawPads -> SUBSET Chord], rawFired : BOOLEAN]

RawState == [RawPads -> [down : SUBSET Chord, changed : SUBSET Chord]]

\* The keys remembered are down unless their change was not read yet, and
\* none is remembered while a controller is bound.
KeysOK(c) ==
  /\ c \in ChordState
  /\ raw \in RawState
  /\ \A r \in RawPads : /\ c.down[r] \subseteq raw[r].down \cup raw[r].changed
                        /\ c.bound => c.down[r] = {}

LEMMA BindFacts ==
  ASSUME NEW c, KeysOK(c), NEW bound \in BOOLEAN
  PROVE  LET d == Bind(c, bound)
         IN  KeysOK(d) /\ d.bound = bound
<1> DEFINE none == [r \in RawPads |-> {}]
           d == Bind(c, bound)
<1>1. CASE c.bound = bound
  BY <1>1 DEF Bind
<1>2. CASE c.bound # bound
  <2>1. none \in [RawPads -> SUBSET Chord] /\ \A r \in RawPads : none[r] = {}
    OBVIOUS
  <2>2. d = [c EXCEPT !.bound = bound, !.rawFired = FALSE, !.down = none]
    BY <1>2 DEF Bind
  <2> HIDE DEF none, d
  <2>3. d \in ChordState /\ d.bound = bound /\ d.down = none
    BY <2>1, <2>2 DEF ChordState, KeysOK
  <2> QED BY <2>1, <2>3 DEF KeysOK, d
<1> QED BY <1>1, <1>2

LEMMA PollStateFacts ==
  ASSUME NEW c, KeysOK(c), NEW p
  PROVE  LET d == PollState(c, p)
         IN  /\ KeysOK(d) /\ d.bound = c.bound
<1> DEFINE h == IF c.hold < HoldPolls THEN c.hold + 1 ELSE c.hold
           f == c.fired \/ h >= HoldPolls
           d == PollState(c, p)
<1>1. h \in 0 .. HoldPolls /\ f \in BOOLEAN
  BY LimitAssumption DEF KeysOK, ChordState
<1>2. \/ d = [c EXCEPT !.hold = 0, !.fired = FALSE]
      \/ d = [c EXCEPT !.hold = h, !.fired = f]
  BY Zenon DEF PollState
<1> HIDE DEF h, f, d
<1>3. 0 \in 0 .. HoldPolls
  BY LimitAssumption
<1>4. d \in ChordState /\ d.bound = c.bound /\ d.down = c.down
  BY <1>1, <1>2, <1>3 DEF KeysOK, ChordState
<1> QED BY <1>4 DEF KeysOK, d

\* nx_evdev_chord_poll: what fires is a device with both keys down, and no
\* controller is bound.
LEMMA PollRawFacts ==
  ASSUME NEW c, KeysOK(c)
  PROVE  LET d == PollRaw(c)
         IN  /\ d \in ChordState /\ d.bound = c.bound
             /\ \A r \in RawPads : /\ d.down[r] \subseteq raw[r].down
                                        \cup (IF c.bound THEN raw[r].changed ELSE {})
                                   /\ d.bound => d.down[r] = {}
             /\ d.rawFired /\ ~c.rawFired =>
                  ~c.bound /\ \E r \in RawPads : raw[r].down = Chord
<1> DEFINE keys == [r \in RawPads |-> (c.down[r] \ raw[r].changed)
                                        \cup (raw[r].down \cap raw[r].changed)]
           fired == \E r \in RawPads : keys[r] = Chord
           d == PollRaw(c)
<1>1. CASE c.bound
  BY <1>1 DEF PollRaw, KeysOK
<1>2. CASE ~c.bound
  <2>1. /\ keys \in [RawPads -> SUBSET Chord] /\ fired \in BOOLEAN
        /\ \A r \in RawPads : keys[r] \subseteq raw[r].down
    BY DEF KeysOK, ChordState, RawState
  <2>2. \A r \in RawPads : raw[r].down \subseteq Chord
    BY DEF KeysOK, RawState
  <2>3. d = [c EXCEPT !.down = keys, !.rawFired = fired]
    BY <1>2, Zenon DEF PollRaw
  <2>4. fired => \E r \in RawPads : raw[r].down = Chord
    BY <2>1, <2>2
  <2> HIDE DEF keys, fired, d
  <2>5. /\ d \in ChordState /\ d.bound = c.bound /\ d.down = keys
        /\ d.rawFired = fired
    BY <2>1, <2>3 DEF KeysOK, ChordState
  <2> QED BY <1>2, <2>1, <2>4, <2>5 DEF d
<1> QED BY <1>1, <1>2

-----------------------------------------------------------------------------
(* The loop and the controllers *)

\* A chord nxinput has seen is about to end the loop or has; when the engine
\* reads the pad, nxinput has seen every chord that is down.
NxOK ==
  /\ nx \in Nx
  /\ nx.active # {} => nx.quit \/ game.exit # "none"
  /\ pc = "render" => ~nx.quit
  /\ pc = "render" /\ nx.focused =>
       \A p \in OpenPads(nx) : Chord \subseteq sdl[p] => p \in nx.active

\* The announcement is made, or the event that makes it is on the way, for
\* every pad that is or may come to be open.
Announcing ==
  \A p \in attached \cup OpenPads(nx) :
    game.announced \/ \E i \in 1 .. Len(queue) : queue[i] = [type |-> "added", pad |-> p]

RestOK ==
  /\ focus \in BOOLEAN
  /\ pc \in {"frame", "events", "sample", "render", "left"}
  /\ owed \subseteq Buttons
  /\ together \in BOOLEAN

CInv == IInv /\ NxOK /\ Announcing /\ KeysOK(chord) /\ RestOK

\* The first reason to leave is kept, the announcement is not withdrawn, and
\* only the raw chord gives the reason "raw".
Keeps(g, h) ==
  /\ g.exit # "none" => h.exit = g.exit
  /\ h.exit = "raw" => g.exit = "raw"
  /\ g.announced => h.announced

LEMMA AskedKeeps ==
  ASSUME NEW g \in Game, NEW reason \in Reasons \ {"raw", "none"}
  PROVE  Keeps(g, Asked(g, reason)) /\ Asked(g, reason).exit # "none"
  BY DEF Asked, Game, Keeps

LEMMA TellKeeps ==
  ASSUME NEW g \in Game, NEW b, NEW pressed \in BOOLEAN
  PROVE  Keeps(g, Tell(g, b, pressed))
<1> DEFINE c == IF ~pressed THEN g.chord \ {b} ELSE g.chord \cup ({b} \cap Chord)
           k == [g EXCEPT !.chord = c]
           t == TrackExitChord(g, b, pressed)
<1>1. c \in SUBSET Chord
  BY DEF Game
<1> HIDE DEF c
<1>2. k \in Game /\ k.exit = g.exit /\ k.announced = g.announced
  BY <1>1 DEF Game
<1>3. t = Asked(k, "pad") \/ t = k
  BY DEF TrackExitChord, c
<1> HIDE DEF k
<1>4. t \in Game /\ Keeps(g, t)
  <2>1. "pad" \in Reasons /\ "pad" \in Reasons \ {"raw", "none"}
    BY DEF Reasons
  <2>2. Asked(k, "pad") \in Game /\ Keeps(k, Asked(k, "pad"))
    BY <1>2, <2>1, AskedKeeps, AskedFacts, Zenon
  <2> QED BY <1>2, <1>3, <2>2 DEF Keeps
<1> HIDE DEF t
<1>5. Tell(g, b, pressed) =
        [t EXCEPT !.engine = IF pressed THEN t.engine \cup {b} ELSE t.engine \ {b}]
  BY <1>4 DEF Tell, t
<1>6. Tell(g, b, pressed).exit = t.exit /\ Tell(g, b, pressed).announced = t.announced
  BY <1>4, <1>5 DEF Game
<1> QED BY <1>4, <1>6 DEF Keeps

LEMMA HandleKeeps ==
  ASSUME NEW g \in Game, NEW n, NEW e \in Events
  PROVE  /\ Keeps(g, Handle(g, n, e))
         /\ e.type = "added" /\ HasController(n) => Handle(g, n, e).announced
<1>1. /\ e.type \in {"down", "up"} => e.button \in Buttons
      /\ e.type \in {"added", "removed", "down", "up", "focus lost",
                     "focus gained", "quit"}
  BY DEF Events, ButtonEvents, PlugEvents, WindowEvents
<1>2. CASE e.type = "down"
  <2> DEFINE b == e.button
             h == [g EXCEPT !.down = g.down \cup {b}, !.fresh = g.fresh \cup {b}]
  <2>1. h \in Game /\ h.exit = g.exit /\ h.announced = g.announced
    BY <1>1, <1>2 DEF Game
  <2>2. Handle(g, n, e) = Tell(h, b, TRUE)
    BY <1>2 DEF Handle, Press
  <2> HIDE DEF h, b
  <2>3. Keeps(h, Tell(h, b, TRUE))
    BY <2>1, TellKeeps, Zenon
  <2> QED BY <1>2, <2>1, <2>2, <2>3 DEF Keeps
<1>3. CASE e.type = "up"
  <2> DEFINE b == e.button
             h == [g EXCEPT !.down = g.down \ {b}]
             later == [g EXCEPT !.pending = g.pending \cup {b}]
  <2>1. h \in Game /\ h.exit = g.exit /\ h.announced = g.announced
    BY DEF Game
  <2>2. later.exit = g.exit /\ later.announced = g.announced
    BY DEF Game
  <2>3. Handle(g, n, e) = Tell(h, b, FALSE) \/ Handle(g, n, e) = later
    BY <1>3 DEF Handle, Release
  <2> HIDE DEF h, b, later
  <2>4. Keeps(h, Tell(h, b, FALSE))
    BY <2>1, TellKeeps, Zenon
  <2> QED BY <1>3, <2>1, <2>2, <2>3, <2>4 DEF Keeps
<1>4. CASE e.type \in {"removed", "focus lost"}
  BY <1>4 DEF Handle, ReleaseAll, Keeps, Game
<1>5. CASE e.type = "added"
  <2> DEFINE a == g.announced \/ HasController(n)
  <2>1. Handle(g, n, e) = [g EXCEPT !.announced = a]
    BY <1>5 DEF Handle, Added
  <2>2. (g.announced => a) /\ (HasController(n) => a)
    OBVIOUS
  <2> HIDE DEF a
  <2> QED BY <2>1, <2>2 DEF Keeps, Game
<1>6. CASE e.type = "quit"
  <2>1. Handle(g, n, e) = Asked(g, "quit")
    BY <1>6 DEF Handle
  <2> QED BY <1>6, <2>1, AskedKeeps DEF Reasons
<1>7. CASE e.type = "focus gained"
  <2>1. Handle(g, n, e) = g
    BY <1>7 DEF Handle
  <2> QED BY <1>7, <2>1 DEF Keeps
<1> QED BY <1>1, <1>2, <1>3, <1>4, <1>5, <1>6, <1>7

LEMMA ControllerInit == Init => NxOK /\ Announcing /\ KeysOK(chord) /\ RestOK
<1> SUFFICES ASSUME Init PROVE NxOK /\ Announcing /\ KeysOK(chord) /\ RestOK
  OBVIOUS
<1> DEFINE none == [slots |-> [i \in Slots |-> NoPad],
                    buttons |-> [p \in Pads |-> {}], active |-> {},
                    focused |-> TRUE, quit |-> FALSE]
<1>1. SdlOK
  BY DEF Init, SdlOK
<1>2. none \in Nx /\ OpenPads(none) = {} /\ none.active = {}
  BY DEF Nx, OpenPads
<1>3. nx \in OpenDevices(none, attached) /\ pc = "frame"
  BY DEF Init, Rescan
<1> HIDE DEF none
<1>4. Follows(none, nx)
  BY <1>1, <1>2, <1>3, OpenDevicesFacts
<1>5. NxOK
  BY <1>2, <1>3, <1>4 DEF Follows, NxOK
<1>6. Announcing
  <2>1. SUFFICES ASSUME NEW p \in attached
                 PROVE  \E i \in 1 .. Len(queue) : queue[i] = [type |-> "added", pad |-> p]
    BY <1>2, <1>4 DEF Follows, Announcing
  <2>2. attached = {p}
    BY <2>1 DEF Init
  <2>3. (CHOOSE x \in attached : TRUE) = p
    BY <2>2
  <2>4. queue = <<[type |-> "added", pad |-> p]>>
    BY <2>2, <2>3 DEF Init
  <2>5. Len(queue) = 1 /\ queue[1] = [type |-> "added", pad |-> p]
    BY <2>4
  <2> QED BY <2>5
<1>7. KeysOK(chord)
  BY LimitAssumption DEF Init, KeysOK, ChordState, RawState
<1>8. RestOK
  BY DEF Init, RestOK
<1> QED BY <1>5, <1>6, <1>7, <1>8

LEMMA ControllerEnvironment ==
  CInv /\ Environment => NxOK' /\ Announcing' /\ KeysOK(chord)' /\ RestOK'
<1> SUFFICES ASSUME CInv, Environment
             PROVE  NxOK' /\ Announcing' /\ KeysOK(chord)' /\ RestOK'
  OBVIOUS
<1> DEFINE Sent == \E e \in Events :
             /\ queue' = Append(queue, e)
             /\ \A p \in attached' : p \in attached \/ e = [type |-> "added", pad |-> p]
           Quiet == /\ nx' = nx /\ game' = game /\ chord' = chord /\ pc' = pc
                    /\ owed' = owed /\ focus' \in BOOLEAN /\ together' \in BOOLEAN
                    /\ pc = "render" => sdl' = sdl
           Keyed == \/ raw' = raw
                    \/ \E r \in RawPads, k \in Chord : RawKey(r, k)
<1>1. ASSUME NEW p \in Pads, NEW b \in Buttons, NEW d \in BOOLEAN, Button(p, b, d)
      PROVE  Sent /\ Quiet /\ Keyed
  <2> DEFINE e == [type |-> IF d THEN "down" ELSE "up", pad |-> p, button |-> b]
  <2>1. e \in Events
    BY DEF Events, ButtonEvents
  <2>2. queue' = Append(queue, e) /\ attached' = attached
    BY <1>1 DEF Button, Send
  <2>3. Quiet
    BY <1>1 DEF Button, Send, Pumping, CInv, RestOK
  <2> QED BY <1>1, <2>1, <2>2, <2>3 DEF Button
<1>2. ASSUME NEW p \in Pads, Plug(p)
      PROVE  Sent /\ Quiet /\ Keyed
  <2> DEFINE e == [type |-> "added", pad |-> p]
  <2>1. e \in Events
    BY DEF Events, PlugEvents
  <2>2. queue' = Append(queue, e) /\ attached' = attached \cup {p}
    BY <1>2 DEF Plug, Send
  <2>3. Quiet
    BY <1>2 DEF Plug, history, CInv, RestOK
  <2> QED BY <1>2, <2>1, <2>2, <2>3 DEF Plug
<1>3. ASSUME NEW p \in Pads, Unplug(p)
      PROVE  Sent /\ Quiet /\ Keyed
  <2> DEFINE e == [type |-> "removed", pad |-> p]
  <2>1. e \in Events
    BY DEF Events, PlugEvents
  <2>2. queue' = Append(queue, e) /\ attached' = attached \ {p}
    BY <1>3 DEF Unplug, Send
  <2>3. Quiet
    BY <1>3 DEF Unplug, Send, Pumping, history, CInv, RestOK
  <2> QED BY <1>3, <2>1, <2>2, <2>3 DEF Unplug
<1>4. ASSUME NEW f \in BOOLEAN, Focus(f)
      PROVE  Sent /\ Quiet /\ Keyed
  <2> DEFINE e == [type |-> IF f THEN "focus gained" ELSE "focus lost"]
  <2>1. e \in Events
    BY DEF Events, WindowEvents
  <2>2. queue' = Append(queue, e) /\ attached' = attached
    BY <1>4 DEF Focus, Send
  <2>3. Quiet
    BY <1>4 DEF Focus, history, CInv, RestOK
  <2> QED BY <1>4, <2>1, <2>2, <2>3 DEF Focus
<1>5. ASSUME Quit
      PROVE  Sent /\ Quiet /\ Keyed
  <2> DEFINE e == [type |-> "quit"]
  <2>1. e \in Events
    BY DEF Events, WindowEvents
  <2>2. queue' = Append(queue, e) /\ attached' = attached
    BY <1>5 DEF Quit, Send
  <2>3. Quiet
    BY <1>5 DEF Quit, history, CInv, RestOK
  <2> QED BY <1>5, <2>1, <2>2, <2>3 DEF Quit
<1>6. ASSUME NEW r \in RawPads, NEW k \in Chord, RawKey(r, k)
      PROVE  queue' = queue /\ attached' = attached /\ Quiet /\ Keyed
  BY <1>6 DEF RawKey, history, CInv, RestOK
<1>7. /\ Sent \/ (queue' = queue /\ attached' = attached)
      /\ Quiet /\ Keyed
  BY <1>1, <1>2, <1>3, <1>4, <1>5, <1>6 DEF Environment
<1> HIDE DEF Sent, Keyed
<1>8. NxOK' /\ RestOK'
  BY <1>7 DEF CInv, NxOK, RestOK
<1>9. Announcing'
  <2>1. CASE Sent
    <3>1. PICK e \in Events :
            /\ queue' = Append(queue, e)
            /\ \A p \in attached' : p \in attached \/ e = [type |-> "added", pad |-> p]
      BY <2>1 DEF Sent
    <3>2. /\ Len(queue) \in Nat /\ Len(queue') = Len(queue) + 1
          /\ queue'[Len(queue) + 1] = e
          /\ \A i \in 1 .. Len(queue) : queue'[i] = queue[i]
      BY <3>1 DEF CInv, IInv, QueueOK
    <3>3. ASSUME NEW p \in attached' \cup OpenPads(nx)
          PROVE  \/ game.announced
                 \/ \E i \in 1 .. Len(queue') : queue'[i] = [type |-> "added", pad |-> p]
      <4>1. CASE p \in attached \cup OpenPads(nx)
        BY <3>2, <4>1 DEF CInv, Announcing
      <4>2. CASE e = [type |-> "added", pad |-> p]
        BY <3>2, <4>2
      <4> QED BY <3>1, <4>1, <4>2
    <3> QED BY <1>7, <3>3 DEF Announcing
  <2>2. CASE queue' = queue /\ attached' = attached
    BY <1>7, <2>2 DEF CInv, Announcing
  <2> QED BY <1>7, <2>1, <2>2
<1>10. KeysOK(chord)'
  <2>1. CASE raw' = raw
    BY <1>7, <2>1 DEF CInv, KeysOK
  <2>2. CASE \E r \in RawPads, k \in Chord : RawKey(r, k)
    <3>1. PICK r \in RawPads, k \in Chord : RawKey(r, k)
      BY <2>2
    <3> DEFINE d == IF k \in raw[r].down THEN raw[r].down \ {k} ELSE raw[r].down \cup {k}
               c == raw[r].changed \cup {k}
    <3>2. raw' = [raw EXCEPT ![r] = [down |-> d, changed |-> c]]
      BY <3>1 DEF RawKey
    <3>3. /\ d \in SUBSET Chord /\ c \in SUBSET Chord
          /\ raw[r].down \cup raw[r].changed \subseteq d \cup c
      BY DEF CInv, KeysOK, RawState
    <3> HIDE DEF d, c
    <3>4. raw' \in RawState
      BY <3>2, <3>3 DEF CInv, KeysOK, RawState
    <3>5. \A x \in RawPads : raw[x].down \cup raw[x].changed
                               \subseteq raw'[x].down \cup raw'[x].changed
      BY <3>2, <3>3 DEF CInv, KeysOK, RawState
    <3> QED BY <1>7, <3>4, <3>5 DEF CInv, KeysOK
  <2> QED BY <1>7, <2>1, <2>2 DEF Keyed
<1> QED BY <1>8, <1>9, <1>10

\* What taking the first event leaves.
LEMMA TailFacts ==
  ASSUME NEW q \in Seq(Events), q # <<>>
  PROVE  /\ Head(q) \in Events /\ Head(q) = q[1]
         /\ Len(q) \in Nat \ {0} /\ Len(Tail(q)) = Len(q) - 1
         /\ \A j \in 1 .. Len(q) - 1 : Tail(q)[j] = q[j + 1]
<1>1. Len(q) \in Nat \ {0} /\ Head(q) = q[1]
  OBVIOUS
<1>2. q[1] \in Events
  BY <1>1
<1>3. /\ Len(Tail(q)) = Len(q) - 1
      /\ \A j \in 1 .. Len(q) - 1 : Tail(q)[j] = q[j + 1]
  BY <1>1
<1> QED BY <1>1, <1>2, <1>3

\* What Frame does to the polled chord, and why.
LEMMA FrameFacts ==
  ASSUME CInv, Frame
  PROVE  /\ KeysOK(chord)'
         /\ game'.exit = "raw" /\ game.exit = "none" =>
              ~HasController(nx) /\ \E r \in RawPads : raw[r].down = Chord
         /\ game.announced => game'.announced
<1> DEFINE first == FirstPad(nx)
           bound == Bind(chord, first # NoPad)
           state == PollState(bound, first)
           after == PollRaw(state)
           held  == state.fired /\ ~chord.fired
           rawed == after.rawFired /\ ~state.rawFired
           due   == game.announced \/ (game.announceAt = 1 /\ HasController(nx))
           f     == FlushPending(game)
           told  == [f EXCEPT !.announceAt = CountDown(f.announceAt), !.announced = due]
           read  == [r \in RawPads |-> [raw[r] EXCEPT !.changed = {}]]
<1>1. /\ chord' = IF held THEN state ELSE after
      /\ raw' = IF held THEN raw ELSE read
  BY DEF Frame
<1>2. game' = IF held THEN Asked(told, "held") ELSE IF rawed THEN Asked(told, "raw") ELSE told
  BY DEF Frame, FlushPending
<1>3. nx \in Nx /\ KeysOK(chord) /\ game \in Game
  BY GameIsGame DEF CInv, NxOK, IInv
<1>4. KeysOK(state) /\ state.bound = (first # NoPad)
  <2>1. KeysOK(bound) /\ bound.bound = (first # NoPad)
    BY <1>3, BindFacts
  <2> HIDE DEF bound
  <2> QED BY <2>1, PollStateFacts
<1> HIDE DEF state
<1>5. /\ after \in ChordState /\ after.bound = state.bound
      /\ \A r \in RawPads : /\ after.down[r] \subseteq raw[r].down
                                 \cup (IF state.bound THEN raw[r].changed ELSE {})
                            /\ after.bound => after.down[r] = {}
      /\ rawed => ~state.bound /\ \E r \in RawPads : raw[r].down = Chord
  BY <1>4, PollRawFacts
<1> HIDE DEF after
<1>6. KeysOK(chord)'
  <2>1. CASE held
    BY <1>1, <1>4, <2>1 DEF KeysOK
  <2>2. CASE ~held
    <3>1. read \in RawState /\ \A r \in RawPads : read[r].down = raw[r].down
      BY <1>3 DEF KeysOK, RawState
    <3> HIDE DEF read
    <3>2. \A r \in RawPads : after.down[r] \subseteq raw[r].down
      BY <1>5
    <3> QED BY <1>1, <1>5, <2>2, <3>1, <3>2 DEF KeysOK
  <2> QED BY <2>1, <2>2
<1>7. f \in Game /\ f.exit = game.exit
  BY <1>3, FlushFacts DEF FlushPending, Game
<1> HIDE DEF f
<1>8. due \in BOOLEAN /\ CountDown(f.announceAt) \in 0 .. AnnounceAfter
  BY <1>3, <1>7, LimitAssumption DEF Game, CountDown
<1>9. game.announced => due
  OBVIOUS
<1> HIDE DEF due
<1>10. told \in Game /\ told.exit = game.exit /\ told.announced = due
  BY <1>7, <1>8 DEF Game
<1> HIDE DEF told
<1>11. game'.exit = "raw" /\ game.exit = "none" => rawed
  <2>1. Asked(told, "held").exit \in {told.exit, "held"}
    BY <1>10 DEF Asked, Game
  <2> QED BY <1>2, <1>10, <2>1
<1>12. game'.announced = due
  <2>1. ASSUME NEW reason PROVE Asked(told, reason).announced = told.announced
    BY <1>10 DEF Asked, Game
  <2> QED BY <1>2, <1>10, <2>1
<1>13. ~state.bound => ~HasController(nx)
  BY <1>3, <1>4, FirstPadFacts
<1> QED BY <1>5, <1>6, <1>9, <1>11, <1>12, <1>13

\* No other step of the loop ends the game for the raw chord.
LEMMA LoopKeeps ==
  ASSUME CInv, PollEvent \/ NoMoreEvents \/ PollInput \/ Render \/ Leave
  PROVE  Keeps(game, game')
<1>1. game \in Game
  BY GameIsGame DEF CInv, IInv
<1>2. CASE PollEvent
  <2>1. /\ queue \in Seq(Events) /\ queue # <<>>
        /\ game' = Handle(game, nx', Head(queue))
    BY <1>2 DEF PollEvent, CInv, IInv, QueueOK
  <2>2. Head(queue) \in Events
    BY <2>1, TailFacts
  <2> QED BY <1>1, <2>1, <2>2, HandleKeeps
<1>3. CASE PollInput
  <2>1. game' = Asked(game, "nxinput") \/ game' = game
    BY <1>3 DEF PollInput
  <2>2. "nxinput" \in Reasons \ {"raw", "none"}
    BY DEF Reasons
  <2> QED BY <1>1, <2>1, <2>2, AskedKeeps DEF Keeps
<1>4. CASE NoMoreEvents \/ Render \/ Leave
  BY <1>4 DEF NoMoreEvents, Render, Leave, Keeps
<1> QED BY <1>2, <1>3, <1>4

LEMMA ControllerFrame ==
  CInv /\ Frame => NxOK' /\ Announcing' /\ KeysOK(chord)' /\ RestOK'
<1> SUFFICES ASSUME CInv, Frame
             PROVE  NxOK' /\ Announcing' /\ KeysOK(chord)' /\ RestOK'
  OBVIOUS
<1>1. /\ nx' = nx /\ queue' = queue /\ attached' = attached /\ pc' = "events"
      /\ focus' = focus /\ owed' = owed /\ together' = together
      /\ game.exit = "none"
  BY DEF Frame, history
<1>2. KeysOK(chord)' /\ (game.announced => game'.announced)
  BY FrameFacts
<1>3. NxOK'
  BY <1>1 DEF CInv, NxOK
<1>4. Announcing'
  BY <1>1, <1>2 DEF CInv, Announcing
<1>5. RestOK'
  BY <1>1 DEF CInv, RestOK
<1> QED BY <1>2, <1>3, <1>4, <1>5

LEMMA ControllerEvent ==
  CInv /\ PollEvent => NxOK' /\ Announcing' /\ KeysOK(chord)' /\ RestOK'
<1> SUFFICES ASSUME CInv, PollEvent
             PROVE  NxOK' /\ Announcing' /\ KeysOK(chord)' /\ RestOK'
  OBVIOUS
<1> DEFINE e == Head(queue)
<1>1. /\ queue # <<>> /\ queue' = Tail(queue) /\ attached' = attached
      /\ pc = "events" /\ pc' = pc /\ focus' = focus /\ raw' = raw
      /\ chord' = chord /\ together' = together
      /\ nx' \in Observe(nx, e) /\ game' = Handle(game, nx', e)
      /\ owed' = CASE e.type = "down" -> owed \cup {e.button}
                   [] e.type = "up" -> owed \ {e.button}
                   [] e.type \in {"removed", "focus lost"} -> {}
                   [] OTHER -> owed
  BY DEF PollEvent
<1>2. /\ SdlOK /\ nx \in Nx /\ game \in Game /\ queue \in Seq(Events) /\ e \in Events
  <2>1. queue \in Seq(Events)
    BY DEF CInv, IInv, QueueOK
  <2>2. e \in Events
    BY <1>1, <2>1, TailFacts
  <2> QED BY <2>1, <2>2, GameIsGame DEF CInv, IInv, QueueOK, SdlOK, NxOK
<1>3. /\ Follows(nx, nx')
      /\ e.type = "added" => /\ OpenPads(nx) \subseteq OpenPads(nx')
                             /\ e.pad \in attached => HasController(nx')
  BY <1>1, <1>2, ObserveFacts
<1>4. /\ Keeps(game, game')
      /\ e.type = "added" /\ HasController(nx') => game'.announced
  BY <1>1, <1>2, HandleKeeps
<1>5. NxOK'
  BY <1>1, <1>3, <1>4 DEF CInv, NxOK, Follows, Keeps
<1>6. Announcing'
  <2>1. SUFFICES ASSUME NEW p \in attached \cup OpenPads(nx'), ~game'.announced
                 PROVE  \E i \in 1 .. Len(queue') : queue'[i] = [type |-> "added", pad |-> p]
    BY <1>1 DEF Announcing
  <2>2. p \in attached \cup OpenPads(nx)
    BY <1>3, <2>1 DEF Follows
  <2>3. ~game.announced
    BY <1>4, <2>1 DEF Keeps
  <2>4. PICK i \in 1 .. Len(queue) : queue[i] = [type |-> "added", pad |-> p]
    BY <2>2, <2>3 DEF CInv, Announcing
  <2>5. /\ Len(queue) \in Nat \ {0} /\ Len(queue') = Len(queue) - 1
        /\ \A j \in 1 .. Len(queue) - 1 : queue'[j] = queue[j + 1]
        /\ e = queue[1]
    BY <1>1, <1>2, TailFacts
  <2>6. i # 1
    <3>1. SUFFICES ASSUME e = [type |-> "added", pad |-> p] PROVE FALSE
      BY <2>4, <2>5
    <3>2. e.type = "added" /\ e.pad = p
      BY <3>1
    <3>3. HasController(nx')
      <4>1. CASE p \in attached
        BY <1>3, <3>2, <4>1
      <4>2. CASE p \in OpenPads(nx)
        BY <1>3, <3>2, <4>2 DEF HasController
      <4> QED BY <2>2, <4>1, <4>2
    <3> QED BY <1>4, <2>1, <3>2, <3>3
  <2>7. /\ i - 1 \in 1 .. Len(queue') /\ queue'[i - 1] = queue[(i - 1) + 1]
        /\ (i - 1) + 1 = i
    BY <2>5, <2>6
  <2> QED BY <2>4, <2>7
<1>7. RestOK'
  <2>1. e.type \in {"down", "up"} => e.button \in Buttons
    BY <1>2 DEF Events, ButtonEvents, PlugEvents, WindowEvents
  <2> QED BY <1>1, <2>1 DEF CInv, RestOK
<1> QED BY <1>1, <1>5, <1>6, <1>7 DEF CInv, KeysOK

LEMMA ControllerPoll ==
  CInv /\ PollInput => NxOK' /\ Announcing' /\ KeysOK(chord)' /\ RestOK'
<1> SUFFICES ASSUME CInv, PollInput
             PROVE  NxOK' /\ Announcing' /\ KeysOK(chord)' /\ RestOK'
  OBVIOUS
<1>1. /\ queue' = queue /\ attached' = attached /\ sdl' = sdl /\ pc' = "render"
      /\ focus' = focus /\ raw' = raw /\ chord' = chord /\ owed' = owed
      /\ together' = together
  BY DEF PollInput, sdlVars, history
<1>2. PICK n \in Poll(nx) :
        /\ nx' = [n EXCEPT !.quit = FALSE]
        /\ game' = IF n.quit THEN Asked(game, "nxinput") ELSE game
  BY DEF PollInput
<1>3. SdlOK /\ nx \in Nx /\ game \in Game
  BY GameIsGame DEF CInv, IInv, QueueOK, SdlOK, NxOK
<1>4. /\ Follows(nx, n)
      /\ n.focused => \A p \in OpenPads(n) : Chord \subseteq sdl[p] => p \in n.active
  BY <1>3, PollFacts
<1>5. /\ nx' \in Nx /\ nx'.slots = n.slots /\ nx'.active = n.active
      /\ nx'.focused = n.focused /\ nx'.quit = FALSE
  BY <1>2, <1>4 DEF Follows, Nx
<1>6. OpenPads(nx') = OpenPads(n)
  BY <1>5, SameSlots
<1>7. /\ Keeps(game, game')
      /\ n.quit => game'.exit # "none"
  <2>1. "nxinput" \in Reasons \ {"raw", "none"}
    BY DEF Reasons
  <2>2. Keeps(game, Asked(game, "nxinput")) /\ Asked(game, "nxinput").exit # "none"
    BY <1>3, <2>1, AskedKeeps
  <2> QED BY <1>2, <2>2 DEF Keeps
<1>8. NxOK'
  <2>1. n.active # {} => game'.exit # "none"
    BY <1>4, <1>7 DEF CInv, NxOK, Follows, Keeps
  <2> QED BY <1>1, <1>4, <1>5, <1>6, <2>1 DEF NxOK
<1>9. Announcing'
  BY <1>1, <1>4, <1>6, <1>7 DEF CInv, Announcing, Follows, Keeps
<1> QED BY <1>1, <1>8, <1>9 DEF CInv, KeysOK, RestOK

LEMMA ControllerQuiet ==
  CInv /\ (NoMoreEvents \/ Render \/ Leave)
    => NxOK' /\ Announcing' /\ KeysOK(chord)' /\ RestOK'
<1> SUFFICES ASSUME CInv, NoMoreEvents \/ Render \/ Leave
             PROVE  NxOK' /\ Announcing' /\ KeysOK(chord)' /\ RestOK'
  OBVIOUS
<1>1. /\ queue' = queue /\ attached' = attached /\ sdl' = sdl /\ focus' = focus
      /\ raw' = raw /\ chord' = chord /\ owed' = owed /\ together' = together
      /\ nx' = nx /\ game' = game /\ pc' \in {"sample", "frame", "left"}
  BY DEF NoMoreEvents, Render, Leave, sdlVars, history
<1> QED BY <1>1 DEF CInv, NxOK, Announcing, KeysOK, RestOK

-----------------------------------------------------------------------------
(* The theorems *)

\* IInv holds in every state the input path can be in.
THEOREM Inductive == Spec => []IInv
<1>1. IInv /\ [Next]_vars => IInv'
  <2> SUFFICES ASSUME IInv, [Next]_vars PROVE IInv'
    OBVIOUS
  <2>1. CASE UNCHANGED vars
    BY <2>1 DEF vars, IInv, GameOK, UnseenIsFresh, QueueOK, Accounted, Down
  <2> QED BY <2>1, LoopStep, EnvironmentStep DEF Next
<1> QED BY InitHolds, <1>1, PTL DEF Spec

\* Every press is seen by the engine when it next reads the pad, for any
\* number of pads and any order of presses, releases and lost pads.
THEOREM EveryPressIsSeen == Spec => []PressIsSeen
<1>1. IInv => PressIsSeen
  BY DEF IInv, UnseenIsFresh, GameOK, PressIsSeen
<1> QED BY Inductive, <1>1, PTL

\* No button stays down for the engine after it was let go, or after its pad
\* or the focus went away.
THEOREM NoButtonIsStuck == Spec => []NothingStuck
<1>1. IInv => NothingStuck
  <2> SUFFICES ASSUME IInv, NEW b \in game.engine
               PROVE  \/ \E p \in attached : b \in sdl[p]
                      \/ b \in game.pending
                      \/ \E i \in DOMAIN queue :
                           \/ queue[i].type \in {"removed", "focus lost"}
                           \/ queue[i].type = "up" /\ queue[i].button = b
    BY DEF NothingStuck
  <2>1. DOMAIN queue = 1 .. Len(queue)
    BY DEF IInv, QueueOK
  <2> QED BY <2>1 DEF IInv, Accounted, Down, Ends
<1> QED BY Inductive, <1>1, PTL

\* CInv holds in every state of the loop: what nxinput has seen, what SDL has
\* queued and what main.c has told the engine agree on every pad.
THEOREM ControllersAgree == Spec => []CInv
<1>1. Init => CInv
  BY InitHolds, ControllerInit DEF CInv
<1>2. CInv /\ [Next]_vars => CInv'
  <2> SUFFICES ASSUME CInv, [Next]_vars PROVE CInv'
    OBVIOUS
  <2>1. CASE UNCHANGED vars
    BY <2>1 DEF vars, CInv, IInv, GameOK, UnseenIsFresh, QueueOK, Accounted,
                Down, NxOK, Announcing, KeysOK, RestOK
  <2>2. CASE Next
    <3>1. IInv'
      BY <2>2, LoopStep, EnvironmentStep DEF CInv, Next
    <3>2. NxOK' /\ Announcing' /\ KeysOK(chord)' /\ RestOK'
      BY <2>2, ControllerEnvironment, ControllerFrame, ControllerEvent,
         ControllerPoll, ControllerQuiet DEF Next, Loop
    <3> QED BY <3>1, <3>2 DEF CInv
  <2> QED BY <2>1, <2>2
<1> QED BY <1>1, <1>2, PTL DEF Spec

\* The tables of main.c, the slots of nxinput and the polled chord keep their
\* types.
THEOREM TypesHold == Spec => []TypeOK
<1>1. CInv => TypeOK
  BY DEF CInv, IInv, GameOK, UnseenIsFresh, QueueOK, NxOK, Nx, KeysOK, RestOK,
         ChordState, RawState, TypeOK, Game
<1> QED BY ControllersAgree, <1>1, PTL

\* For any number of pads and slots: a chord that is down on an open pad when
\* the engine reads it has asked the loop to stop, however the pad came to be
\* open and whatever was missed while the window had no focus.
THEOREM HeldChordAlwaysQuits == Spec => []HeldChordQuits
<1>1. CInv => HeldChordQuits
  BY DEF CInv, NxOK, HeldChordQuits
<1> QED BY ControllersAgree, <1>1, PTL

\* For any order of hot-plug events, rescans and frames: a pad that is open
\* has been announced or will be by an event in the queue.
THEOREM ConnectedIsAlwaysAnnounced == Spec => []ConnectedIsAnnounced
<1>1. CInv => ConnectedIsAnnounced
  <2> SUFFICES ASSUME CInv, HasController(nx), ~game.announced
               PROVE  \E i \in DOMAIN queue : queue[i].type = "added"
    BY DEF ConnectedIsAnnounced
  <2>1. PICK p \in OpenPads(nx) : TRUE
    BY DEF HasController
  <2>2. PICK i \in 1 .. Len(queue) : queue[i] = [type |-> "added", pad |-> p]
    BY DEF CInv, Announcing
  <2>3. DOMAIN queue = 1 .. Len(queue)
    BY DEF CInv, IInv, QueueOK
  <2> QED BY <2>2, <2>3
<1> QED BY ControllersAgree, <1>1, PTL

\* The raw chord ends the game only while a device has both keys down and no
\* controller is open, whatever was remembered of either before.
THEOREM RawChordIsAlwaysHeld == Spec => RawChordIsHeld
<1> DEFINE Goal == game'.exit = "raw" /\ game.exit = "none"
                     => ~HasController(nx) /\ \E r \in RawPads : raw[r].down = Chord
<1>1. CInv /\ [Next]_vars => [Goal]_vars
  <2> SUFFICES ASSUME CInv, Next PROVE Goal
    OBVIOUS
  <2>1. CASE Frame
    BY <2>1, FrameFacts
  <2>2. CASE PollEvent \/ NoMoreEvents \/ PollInput \/ Render \/ Leave
    BY <2>2, LoopKeeps DEF Keeps
  <2>3. CASE Environment
    BY <2>3 DEF Environment, Button, Plug, Unplug, Focus, Quit, RawKey
  <2> QED BY <2>1, <2>2, <2>3 DEF Next, Loop
<1> QED BY <1>1, ControllersAgree, PTL DEF Spec, RawChordIsHeld

=============================================================================
