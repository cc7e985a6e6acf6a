---------------------------- MODULE AudioBridge ----------------------------
(***************************************************************************)
(* The audio bridge of the port (src/opensles_shim.c): OpenSL ES players   *)
(* for the engine, one SDL device for the system.  Three threads meet in a *)
(* player:                                                                 *)
(*                                                                         *)
(*   game   the engine's calls: create, play, stop, clear, destroy, and    *)
(*          Enqueue, which copies a buffer into the ring of the player;    *)
(*   pump   every 2 ms asks the decoders of the playing players for more   *)
(*          buffers, notices that one has no more, and stops the player    *)
(*          when its ring is empty (HEADATEND);                            *)
(*   mixer  the SDL callback: reads the rings of the playing players.  SDL *)
(*          holds the lock of the device while it runs.                    *)
(*                                                                         *)
(* The lock of the device keeps the calls that stop, clear and destroy     *)
(* apart from the mixer.  Nothing keeps pump and game apart, and Enqueue   *)
(* takes no lock: ring_head belongs to whoever enqueues, ring_tail to the  *)
(* mixer, and both are set to 0 when a player is reset.  A reset or a      *)
(* second Enqueue in the middle of an Enqueue of the other thread tears    *)
(* the player: until it is reset again nothing is promised of its ring.    *)
(*                                                                         *)
(* Data is counted in frames of the source.  A cell of a ring holds the    *)
(* number of the frame written into it since the player was last reset, or *)
(* Junk: what an earlier sound left there.  The counters have 32 bits: a   *)
(* sound stays below that (MaxFrames), but the counters of a torn player   *)
(* wrap.                                                                   *)
(***************************************************************************)
EXTENDS Integers

CONSTANTS
  MaxPlayers,  \* MAX_PLAYERS
  RingSize,    \* RING_BUFFER_SIZE, in frames
  Width,       \* 2^32, in frames
  Frames,      \* frames the device asks for in one callback
  One,         \* 65536: one source frame in the fixed point of the resampler
  Rate,        \* the rate of the source in that fixed point, One if it is the device's
  Stereo,      \* has the source two channels?
  Sizes,       \* sizes of the buffers the engine enqueues
  Threshold,   \* refill_threshold
  MaxCalls,    \* callbacks of one player in one visit of the pump (64)
  MaxFrames,   \* bound: frames enqueued since a player was reset
  Junk         \* what a cell holds that was not written since the reset

ASSUME PlayerAssumption == MaxPlayers \in Nat \ {0}
ASSUME RingAssumption == RingSize \in Nat \ {0} /\ Width \in Nat /\ Width > RingSize
ASSUME RateAssumption ==
  /\ One \in Nat \ {0}
  /\ Rate \in Nat \ {0}
  /\ Stereo \in BOOLEAN
  /\ Frames \in Nat \ {0}
ASSUME FeedAssumption ==
  /\ Sizes \subseteq Nat \ {0}
  /\ Threshold \in Nat
  /\ MaxCalls \in Nat
  /\ MaxFrames \in Nat /\ MaxFrames < Width
ASSUME JunkAssumption == Junk \notin Nat

VARIABLES
  state,   \* active and play_state of every player
  head,    \* ring_head
  tail,    \* ring_tail
  ring,    \* the ring
  frac,    \* resample_pos
  flags,   \* callback, decoder_done, headatend_fired and enqueue_counter
  dry,     \* engine: the decoder of the player has nothing left
  writer,  \* game and pump: the Enqueue that has copied and not yet published
  pump,    \* the pump thread
  mixer    \* the SDL callback

\* History: what the properties are stated with, no action reads it.
VARIABLES
  torn,    \* an Enqueue met a reset or an Enqueue of the other thread
  fresh    \* frames enqueued since the pump found its player at the end

history == <<torn, fresh>>

vars == <<state, head, tail, ring, frac, flags, dry, writer, pump, mixer, history>>

Players == 1 .. MaxPlayers
Cells == 0 .. RingSize - 1
Threads == {"game", "pump"}
NoPlayer == 0

\* "free" is active = 0; a player that is not active is stopped.
States == {"free", "stopped", "paused", "playing"}

\* moved stands for enqueue_counter: has it changed since the pump read it?
Flags == [callback : BOOLEAN, done : BOOLEAN, fired : BOOLEAN, moved : BOOLEAN]
NoFlags == [callback |-> FALSE, done |-> FALSE, fired |-> FALSE, moved |-> FALSE]

\* Where the pump is in its visit of a player.  At "stop" it has reported the
\* end of the sound, and the engine may answer with an Enqueue.
Places == {"visit", "fill", "callback", "publish", "return", "check",
           "stop", "publishAtStop"}
Ending == pump.pc \in {"stop", "publishAtStop"}

Idle == [player |-> NoPlayer, at |-> 0, len |-> 0]

TypeOK ==
  /\ state \in [Players -> States]
  /\ head \in [Players -> Nat]
  /\ tail \in [Players -> Nat]
  /\ ring \in [Players -> [Cells -> Nat \cup {Junk}]]
  /\ frac \in [Players -> 0 .. One - 1]
  /\ flags \in [Players -> Flags]
  /\ dry \in [Players -> BOOLEAN]
  /\ writer \in [Threads -> [player : Players \cup {NoPlayer}, at : Nat, len : Nat]]
  /\ pump \in [pc : Places, at : Players, calls : 0 .. MaxCalls]
  /\ mixer \in [pc : {"idle", "test", "mix"}, at : Players, got : Nat]
  /\ torn \in [Players -> BOOLEAN]
  /\ fresh \in Nat

Init ==
  /\ state = [p \in Players |-> "free"]
  /\ head = [p \in Players |-> 0]
  /\ tail = [p \in Players |-> 0]
  /\ ring = [p \in Players |-> [c \in Cells |-> Junk]]
  /\ frac = [p \in Players |-> 0]
  /\ flags = [p \in Players |-> NoFlags]
  /\ dry = [p \in Players |-> FALSE]
  /\ writer = [t \in Threads |-> Idle]
  /\ pump = [pc |-> "visit", at |-> 1, calls |-> 0]
  /\ mixer = [pc |-> "idle", at |-> 1, got |-> 0]
  /\ torn = [p \in Players |-> FALSE]
  /\ fresh = 0

-----------------------------------------------------------------------------
(* The ring *)

\* ring_readable: an unsigned difference
Readable(p) == (head[p] - tail[p]) % Width

\* ring_writable: an unsigned difference too
Writable(p) == (RingSize - Readable(p)) % Width

\* The whole buffer, room or not.
TakenWhole(p, len) == len

\* The part of a buffer ring_write takes.
Taken(p, len) == IF len > Writable(p) THEN Writable(p) ELSE len

\* The other thread is in the middle of an Enqueue into p.
Amid(t, p) == \E u \in Threads \ {t} : writer[u].player = p

\* ring_head = ring_tail = 0, by thread t
Reset(t, p) ==
  /\ head' = [head EXCEPT ![p] = 0]
  /\ tail' = [tail EXCEPT ![p] = 0]
  /\ ring' = [ring EXCEPT ![p] = [c \in Cells |-> Junk]]
  /\ torn' = [torn EXCEPT ![p] = Amid(t, p)]
  /\ fresh' = IF p = pump.at THEN 0 ELSE fresh

\* ring_write up to the barrier: the frames are copied behind the head.
Copy(t, p, len) ==
  /\ len > 0
  /\ head[p] + len <= MaxFrames
  /\ ring' = [ring EXCEPT ![p] = [c \in Cells |->
                IF \E k \in head[p] .. head[p] + len - 1 : k % RingSize = c
                THEN CHOOSE k \in head[p] .. head[p] + len - 1 : k % RingSize = c
                ELSE @[c]]]
  /\ writer' = [writer EXCEPT ![t] = [player |-> p, at |-> head[p], len |-> len]]
  /\ torn' = [torn EXCEPT ![p] = @ \/ Amid(t, p)]
  /\ UNCHANGED fresh

\* ring_head += len, and the bookkeeping of bq_Enqueue.  The head is read
\* again, before or after a reset by another thread.
Publish(t) ==
  LET w == writer[t]
  IN  /\ \E base \in {w.at, head[w.player]} :
           head' = [head EXCEPT ![w.player] = (base + w.len) % Width]
      /\ flags' = [flags EXCEPT ![w.player].moved = TRUE]
      /\ writer' = [writer EXCEPT ![t] = Idle]
      /\ fresh' = IF Ending /\ w.player = pump.at /\ ~torn[pump.at]
                  THEN fresh + w.len ELSE fresh
      /\ UNCHANGED torn

-----------------------------------------------------------------------------
(* The calls of the engine.  SDL_LockAudioDevice waits for the mixer.       *)

DeviceFree == mixer.pc = "idle"

\* The game thread makes its calls one after the other, whatever the pump does.
MayCall == writer["game"].player = NoPlayer

\* alloc_player: a free player, else a stopped one, else any.  A stopped
\* player is taken without the lock when its ring and queue are empty.
Allocated(p) ==
  \/ /\ state[p] = "free"
     /\ \A q \in 1 .. p - 1 : state[q] # "free"
  \/ /\ \A q \in Players : state[q] # "free"
     /\ state[p] = "stopped"
     /\ Readable(p) = 0 \/ DeviceFree
  \/ /\ \A q \in Players : state[q] \notin {"free", "stopped"}
     /\ DeviceFree

\* CreateAudioPlayer, player_reset_meta
CreateAudioPlayer(p) ==
  /\ MayCall
  /\ Allocated(p)
  /\ Reset("game", p)
  /\ state' = [state EXCEPT ![p] = "stopped"]
  /\ frac' = [frac EXCEPT ![p] = 0]
  /\ \E m \in BOOLEAN : flags' = [flags EXCEPT ![p] = [NoFlags EXCEPT !.moved = m]]
  /\ dry' = [dry EXCEPT ![p] = FALSE]
  /\ UNCHANGED <<writer, pump, mixer>>

\* bq_RegisterCallback
RegisterCallback(p) ==
  /\ MayCall
  /\ state[p] = "stopped"
  /\ flags' = [flags EXCEPT ![p].callback = TRUE]
  /\ UNCHANGED <<state, head, tail, ring, frac, dry, writer, pump, mixer, history>>

\* play_SetPlayState, without SDL_LockAudioDevice
SetPlayStateUnlocked(p, s) ==
  /\ MayCall
  /\ state[p] # "free"
  /\ state' = [state EXCEPT ![p] = s]
  /\ UNCHANGED <<head, tail, ring, frac, flags, dry, writer, pump, mixer, history>>

\* play_SetPlayState.  An engine that stops a player starts its decoder over.
SetPlayState(p, s) ==
  /\ MayCall
  /\ DeviceFree
  /\ state[p] # "free"
  /\ state' = [state EXCEPT ![p] = s]
  /\ IF s = "stopped" /\ state[p] # "stopped"
     THEN /\ Reset("game", p)
          /\ flags' = [flags EXCEPT ![p] = [@ EXCEPT !.fired = FALSE, !.done = FALSE]]
     ELSE UNCHANGED <<head, tail, ring, flags, history>>
  /\ dry' = IF s = "stopped" THEN [dry EXCEPT ![p] = FALSE] ELSE dry
  /\ UNCHANGED <<frac, writer, pump, mixer>>

\* bq_Clear
Clear(p) ==
  /\ MayCall
  /\ DeviceFree
  /\ state[p] # "free"
  /\ Reset("game", p)
  /\ \E m \in BOOLEAN :
       flags' = [flags EXCEPT ![p] =
                  [@ EXCEPT !.fired = FALSE, !.done = FALSE, !.moved = m]]
  /\ dry' = [dry EXCEPT ![p] = FALSE]
  /\ UNCHANGED <<state, frac, writer, pump, mixer>>

\* player_Destroy
Destroy(p) ==
  /\ MayCall
  /\ DeviceFree
  /\ state[p] # "free"
  /\ state' = [state EXCEPT ![p] = "free"]
  /\ UNCHANGED <<head, tail, ring, frac, flags, dry, writer, pump, mixer, history>>

\* bq_Enqueue on the game thread
Enqueue(p, size) ==
  /\ MayCall
  /\ state[p] # "free"
  /\ ~dry[p]
  /\ Copy("game", p, Taken(p, size))
  /\ UNCHANGED <<state, head, tail, frac, flags, dry, pump, mixer>>

EnqueueReturns ==
  /\ writer["game"].player # NoPlayer
  /\ Publish("game")
  /\ UNCHANGED <<state, tail, ring, frac, dry, pump, mixer>>

\* The decoder of the engine reaches the end of the sound.
DecoderEnds(p) ==
  /\ state[p] # "free"
  /\ dry' = [dry EXCEPT ![p] = TRUE]
  /\ UNCHANGED <<state, head, tail, ring, frac, flags, writer, pump, mixer, history>>

-----------------------------------------------------------------------------
(* The pump: opensles_shim_pump_callbacks in a loop *)

NextVisit == [pc |-> "visit", at |-> IF pump.at = MaxPlayers THEN 1 ELSE pump.at + 1,
              calls |-> 0]

\* The players the pump looks at, leaving out those with an empty ring.
ToVisitFed(p) == state[p] = "playing" /\ Readable(p) > 0

\* The players the pump looks at.
ToVisit(p) == state[p] = "playing"

PumpVisit ==
  /\ pump.pc = "visit"
  /\ pump' = IF ToVisit(pump.at)
             THEN [pc |-> "fill", at |-> pump.at, calls |-> MaxCalls]
             ELSE NextVisit
  /\ UNCHANGED <<state, head, tail, ring, frac, flags, dry, writer, mixer, history>>

\* The condition of the while loop.
Hungry(p) == flags[p].callback /\ Readable(p) <= Threshold /\ pump.calls > 0

PumpFill ==
  /\ pump.pc = "fill"
  /\ IF Hungry(pump.at)
     THEN /\ pump' = [pump EXCEPT !.pc = "callback"]
          /\ flags' = [flags EXCEPT ![pump.at].moved = FALSE]
     ELSE /\ pump' = [pump EXCEPT !.pc = "check"]
          /\ UNCHANGED flags
  /\ UNCHANGED <<state, head, tail, ring, frac, dry, writer, mixer, history>>

\* The callback of the engine, for more data or at the end of the sound,
\* enqueues one buffer, or none.
CallbackEnqueues(size) ==
  /\ pump.pc \in {"callback", "stop"}
  /\ ~dry[pump.at]
  /\ Copy("pump", pump.at, Taken(pump.at, size))
  /\ pump' = [pump EXCEPT !.pc = IF @ = "callback" THEN "publish" ELSE "publishAtStop"]
  /\ UNCHANGED <<state, head, tail, frac, flags, dry, mixer>>

CallbackPublishes ==
  /\ pump.pc \in {"publish", "publishAtStop"}
  /\ Publish("pump")
  /\ pump' = [pump EXCEPT !.pc = IF @ = "publish" THEN "return" ELSE "stop"]
  /\ UNCHANGED <<state, tail, ring, frac, dry, mixer>>

\* The pump after the callback: a callback that enqueues nothing is the end
\* of the sound.
CallbackReturns ==
  /\ pump.pc \in {"callback", "return"}
  /\ LET p == pump.at
     IN  IF flags[p].moved
         THEN /\ flags' = [flags EXCEPT ![p].done = FALSE]
              /\ pump' = [pc |-> "fill", at |-> p, calls |-> pump.calls - 1]
         ELSE /\ flags' = [flags EXCEPT ![p].done = TRUE]
              /\ pump' = [pump EXCEPT !.pc = "check"]
  /\ UNCHANGED <<state, head, tail, ring, frac, dry, writer, mixer, history>>

\* The end of the sound as soon as the decoder is done, with frames unplayed.
AtEndUnplayed(p) == flags[p].done /\ ~flags[p].fired

\* The decoder is done and the ring is empty.
AtEnd(p) == flags[p].done /\ ~flags[p].fired /\ Readable(p) = 0

\* HEADATEND is reported to the engine before the player is stopped.
PumpCheck ==
  /\ pump.pc = "check"
  /\ IF AtEnd(pump.at)
     THEN /\ flags' = [flags EXCEPT ![pump.at].fired = TRUE]
          /\ pump' = [pump EXCEPT !.pc = "stop"]
     ELSE /\ pump' = NextVisit
          /\ UNCHANGED flags
  /\ fresh' = 0
  /\ UNCHANGED <<state, head, tail, ring, frac, dry, writer, mixer, torn>>

PumpStop ==
  /\ pump.pc = "stop"
  /\ DeviceFree
  /\ LET p == pump.at
     IN  /\ state' = [state EXCEPT ![p] = IF @ = "free" THEN @ ELSE "stopped"]
         /\ Reset("pump", p)
  /\ pump' = NextVisit
  /\ UNCHANGED <<frac, flags, dry, writer, mixer>>

-----------------------------------------------------------------------------
(* The mixer: sdl_audio_callback *)

NextMixed == IF mixer.at = MaxPlayers THEN [pc |-> "idle", at |-> 1, got |-> 0]
             ELSE [pc |-> "test", at |-> mixer.at + 1, got |-> 0]

\* What the position moves per output frame.  The step of the resampler is
\* not computed for a source at the rate of the device, and a mono source
\* takes the path of the resampler all the same.
Step == IF Rate = One /\ ~Stereo THEN 0 ELSE Rate

\* The frames the mixer asks for: one more to interpolate with, if it does.
Wanted(p) == IF Rate = One THEN Frames
             ELSE (frac[p] + Frames * Step) \div One + 1

\* n output frames are mixed from got source frames: the loop ends when the
\* device is full or the next position is past the last frame.
Mixes(p, got, n) ==
  /\ n = Frames \/ frac[p] + n * Step >= got * One
  /\ frac[p] + (n - 1) * Step < got * One

MixStart ==
  /\ mixer.pc = "idle"
  /\ mixer' = [mixer EXCEPT !.pc = "test"]
  /\ UNCHANGED <<state, head, tail, ring, frac, flags, dry, writer, pump, history>>

\* ring_peek
MixPeek ==
  /\ mixer.pc = "test"
  /\ LET p == mixer.at
         got == IF Readable(p) < Wanted(p) THEN Readable(p) ELSE Wanted(p)
     IN  mixer' = IF state[p] = "playing" /\ got > 0
                  THEN [pc |-> "mix", at |-> p, got |-> got]
                  ELSE NextMixed
  /\ UNCHANGED <<state, head, tail, ring, frac, flags, dry, writer, pump, history>>

\* The frames used are given back to the ring.
MixAdvance ==
  /\ mixer.pc = "mix"
  /\ \E n \in 1 .. Frames :
       LET p == mixer.at
           pos == frac[p] + n * Step
       IN  /\ Mixes(p, mixer.got, n)
           /\ tail' = [tail EXCEPT ![p] = (@ + pos \div One) % Width]
           /\ frac' = [frac EXCEPT ![p] = pos % One]
  /\ mixer' = NextMixed
  /\ UNCHANGED <<state, head, ring, flags, dry, writer, pump, history>>

-----------------------------------------------------------------------------

Game ==
  \/ EnqueueReturns
  \/ \E p \in Players :
       \/ CreateAudioPlayer(p)
       \/ RegisterCallback(p)
       \/ \E s \in States \ {"free"} : SetPlayState(p, s)
       \/ Clear(p)
       \/ Destroy(p)
       \/ \E size \in Sizes : Enqueue(p, size)
       \/ DecoderEnds(p)

Callback ==
  \/ \E size \in Sizes : CallbackEnqueues(size)
  \/ CallbackPublishes
  \/ CallbackReturns

Pump == PumpVisit \/ PumpFill \/ Callback \/ PumpCheck \/ PumpStop

Mixer == MixStart \/ MixPeek \/ MixAdvance

Next == Game \/ Pump \/ Mixer

Spec == Init /\ [][Next]_vars

\* The threads run and a call that copied its buffer returns.  The pump also
\* gets what it has to wait for and the mixer takes again and again: the lock
\* of the device, which SDL gives back between two callbacks.
FairSpec ==
  /\ Spec
  /\ SF_vars(Pump)
  /\ WF_vars(Mixer)
  /\ WF_vars(EnqueueReturns)

-----------------------------------------------------------------------------
(* Properties *)

\* Every frame the mixer can read from a player was enqueued since the player
\* was last reset, is read in the order it was enqueued in, and was not read
\* before, unless the player is torn (ring_write, ring_peek).
InOrder ==
  \A p \in Players : ~torn[p] =>
    \A k \in 0 .. Readable(p) - 1 :
      ring[p][(tail[p] + k) % RingSize] = tail[p] + k

\* "The ring head/tail tracking ensures we never read unwritten data"
\* (player_reset_meta): whatever the threads do, the mixer can read no cell
\* that was not written since the player was reset.
ReadsOnlyWritten ==
  \A p \in Players : \A k \in 0 .. Readable(p) - 1 :
    ring[p][(tail[p] + k) % RingSize] # Junk

\* While the mixer works on a player, the player is playing: when a call that
\* stops, pauses or destroys a player has returned, it is silent.
MixesPlaying == mixer.pc = "mix" => state[mixer.at] = "playing"

\* The stop at the end of a sound cuts off nothing of that sound: the test
\* was made without the lock of the device, but all that is thrown away with
\* the ring was enqueued after it (opensles_shim_pump_callbacks).
EndCutsNothing == [][PumpStop => torn[pump.at] \/ Readable(pump.at) <= fresh]_vars

\* A playing sound whose decoder has nothing left comes to its end: the mixer
\* drains the ring, the pump notices and stops the player, unless the engine
\* does it first.
EndIsHeard ==
  \A p \in Players :
    state[p] = "playing" /\ dry[p] /\ flags[p].callback /\ ~flags[p].fired
      ~> state[p] # "playing" \/ ~dry[p]

\* The mixer gives back no more frames than it read: the advance is "by
\* precisely what was used" (sdl_audio_callback). No run has a source that
\* refutes it; see the observations in README.md.
UsesWhatItRead == \A p \in Players : tail[p] <= head[p]

=============================================================================
