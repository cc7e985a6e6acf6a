------------------------- MODULE AudioBridgeProofs -------------------------
(***************************************************************************)
(* Proofs about AudioBridge, for every number of players and every size of *)
(* rings, buffers and callbacks.                                           *)
(*                                                                         *)
(* Nothing is assumed of the engine: its calls come at any moment of the   *)
(* pump's visits.  What the lock of the device gives (types, MixesPlaying) *)
(* holds for every sample rate; what the ring gives (InOrder,              *)
(* EndCutsNothing) is proved for sources no faster than the device (Rate   *)
(* <= One), without which there are counterexamples.                       *)
(***************************************************************************)
EXTENDS AudioBridge, TLAPS

-----------------------------------------------------------------------------
(* Arithmetic *)

LEMMA DivMod ==
  ASSUME NEW a \in Nat, NEW r \in Nat \ {0}
  PROVE  /\ a \div r \in Nat
         /\ a % r \in 0 .. r - 1
         /\ a = r * (a \div r) + (a % r)
  OBVIOUS

\* Numbers less than r apart have different remainders.
LEMMA Apart ==
  ASSUME NEW r \in Nat \ {0}, NEW a \in Nat, NEW b \in Nat,
         a < b, a % r = b % r
  PROVE  b - a >= r
<1> DEFINE p == a \div r
           q == b \div r
<1>1. p \in Nat /\ a = r * p + (a % r) /\ a % r \in 0 .. r - 1
  BY DivMod, Zenon
<1>2. q \in Nat /\ b = r * q + (b % r)
  BY DivMod, Zenon
<1> HIDE DEF p, q
<1>3. b - a = r * q - r * p
  BY <1>1, <1>2
<1>4. q >= p + 1
  <2>1. CASE q <= p
    <3>1. r * q <= r * p
      BY <1>1, <1>2, <2>1
    <3> QED BY <1>1, <1>2, <1>3, <3>1
  <2> QED BY <1>1, <1>2, <2>1
<1>5. r * q >= r * p + r
  BY <1>1, <1>2, <1>4
<1> QED BY <1>1, <1>2, <1>3, <1>5

LEMMA DivBelow ==
  ASSUME NEW r \in Nat \ {0}, NEW x \in Nat, NEW g \in Nat,
         x < (g + 1) * r
  PROVE  x \div r <= g
<1> DEFINE q == x \div r
<1>1. q \in Nat /\ r * q <= x
  BY DivMod
<1>2. ~(q >= g + 1)
  BY <1>1
<1> QED BY <1>1, <1>2

-----------------------------------------------------------------------------
(* The invariants *)

\* The pump counts a callback only while it has calls left, and its Enqueue is
\* one of a callback.
Calling ==
  /\ pump.pc \in {"callback", "publish", "return"} => pump.calls > 0
  /\ writer["pump"].player =
       IF pump.pc \in {"publish", "publishAtStop"} THEN pump.at ELSE NoPlayer

TInv == TypeOK /\ Calling /\ MixesPlaying

\* What is between tail and head fits into the ring and is in its cells.
Sound(p) ==
  /\ head[p] <= MaxFrames
  /\ tail[p] <= head[p]
  /\ head[p] - tail[p] <= RingSize
  /\ \A k \in tail[p] .. head[p] - 1 : ring[p][k % RingSize] = k

\* An Enqueue of thread t into p that has copied has done so right behind the
\* head.
Pending(t, p) ==
  writer[t].player = p =>
    /\ writer[t].at = head[p]
    /\ head[p] + writer[t].len <= MaxFrames
    /\ head[p] + writer[t].len - tail[p] <= RingSize
    /\ \A k \in head[p] .. head[p] + writer[t].len - 1 : ring[p][k % RingSize] = k

\* One thread writes.
OneWriter(p) == ~(writer["game"].player = p /\ writer["pump"].player = p)

\* The mixer works on frames that are still in the ring.
Reading(p) ==
  mixer.pc = "mix" /\ mixer.at = p =>
    /\ mixer.got > 0
    /\ mixer.got <= head[p] - tail[p]

\* What comes into the ring between the test for its end and the stop is
\* counted.
Counted(p) == Ending /\ pump.at = p => head[p] - tail[p] <= fresh

Whole(p) ==
  /\ Sound(p)
  /\ \A t \in Threads : Pending(t, p)
  /\ OneWriter(p)
  /\ Reading(p)
  /\ Counted(p)

RInv == \A p \in Players : ~torn[p] => Whole(p)

IInv == TInv /\ RInv

-----------------------------------------------------------------------------
(* Types and the lock of the device, for every engine and rate *)

LEMMA ReadableNat ==
  ASSUME TypeOK, NEW p \in Players
  PROVE  Readable(p) \in Nat
<1>1. head[p] - tail[p] \in Int /\ Width \in Nat \ {0}
  BY RingAssumption DEF TypeOK
<1> QED BY <1>1 DEF Readable

LEMMA TakenInt ==
  ASSUME TypeOK, NEW p \in Players, NEW size \in Sizes
  PROVE  Taken(p, size) \in Int
<1>1. Readable(p) \in Nat
  BY ReadableNat
<1>2. RingSize - Readable(p) \in Int /\ Width \in Nat \ {0} /\ size \in Nat
  BY <1>1, RingAssumption, FeedAssumption
<1>3. Writable(p) \in Int
  BY <1>2 DEF Writable
<1> QED BY <1>2, <1>3 DEF Taken

HistoryOK == torn \in [Players -> BOOLEAN] /\ fresh \in Nat

\* What Copy writes into the ring and notes for the writer.
LEMMA CopyTypes ==
  ASSUME TypeOK, NEW t \in Threads, NEW p \in Players, NEW len \in Int,
         Copy(t, p, len)
  PROVE  /\ ring' \in [Players -> [Cells -> Nat \cup {Junk}]]
         /\ writer' \in [Threads -> [player : Players \cup {NoPlayer}, at : Nat, len : Nat]]
         /\ HistoryOK'
<1> DEFINE span == head[p] .. head[p] + len - 1
<1>1. head[p] \in Nat /\ len \in Nat
  BY DEF TypeOK, Copy
<1>2. ASSUME NEW c \in Cells
      PROVE  (IF \E k \in span : k % RingSize = c
              THEN CHOOSE k \in span : k % RingSize = c
              ELSE ring[p][c]) \in Nat \cup {Junk}
  <2>1. span \subseteq Nat
    BY <1>1
  <2> QED BY <2>1 DEF TypeOK
<1>3. [c \in Cells |-> IF \E k \in span : k % RingSize = c
                        THEN CHOOSE k \in span : k % RingSize = c
                        ELSE ring[p][c]] \in [Cells -> Nat \cup {Junk}]
  BY <1>2
<1>4. ring' \in [Players -> [Cells -> Nat \cup {Junk}]]
  BY <1>3 DEF TypeOK, Copy
<1>5. writer' \in [Threads -> [player : Players \cup {NoPlayer}, at : Nat, len : Nat]]
  BY <1>1 DEF TypeOK, Copy
<1>6. HistoryOK'
  BY DEF TypeOK, Copy, HistoryOK
<1> QED BY <1>4, <1>5, <1>6

LEMMA FlagsTypes ==
  ASSUME NEW f \in Flags, NEW m \in BOOLEAN
  PROVE  /\ [f EXCEPT !.callback = TRUE] \in Flags
         /\ [f EXCEPT !.moved = m] \in Flags
         /\ [f EXCEPT !.done = m] \in Flags
         /\ [f EXCEPT !.fired = TRUE] \in Flags
         /\ [f EXCEPT !.fired = FALSE, !.done = FALSE] \in Flags
         /\ [f EXCEPT !.fired = FALSE, !.done = FALSE, !.moved = m] \in Flags
         /\ [NoFlags EXCEPT !.moved = m] \in Flags
BY DEF Flags, NoFlags

LEMMA PublishTypes ==
  ASSUME TypeOK, NEW t \in Threads, writer[t].player \in Players, Publish(t)
  PROVE  /\ head' \in [Players -> Nat]
         /\ flags' \in [Players -> Flags]
         /\ writer' \in [Threads -> [player : Players \cup {NoPlayer}, at : Nat, len : Nat]]
         /\ HistoryOK'
<1> DEFINE w == writer[t]
           p == w.player
<1>1. /\ w.at \in Nat /\ w.len \in Nat /\ p \in Players
      /\ head[p] \in Nat /\ flags[p] \in Flags
  BY DEF TypeOK
<1>2. head' \in [Players -> Nat]
  <2>1. PICK base \in {w.at, head[p]} : head' = [head EXCEPT ![p] = (base + w.len) % Width]
    BY DEF Publish
  <2>2. base + w.len \in Nat /\ Width \in Nat \ {0}
    BY <1>1, RingAssumption
  <2>3. (base + w.len) % Width \in Nat
    BY <2>2, DivMod
  <2> QED BY <2>1, <2>3 DEF TypeOK
<1>3. flags' \in [Players -> Flags]
  <2>1. flags' = [flags EXCEPT ![p] = [@ EXCEPT !.moved = TRUE]]
    BY DEF Publish
  <2>2. [flags[p] EXCEPT !.moved = TRUE] \in Flags
    BY <1>1, FlagsTypes
  <2> QED BY <2>1, <2>2, <1>1 DEF TypeOK
<1>4. writer' \in [Threads -> [player : Players \cup {NoPlayer}, at : Nat, len : Nat]]
  BY DEF TypeOK, Publish, Idle
<1>5. HistoryOK'
  BY <1>1 DEF TypeOK, Publish, HistoryOK
<1> QED BY <1>2, <1>3, <1>4, <1>5

LEMMA ResetTypes ==
  ASSUME TypeOK, NEW t \in Threads, NEW p \in Players, Reset(t, p)
  PROVE  /\ head' \in [Players -> Nat]
         /\ tail' \in [Players -> Nat]
         /\ ring' \in [Players -> [Cells -> Nat \cup {Junk}]]
         /\ HistoryOK'
<1>1. Amid(t, p) \in BOOLEAN
  BY DEF Amid
<1>2. torn' \in [Players -> BOOLEAN]
  BY <1>1 DEF TypeOK, Reset
<1>3. fresh' \in Nat
  BY DEF TypeOK, Reset
<1> QED BY <1>2, <1>3 DEF TypeOK, Reset, HistoryOK

LEMMA NextVisitTypes ==
  ASSUME TypeOK
  PROVE  /\ NextVisit.pc = "visit"
         /\ NextVisit \in [pc : Places, at : Players, calls : 0 .. MaxCalls]
<1>1. pump.at \in Players
  BY DEF TypeOK
<1>2. (IF pump.at = MaxPlayers THEN 1 ELSE pump.at + 1) \in Players
  BY <1>1, PlayerAssumption DEF Players
<1> QED BY <1>2, FeedAssumption DEF NextVisit, Places

LEMMA NextMixedTypes ==
  ASSUME TypeOK
  PROVE  /\ NextMixed.pc # "mix"
         /\ NextMixed \in [pc : {"idle", "test", "mix"}, at : Players, got : Nat]
<1>1. mixer.at \in Players
  BY DEF TypeOK
<1>2. CASE mixer.at = MaxPlayers
  BY <1>2, PlayerAssumption DEF NextMixed, Players
<1>3. CASE mixer.at # MaxPlayers
  <2>1. mixer.at + 1 \in Players
    BY <1>1, <1>3, PlayerAssumption DEF Players
  <2> QED BY <1>3, <2>1 DEF NextMixed
<1> QED BY <1>2, <1>3

\* A mono sound at the rate of the device has step 0, any other its rate.
LEMMA StepNat == Step \in Nat /\ (Rate <= One => Step <= One)
BY RateAssumption DEF Step

LEMMA WantedNat ==
  ASSUME TypeOK, NEW p \in Players
  PROVE  Wanted(p) \in Nat \ {0}
<1>1. frac[p] + Frames * Step \in Nat
  <2>1. frac[p] \in Nat
    BY RateAssumption DEF TypeOK
  <2>2. Frames * Step \in Nat
    BY RateAssumption, StepNat
  <2> QED BY <2>1, <2>2
<1>2. (frac[p] + Frames * Step) \div One \in Nat
  BY <1>1, RateAssumption, DivMod, Zenon
<1> QED BY <1>2, RateAssumption DEF Wanted

LEMMA InitTypes == Init => TInv
BY SMTT(60), PlayerAssumption, RateAssumption, FeedAssumption
   DEF Init, TInv, TypeOK, Calling, MixesPlaying, Players, States, Flags, NoFlags,
       Idle, NoPlayer, Threads, Places

LEMMA GameTypes ==
  ASSUME TInv, Game
  PROVE  TInv'
<1> USE DEF TInv
<1>1. CASE EnqueueReturns
  <2>1. writer["game"].player \in Players
    BY <1>1 DEF TypeOK, EnqueueReturns, Threads
  <2>2. Publish("game")
    BY <1>1 DEF EnqueueReturns
  <2>3. /\ head' \in [Players -> Nat]
        /\ flags' \in [Players -> Flags]
        /\ writer' \in [Threads -> [player : Players \cup {NoPlayer}, at : Nat, len : Nat]]
        /\ HistoryOK'
    BY <2>1, <2>2, PublishTypes DEF Threads
  <2>4. writer'["pump"] = writer["pump"]
    BY <2>2 DEF Publish, TypeOK, Threads
  <2> QED BY <1>1, <2>3, <2>4 DEF EnqueueReturns, TypeOK, Calling, MixesPlaying, HistoryOK, history
<1>2. ASSUME NEW p \in Players, CreateAudioPlayer(p) PROVE TInv'
  <2>1. /\ head' \in [Players -> Nat]
        /\ tail' \in [Players -> Nat]
        /\ ring' \in [Players -> [Cells -> Nat \cup {Junk}]]
        /\ HistoryOK'
    BY <1>2, ResetTypes DEF CreateAudioPlayer, Threads
  <2>2. flags' \in [Players -> Flags]
    <3>1. PICK m \in BOOLEAN : flags' = [flags EXCEPT ![p] = [NoFlags EXCEPT !.moved = m]]
      BY <1>2 DEF CreateAudioPlayer
    <3> DEFINE g == [NoFlags EXCEPT !.moved = m]
    <3>2. g \in Flags
      BY FlagsTypes DEF NoFlags, Flags
    <3>3. flags \in [Players -> Flags]
      BY DEF TypeOK
    <3>4. flags' = [flags EXCEPT ![p] = g]
      BY <3>1
    <3> HIDE DEF g
    <3> QED BY <3>2, <3>3, <3>4
  <2>3. mixer.pc = "mix" => mixer.at # p
    BY <1>2 DEF CreateAudioPlayer, Allocated, MixesPlaying, DeviceFree
  <2>4. frac' \in [Players -> 0 .. One - 1]
    BY <1>2, RateAssumption DEF CreateAudioPlayer, TypeOK
  <2> QED BY <1>2, <2>1, <2>2, <2>3, <2>4
          DEF CreateAudioPlayer, TypeOK, States, Calling, MixesPlaying, HistoryOK, history
<1>3. ASSUME NEW p \in Players, RegisterCallback(p) PROVE TInv'
  BY <1>3 DEF RegisterCallback, TypeOK, Flags, Calling, MixesPlaying, history
<1>4. ASSUME NEW p \in Players, NEW s \in States \ {"free"}, SetPlayState(p, s)
      PROVE  TInv'
  <2>1. state' \in [Players -> States] /\ dry' \in [Players -> BOOLEAN]
    BY <1>4 DEF SetPlayState, TypeOK
  <2>2. /\ head' \in [Players -> Nat]
        /\ tail' \in [Players -> Nat]
        /\ ring' \in [Players -> [Cells -> Nat \cup {Junk}]]
        /\ flags' \in [Players -> Flags]
        /\ HistoryOK'
    <3>1. CASE s = "stopped" /\ state[p] # "stopped"
      <4>1. flags[p] \in Flags
        BY DEF TypeOK
      <4>2. [flags[p] EXCEPT !.fired = FALSE, !.done = FALSE] \in Flags
        BY <4>1, FlagsTypes
      <4>3. Reset("game", p) /\ flags' = [flags EXCEPT ![p] = [@ EXCEPT !.fired = FALSE, !.done = FALSE]]
        BY <1>4, <3>1 DEF SetPlayState
      <4> QED BY <4>2, <4>3, ResetTypes DEF TypeOK, Threads
    <3>2. CASE ~(s = "stopped" /\ state[p] # "stopped")
      BY <1>4, <3>2 DEF SetPlayState, TypeOK, HistoryOK, history
    <3> QED BY <3>1, <3>2
  <2> QED BY <1>4, <2>1, <2>2 DEF SetPlayState, DeviceFree, TypeOK, Calling, MixesPlaying, HistoryOK, history
<1>5. ASSUME NEW p \in Players, Clear(p) PROVE TInv'
  <2>1. /\ head' \in [Players -> Nat]
        /\ tail' \in [Players -> Nat]
        /\ ring' \in [Players -> [Cells -> Nat \cup {Junk}]]
        /\ HistoryOK'
    BY <1>5, ResetTypes DEF Clear, Threads
  <2>2. flags' \in [Players -> Flags]
    <3>1. PICK m \in BOOLEAN :
            flags' = [flags EXCEPT ![p] = [@ EXCEPT !.fired = FALSE, !.done = FALSE, !.moved = m]]
      BY <1>5 DEF Clear
    <3>2. flags[p] \in Flags
      BY DEF TypeOK
    <3>3. [flags[p] EXCEPT !.fired = FALSE, !.done = FALSE, !.moved = m] \in Flags
      BY <3>2, FlagsTypes
    <3> QED BY <3>1, <3>3 DEF TypeOK
  <2> QED BY <1>5, <2>1, <2>2 DEF Clear, TypeOK, Calling, MixesPlaying, HistoryOK, history
<1>6. ASSUME NEW p \in Players, Destroy(p) PROVE TInv'
  BY <1>6 DEF Destroy, DeviceFree, TypeOK, States, Calling, MixesPlaying, HistoryOK, history
<1>7. ASSUME NEW p \in Players, NEW size \in Sizes, Enqueue(p, size) PROVE TInv'
  <2>1. Taken(p, size) \in Int
    BY TakenInt
  <2>2. Copy("game", p, Taken(p, size))
    BY <1>7 DEF Enqueue
  <2>3. /\ ring' \in [Players -> [Cells -> Nat \cup {Junk}]]
        /\ writer' \in [Threads -> [player : Players \cup {NoPlayer}, at : Nat, len : Nat]]
        /\ HistoryOK'
    BY <2>1, <2>2, CopyTypes DEF Threads
  <2>4. writer'["pump"] = writer["pump"]
    BY <2>2 DEF Copy, TypeOK, Threads
  <2> QED BY <1>7, <2>3, <2>4 DEF Enqueue, TypeOK, Calling, MixesPlaying, HistoryOK, history
<1>8. ASSUME NEW p \in Players, DecoderEnds(p) PROVE TInv'
  BY <1>8 DEF DecoderEnds, TypeOK, Calling, MixesPlaying, HistoryOK, history
<1> QED BY <1>1, <1>2, <1>3, <1>4, <1>5, <1>6, <1>7, <1>8 DEF Game

LEMMA PumpTypes ==
  ASSUME TInv, Pump
  PROVE  TInv'
<1> DEFINE p == pump.at
           Pumps == [pc : Places, at : Players, calls : 0 .. MaxCalls]
<1> USE DEF TInv
<1>0. p \in Players /\ pump \in Pumps /\ flags[p] \in Flags
  BY DEF TypeOK
<1>1. CASE PumpVisit
  <2>1. /\ pump' \in Pumps
        /\ pump'.pc \in {"visit", "fill"}
    <3>1. CASE ToVisit(p)
      BY <1>0, <1>1, <3>1, FeedAssumption DEF PumpVisit, Places
    <3>2. CASE ~ToVisit(p)
      BY <1>1, <3>2, NextVisitTypes DEF PumpVisit
    <3> QED BY <3>1, <3>2
  <2> QED BY <1>1, <2>1 DEF PumpVisit, TypeOK, Calling, MixesPlaying, HistoryOK, history
<1>2. CASE PumpFill
  <2>1. CASE Hungry(p)
    <3>1. flags' \in [Players -> Flags]
      <4>1. [flags[p] EXCEPT !.moved = FALSE] \in Flags
        BY <1>0, FlagsTypes
      <4>2. flags' = [flags EXCEPT ![p] = [@ EXCEPT !.moved = FALSE]]
        BY <1>2, <2>1 DEF PumpFill
      <4> QED BY <4>1, <4>2 DEF TypeOK
    <3>2. pump' \in Pumps /\ pump'.calls > 0
      BY <1>0, <1>2, <2>1 DEF PumpFill, Hungry, Places
    <3> QED BY <1>2, <3>1, <3>2 DEF PumpFill, TypeOK, Calling, MixesPlaying, HistoryOK, history
  <2>2. CASE ~Hungry(p)
    BY <1>0, <1>2, <2>2 DEF PumpFill, Places, TypeOK, Calling, MixesPlaying, HistoryOK, history
  <2> QED BY <2>1, <2>2
<1>3. ASSUME NEW size \in Sizes, CallbackEnqueues(size) PROVE TInv'
  <2>1. Taken(p, size) \in Int
    BY <1>0, TakenInt
  <2>2. Copy("pump", p, Taken(p, size))
    BY <1>3 DEF CallbackEnqueues
  <2>3. /\ ring' \in [Players -> [Cells -> Nat \cup {Junk}]]
        /\ writer' \in [Threads -> [player : Players \cup {NoPlayer}, at : Nat, len : Nat]]
        /\ HistoryOK'
    BY <1>0, <2>1, <2>2, CopyTypes DEF Threads
  <2>4. /\ pump' \in Pumps /\ pump'.at = p
        /\ pump'.pc \in {"publish", "publishAtStop"}
        /\ pump'.pc = "publish" => pump'.calls > 0
    BY <1>0, <1>3 DEF CallbackEnqueues, Calling, Places
  <2>5. writer'["pump"].player = p
    BY <2>2 DEF Copy, TypeOK, Threads
  <2> QED BY <1>3, <2>3, <2>4, <2>5 DEF CallbackEnqueues, TypeOK, Calling, MixesPlaying, HistoryOK, history
<1>4. CASE CallbackPublishes
  <2>0. writer["pump"].player \in Players
    BY <1>0, <1>4 DEF CallbackPublishes, Calling
  <2>1. Publish("pump")
    BY <1>4 DEF CallbackPublishes
  <2>2. /\ head' \in [Players -> Nat]
        /\ flags' \in [Players -> Flags]
        /\ writer' \in [Threads -> [player : Players \cup {NoPlayer}, at : Nat, len : Nat]]
        /\ HistoryOK'
    BY <2>0, <2>1, PublishTypes DEF Threads
  <2>3. /\ pump' \in Pumps /\ pump'.pc \in {"return", "stop"}
        /\ pump'.pc = "return" => pump'.calls > 0
    BY <1>0, <1>4 DEF CallbackPublishes, Calling, Places
  <2>4. pump'.pc \notin {"publish", "publishAtStop"} /\ writer'["pump"].player = NoPlayer
    BY <1>0, <1>4, <2>1 DEF CallbackPublishes, Publish, Idle, Threads, TypeOK
  <2> QED BY <1>4, <2>2, <2>3, <2>4 DEF CallbackPublishes, TypeOK, Calling, MixesPlaying, HistoryOK, history
<1>5. CASE CallbackReturns
  <2>1. flags' \in [Players -> Flags]
    <3>1. PICK m \in BOOLEAN : flags' = [flags EXCEPT ![p] = [@ EXCEPT !.done = m]]
      BY <1>5 DEF CallbackReturns
    <3>2. [flags[p] EXCEPT !.done = m] \in Flags
      BY <1>0, FlagsTypes
    <3> QED BY <3>1, <3>2 DEF TypeOK
  <2>2. pump' \in Pumps /\ pump'.pc \in {"fill", "check"}
    <3>1. pump.calls \in 0 .. MaxCalls /\ pump.calls > 0
      BY <1>0, <1>5 DEF CallbackReturns, Calling
    <3>2. CASE flags[p].moved
      BY <1>0, <1>5, <3>1, <3>2, FeedAssumption DEF CallbackReturns, Places
    <3>3. CASE ~flags[p].moved
      BY <1>0, <1>5, <3>3 DEF CallbackReturns, Places
    <3> QED BY <3>2, <3>3
  <2> QED BY <1>5, <2>1, <2>2 DEF CallbackReturns, TypeOK, Calling, MixesPlaying, HistoryOK, history
<1>6. CASE PumpCheck
  <2>1. CASE AtEnd(p)
    <3>1. [flags[p] EXCEPT !.fired = TRUE] \in Flags
      BY <1>0, FlagsTypes
    <3>2. flags' = [flags EXCEPT ![p] = [@ EXCEPT !.fired = TRUE]]
      BY <1>6, <2>1 DEF PumpCheck
    <3>3. flags' \in [Players -> Flags]
      BY <3>1, <3>2 DEF TypeOK
    <3> QED BY <1>0, <1>6, <2>1, <3>3 DEF PumpCheck, Places, TypeOK, Calling, MixesPlaying, HistoryOK, history
  <2>2. CASE ~AtEnd(p)
    BY <1>6, <2>2, NextVisitTypes DEF PumpCheck, TypeOK, Calling, MixesPlaying, HistoryOK, history
  <2> QED BY <2>1, <2>2
<1>7. CASE PumpStop
  <2>1. /\ head' \in [Players -> Nat]
        /\ tail' \in [Players -> Nat]
        /\ ring' \in [Players -> [Cells -> Nat \cup {Junk}]]
        /\ HistoryOK'
    BY <1>0, <1>7, ResetTypes DEF PumpStop, Threads
  <2>2. state' \in [Players -> States]
    BY <1>7 DEF PumpStop, TypeOK, States
  <2>3. pump' \in Pumps /\ pump'.pc = "visit"
    BY <1>7, NextVisitTypes DEF PumpStop
  <2> QED BY <1>7, <2>1, <2>2, <2>3
          DEF PumpStop, DeviceFree, TypeOK, Calling, MixesPlaying, HistoryOK, history
<1> QED BY <1>1, <1>2, <1>3, <1>4, <1>5, <1>6, <1>7 DEF Pump, Callback

LEMMA MixerTypes ==
  ASSUME TInv, Mixer
  PROVE  TInv'
<1> USE DEF TInv
<1> DEFINE Mixers == [pc : {"idle", "test", "mix"}, at : Players, got : Nat]
           p == mixer.at
<1>0. p \in Players /\ mixer \in Mixers
  BY DEF TypeOK
<1>1. CASE MixStart
  BY <1>0, <1>1 DEF MixStart, TypeOK, Calling, MixesPlaying, history
<1>2. CASE MixPeek
  <2> DEFINE got == IF Readable(p) < Wanted(p) THEN Readable(p) ELSE Wanted(p)
  <2>1. got \in Int
    BY <1>0, ReadableNat, WantedNat
  <2>2. mixer' = IF state[p] = "playing" /\ got > 0
                 THEN [pc |-> "mix", at |-> p, got |-> got] ELSE NextMixed
    BY <1>2 DEF MixPeek
  <2> HIDE DEF got
  <2>3. CASE state[p] = "playing" /\ got > 0
    <3>1. mixer' \in Mixers /\ mixer'.at = p
      BY <1>0, <2>1, <2>2, <2>3
    <3> QED BY <1>2, <2>3, <3>1 DEF MixPeek, TypeOK, Calling, MixesPlaying, history
  <2>4. CASE ~(state[p] = "playing" /\ got > 0)
    BY <1>2, <2>2, <2>4, NextMixedTypes DEF MixPeek, TypeOK, Calling, MixesPlaying, history
  <2> QED BY <2>3, <2>4
<1>3. CASE MixAdvance
  <2>1. PICK n \in 1 .. Frames :
          /\ tail' = [tail EXCEPT ![p] = (@ + (frac[p] + n * Step) \div One) % Width]
          /\ frac' = [frac EXCEPT ![p] = (frac[p] + n * Step) % One]
    BY <1>3 DEF MixAdvance
  <2>2. frac[p] + n * Step \in Nat
    <3>1. frac[p] \in Nat
      BY <1>0, RateAssumption DEF TypeOK
    <3>2. n * Step \in Nat
      BY RateAssumption, StepNat
    <3> QED BY <3>1, <3>2
  <2>3. /\ (frac[p] + n * Step) \div One \in Nat
        /\ (frac[p] + n * Step) % One \in 0 .. One - 1
    BY <2>2, DivMod, RateAssumption, Zenon
  <2>5. (tail[p] + (frac[p] + n * Step) \div One) % Width \in Nat
    <3>1. tail[p] + (frac[p] + n * Step) \div One \in Nat /\ Width \in Nat \ {0}
      BY <1>0, <2>3, RingAssumption DEF TypeOK
    <3> QED BY <3>1, DivMod
  <2>4. tail' \in [Players -> Nat] /\ frac' \in [Players -> 0 .. One - 1]
    BY <1>0, <2>1, <2>3, <2>5 DEF TypeOK
  <2> QED BY <1>3, <2>4, NextMixedTypes DEF MixAdvance, TypeOK, Calling, MixesPlaying, history
<1> QED BY <1>1, <1>2, <1>3 DEF Mixer

LEMMA TypesStep == TInv /\ [Next]_vars => TInv'
<1>1. CASE Game
  BY <1>1, GameTypes
<1>2. CASE Pump
  BY <1>2, PumpTypes
<1>3. CASE Mixer
  BY <1>3, MixerTypes
<1>4. CASE UNCHANGED vars
  BY <1>4 DEF vars, history, TInv, TypeOK, Calling, MixesPlaying
<1> QED BY <1>1, <1>2, <1>3, <1>4 DEF Next

-----------------------------------------------------------------------------
(* The ring, for rates up to that of the device *)

LEMMA ModSmall ==
  ASSUME NEW w \in Nat \ {0}, NEW x \in 0 .. w - 1
  PROVE  x % w = x
<1>1. x \in Nat /\ x < w
  OBVIOUS
<1>2. x % w \in 0 .. w - 1 /\ x = w * (x \div w) + (x % w) /\ x \div w \in Nat
  BY <1>1, DivMod
<1> QED BY <1>1, <1>2

LEMMA SoundReadable ==
  ASSUME TypeOK, NEW p \in Players, Sound(p)
  PROVE  /\ Readable(p) = head[p] - tail[p]
         /\ Readable(p) \in 0 .. RingSize
<1>1. head[p] - tail[p] \in 0 .. RingSize
  BY RingAssumption DEF TypeOK, Sound
<1>2. head[p] - tail[p] \in 0 .. Width - 1 /\ Width \in Nat \ {0}
  BY <1>1, RingAssumption
<1>3. (head[p] - tail[p]) % Width = head[p] - tail[p]
  BY <1>2, ModSmall
<1> QED BY <1>1, <1>3 DEF Readable

\* ring_write takes no more than fits.
LEMMA TakenFits ==
  ASSUME TypeOK, NEW p \in Players, Sound(p), NEW size \in Sizes
  PROVE  /\ Taken(p, size) \in Int
         /\ head[p] + Taken(p, size) - tail[p] <= RingSize
<1>1. /\ Readable(p) = head[p] - tail[p]
      /\ Readable(p) \in 0 .. RingSize
  BY SoundReadable
<1>2. head[p] \in Nat /\ tail[p] \in Nat /\ size \in Nat /\ RingSize \in Nat
  BY RingAssumption, FeedAssumption DEF TypeOK
<1>3. Writable(p) = RingSize - (head[p] - tail[p])
  <2>1. RingSize - Readable(p) \in 0 .. Width - 1 /\ Width \in Nat \ {0}
    BY <1>1, RingAssumption
  <2>2. (RingSize - Readable(p)) % Width = RingSize - Readable(p)
    BY <2>1, ModSmall
  <2> QED BY <1>1, <2>2 DEF Writable
<1> QED BY <1>1, <1>2, <1>3 DEF Taken

\* A copy that fits leaves what is in the ring as it was.
LEMMA CopyKeeps ==
  ASSUME TypeOK, NEW t \in Threads, NEW p \in Players, NEW len \in Int,
         Sound(p), head[p] + len - tail[p] <= RingSize, Copy(t, p, len)
  PROVE  /\ \A k \in tail[p] .. head[p] + len - 1 : ring'[p][k % RingSize] = k
         /\ \A q \in Players \ {p} : ring'[q] = ring[q]
<1> DEFINE span == head[p] .. head[p] + len - 1
<1>1. /\ head[p] \in Nat /\ tail[p] \in Nat /\ len \in Nat /\ len > 0
      /\ RingSize \in Nat \ {0} /\ tail[p] <= head[p]
  BY RingAssumption DEF TypeOK, Copy, Sound
<1>2. ring' = [ring EXCEPT ![p] = [c \in Cells |->
                 IF \E k \in span : k % RingSize = c
                 THEN CHOOSE k \in span : k % RingSize = c
                 ELSE ring[p][c]]]
  BY DEF Copy
<1>3. ring'[p] = [c \in Cells |->
                 IF \E k \in span : k % RingSize = c
                 THEN CHOOSE k \in span : k % RingSize = c
                 ELSE ring[p][c]]
  BY <1>2 DEF TypeOK
<1>4. ASSUME NEW k \in tail[p] .. head[p] + len - 1
      PROVE  ring'[p][k % RingSize] = k
  <2>1. k \in Nat /\ k % RingSize \in Cells
    <3>1. k \in Nat
      BY <1>1
    <3>2. k % RingSize \in 0 .. RingSize - 1
      BY <1>1, <3>1, DivMod, Zenon
    <3> QED BY <3>1, <3>2 DEF Cells
  <2>2. \A j \in span : j % RingSize = k % RingSize => j = k
    <3> SUFFICES ASSUME NEW j \in span, j % RingSize = k % RingSize, j # k
                 PROVE  FALSE
      OBVIOUS
    <3>1. j \in Nat /\ j - k < RingSize /\ k - j < RingSize
      BY <1>1, <2>1
    <3>2. CASE j < k
      BY <3>1, <3>2, <2>1, <1>1, Apart
    <3>3. CASE k < j
      BY <3>1, <3>3, <2>1, <1>1, Apart
    <3> QED BY <3>1, <3>2, <3>3, <2>1
  <2>3. CASE k \in span
    <3> DEFINE new == CHOOSE j \in span : j % RingSize = k % RingSize
    <3>1. new \in span /\ new % RingSize = k % RingSize
      BY <2>3
    <3>2. new = k
      BY <3>1, <2>2
    <3> QED BY <1>3, <2>1, <2>3, <3>2
  <2>4. CASE k \notin span
    <3>1. ~\E j \in span : j % RingSize = k % RingSize
      BY <2>2, <2>4
    <3>2. k \in tail[p] .. head[p] - 1
      BY <1>1, <2>1, <2>4
    <3>3. ring[p][k % RingSize] = k
      BY <3>2 DEF Sound
    <3> QED BY <1>3, <2>1, <3>1, <3>3
  <2> QED BY <2>3, <2>4
<1>5. \A q \in Players \ {p} : ring'[q] = ring[q]
  BY <1>2 DEF TypeOK
<1> QED BY <1>4, <1>5

\* What leaves the rings, the Enqueues under way and the frames of the mixer
\* alone leaves the invariant.
LEMMA QuietStep ==
  ASSUME IInv, UNCHANGED <<head, tail, ring, writer, torn, fresh>>,
         mixer'.pc = "mix" => mixer' = mixer,
         Ending' => Ending /\ pump'.at = pump.at
  PROVE  RInv'
<1> SUFFICES ASSUME NEW p \in Players, ~torn'[p] PROVE Whole(p)'
  BY DEF RInv
<1>1. Whole(p)
  BY DEF IInv, RInv
<1>2. Sound(p)' /\ (\A t \in Threads : Pending(t, p))' /\ OneWriter(p)'
  BY <1>1 DEF Whole, Sound, Pending, OneWriter
<1>3. Reading(p)'
  BY <1>1 DEF Whole, Reading
<1>4. Counted(p)'
  BY <1>1 DEF Whole, Counted
<1> QED BY <1>2, <1>3, <1>4 DEF Whole

\* What a reset leaves: of the player nothing, of the others everything.
LEMMA ResetStep ==
  ASSUME IInv, NEW t \in Threads, NEW p \in Players, Reset(t, p),
         UNCHANGED <<writer, mixer>>,
         writer[t].player # p,
         mixer.pc = "mix" => mixer.at # p,
         Ending' => Ending /\ pump'.at = pump.at
  PROVE  RInv'
<1> SUFFICES ASSUME NEW q \in Players, ~torn'[q] PROVE Whole(q)'
  BY DEF RInv
<1> USE DEF IInv, TInv, RInv
<1>1. /\ head'[p] = 0 /\ tail'[p] = 0
      /\ \A r \in Players \ {p} :
           /\ head'[r] = head[r] /\ tail'[r] = tail[r] /\ ring'[r] = ring[r]
           /\ torn'[r] = torn[r]
      /\ torn'[p] = Amid(t, p)
      /\ fresh' = IF p = pump.at THEN 0 ELSE fresh
  BY DEF Reset, TypeOK
<1>2. CASE q = p
  <2>1. Sound(p)'
    BY <1>1, RingAssumption, FeedAssumption DEF Sound
  <2>2. \A u \in Threads : writer[u].player # p
    BY <1>1, <1>2 DEF Amid
  <2>3. (\A u \in Threads : Pending(u, p))' /\ OneWriter(p)'
    BY <2>2 DEF Pending, OneWriter, Threads
  <2>4. Reading(p)'
    BY DEF Reading
  <2>5. Counted(p)'
    BY <1>1 DEF Counted, TypeOK
  <2> QED BY <1>2, <2>1, <2>3, <2>4, <2>5 DEF Whole
<1>3. CASE q # p
  <2>1. /\ head'[q] = head[q] /\ tail'[q] = tail[q] /\ ring'[q] = ring[q]
        /\ ~torn[q]
    BY <1>1, <1>3
  <2>2. Whole(q)
    BY <2>1
  <2>3. Sound(q)' /\ (\A u \in Threads : Pending(u, q))' /\ OneWriter(q)'
    BY <2>1, <2>2 DEF Whole, Sound, Pending, OneWriter
  <2>4. Reading(q)'
    BY <2>1, <2>2 DEF Whole, Reading
  <2>5. Counted(q)'
    BY <1>1, <1>3, <2>1, <2>2 DEF Whole, Counted
  <2> QED BY <2>3, <2>4, <2>5 DEF Whole
<1> QED BY <1>2, <1>3

\* An Enqueue copies: nothing that can be read changes, unless the other
\* thread is in the middle of one.
LEMMA CopyStep ==
  ASSUME IInv, NEW t \in Threads, NEW p \in Players, NEW size \in Sizes,
         Copy(t, p, Taken(p, size)), UNCHANGED <<head, tail, mixer>>,
         Ending' => Ending /\ pump'.at = pump.at
  PROVE  RInv'
<1> SUFFICES ASSUME NEW q \in Players, ~torn'[q] PROVE Whole(q)'
  BY DEF RInv
<1> DEFINE len == Taken(p, size)
<1> USE DEF IInv, TInv, RInv
<1>0. /\ \A r \in Players \ {p} : torn'[r] = torn[r]
      /\ torn'[p] = (torn[p] \/ Amid(t, p))
      /\ fresh' = fresh
      /\ \A u \in Threads \ {t} : writer'[u] = writer[u]
      /\ writer'[t] = [player |-> p, at |-> head[p], len |-> len]
      /\ head[p] + len <= MaxFrames
  BY DEF Copy, TypeOK
<1>1. CASE q = p
  <2>1. ~torn[p] /\ \A u \in Threads \ {t} : writer[u].player # p
    BY <1>0, <1>1 DEF Amid
  <2>2. Whole(p)
    BY <2>1
  <2>3. len \in Int /\ head[p] + len - tail[p] <= RingSize
    BY <2>2, TakenFits DEF Whole
  <2> HIDE DEF len
  <2>4. Copy(t, p, len)
    BY DEF len
  <2>5. \A k \in tail[p] .. head[p] + len - 1 : ring'[p][k % RingSize] = k
    BY <2>2, <2>3, <2>4, CopyKeeps DEF Whole
  <2>6. head[p] \in Nat /\ tail[p] \in Nat /\ tail[p] <= head[p] /\ len > 0
    BY <2>2, <2>4 DEF TypeOK, Whole, Sound, Copy
  <2>7. Sound(p)'
    <3>1. \A k \in tail[p] .. head[p] - 1 : ring'[p][k % RingSize] = k
      BY <2>3, <2>5, <2>6
    <3> QED BY <2>2, <3>1 DEF Whole, Sound
  <2>8. ASSUME NEW u \in Threads PROVE Pending(u, p)'
    <3>1. CASE u = t
      <4>1. \A k \in head[p] .. head[p] + len - 1 : ring'[p][k % RingSize] = k
        BY <2>3, <2>5, <2>6
      <4> QED BY <1>0, <2>3, <3>1, <4>1 DEF Pending
    <3>2. CASE u # t
      BY <1>0, <2>1, <3>2 DEF Pending
    <3> QED BY <3>1, <3>2
  <2>9. OneWriter(p)'
    BY <1>0, <2>1 DEF OneWriter, Threads
  <2>10. Reading(p)' /\ Counted(p)'
    BY <1>0, <2>2 DEF Whole, Reading, Counted
  <2> QED BY <1>1, <2>7, <2>8, <2>9, <2>10 DEF Whole
<1>2. CASE q # p
  <2>1. ~torn[q] /\ Whole(q)
    BY <1>0, <1>2
  <2>2. ring'[q] = ring[q]
    BY <1>2 DEF Copy, TypeOK
  <2>3. ASSUME NEW u \in Threads PROVE Pending(u, q)'
    <3>1. CASE u = t
      BY <1>0, <1>2, <3>1 DEF Pending
    <3>2. CASE u # t
      BY <1>0, <2>1, <2>2, <3>2 DEF Whole, Pending
    <3> QED BY <3>1, <3>2
  <2>4. OneWriter(q)'
    <3>1. OneWriter(q) /\ writer'[t].player # q
      BY <1>0, <1>2, <2>1 DEF Whole
    <3> QED BY <3>1 DEF OneWriter, Threads
  <2>5. Sound(q)' /\ Reading(q)' /\ Counted(q)'
    BY <1>0, <2>1, <2>2 DEF Whole, Sound, Reading, Counted
  <2> QED BY <2>3, <2>4, <2>5 DEF Whole
<1> QED BY <1>1, <1>2

\* An Enqueue publishes what it has copied.
LEMMA PublishStep ==
  ASSUME IInv, NEW t \in Threads, NEW p \in Players, writer[t].player = p,
         Publish(t), UNCHANGED <<tail, ring, mixer>>,
         Ending' => Ending /\ pump'.at = pump.at
  PROVE  RInv'
<1> SUFFICES ASSUME NEW q \in Players, ~torn'[q] PROVE Whole(q)'
  BY DEF RInv
<1> DEFINE len == writer[t].len
<1> USE DEF IInv, TInv, RInv
<1>0. /\ torn' = torn /\ ~torn[q] /\ Whole(q)
      /\ len \in Nat
      /\ \A r \in Players \ {p} : head'[r] = head[r]
      /\ writer'[t] = Idle
      /\ \A u \in Threads \ {t} : writer'[u] = writer[u]
      /\ fresh' = IF Ending /\ p = pump.at /\ ~torn[pump.at]
                  THEN fresh + len ELSE fresh
      /\ fresh \in Nat
  BY DEF Publish, TypeOK
<1>1. CASE q = p
  <2>1. /\ head[p] \in Nat /\ tail[p] \in Nat
        /\ writer[t].at = head[p]
        /\ head[p] + len <= MaxFrames
        /\ head[p] + len - tail[p] <= RingSize
        /\ \A k \in head[p] .. head[p] + len - 1 : ring[p][k % RingSize] = k
    BY <1>0, <1>1 DEF Whole, Pending, TypeOK
  <2>2. head'[p] = head[p] + len
    <3>1. head'[p] = (head[p] + len) % Width
      BY <2>1 DEF Publish, TypeOK
    <3>2. head[p] + len \in 0 .. Width - 1 /\ Width \in Nat \ {0}
      BY <1>0, <2>1, FeedAssumption, RingAssumption
    <3> QED BY <3>1, <3>2, ModSmall
  <2>3. \A u \in Threads : writer'[u].player # p
    <3>1. \A u \in Threads \ {t} : writer[u].player # p
      BY <1>0, <1>1 DEF Whole, OneWriter, Threads
    <3>2. writer'[t].player # p
      BY <1>0 DEF Idle, NoPlayer, Players
    <3> QED BY <1>0, <3>1, <3>2
  <2> HIDE DEF len
  <2>4. Sound(p)'
    <3>1. Sound(p)
      BY <1>0, <1>1 DEF Whole
    <3>2. ASSUME NEW k \in tail[p] .. head[p] + len - 1
          PROVE  ring[p][k % RingSize] = k
      <4>1. k \in tail[p] .. head[p] - 1 \/ k \in head[p] .. head[p] + len - 1
        BY <1>0, <2>1
      <4> QED BY <2>1, <3>1, <4>1 DEF Sound
    <3> QED BY <1>0, <2>1, <2>2, <3>1, <3>2 DEF Sound
  <2>5. (\A u \in Threads : Pending(u, p))' /\ OneWriter(p)'
    BY <2>3 DEF Pending, OneWriter, Threads
  <2>6. Reading(p)'
    <3>1. Reading(p) /\ mixer.got \in Nat
      BY <1>0, <1>1 DEF Whole, TypeOK
    <3> QED BY <1>0, <2>1, <2>2, <3>1 DEF Reading
  <2>7. Counted(p)'
    <3>1. Counted(p)
      BY <1>0, <1>1 DEF Whole
    <3> QED BY <1>0, <1>1, <2>1, <2>2, <3>1 DEF Counted
  <2> QED BY <1>1, <2>4, <2>5, <2>6, <2>7 DEF Whole
<1>2. CASE q # p
  <2>1. head'[q] = head[q]
    BY <1>0, <1>2
  <2>2. ASSUME NEW u \in Threads PROVE Pending(u, q)'
    <3>1. CASE u = t
      BY <1>0, <3>1 DEF Pending, Idle, NoPlayer, Players
    <3>2. CASE u # t
      BY <1>0, <2>1, <3>2 DEF Whole, Pending
    <3> QED BY <3>1, <3>2
  <2>3. OneWriter(q)'
    <3>1. OneWriter(q) /\ writer'[t].player # q
      BY <1>0 DEF Whole, Idle, NoPlayer, Players
    <3> QED BY <1>0, <3>1 DEF OneWriter, Threads
  <2>4. Sound(q)' /\ Reading(q)'
    BY <1>0, <2>1 DEF Whole, Sound, Reading
  <2>5. Counted(q)'
    BY <1>0, <1>2, <2>1 DEF Whole, Counted
  <2> QED BY <2>2, <2>3, <2>4, <2>5 DEF Whole
<1> QED BY <1>1, <1>2

\* The resampler uses no more frames than it has read.
LEMMA UsesNoMore ==
  ASSUME Step <= One, NEW f \in 0 .. One - 1, NEW got \in Nat, NEW n \in 1 .. Frames,
         f + (n - 1) * Step < got * One
  PROVE  (f + n * Step) \div One <= got
<1>1. /\ One \in Nat \ {0} /\ Step \in Nat /\ n \in Nat \ {0} /\ f \in Nat
      /\ n * Step \in Nat /\ (n - 1) * Step \in Int /\ got * One \in Nat
  BY RateAssumption, StepNat
<1>2. n * Step = (n - 1) * Step + Step
  BY <1>1
<1>3. (got + 1) * One = got * One + One
  BY <1>1
<1>4. f + n * Step < (got + 1) * One
  BY <1>1, <1>2, <1>3
<1>5. f + n * Step \in Nat
  BY <1>1
<1> QED BY <1>1, <1>4, <1>5, DivBelow

LEMMA InitRing == Init => RInv
BY RingAssumption, FeedAssumption
   DEF Init, RInv, Whole, Sound, Pending, OneWriter, Reading, Counted, Ending,
       Idle, NoPlayer, Threads, Players

LEMMA GameStep ==
  ASSUME IInv, Game
  PROVE  RInv'
<1> USE DEF IInv, TInv
<1>1. CASE EnqueueReturns
  <2> DEFINE p == writer["game"].player
  <2>1. /\ p \in Players /\ Publish("game")
        /\ UNCHANGED <<tail, ring, mixer, pump>>
    BY <1>1 DEF EnqueueReturns, TypeOK, Threads
  <2>2. Ending' => Ending /\ pump'.at = pump.at
    BY <2>1 DEF Ending
  <2> QED BY <2>1, <2>2, PublishStep DEF Threads
<1>2. ASSUME NEW p \in Players, CreateAudioPlayer(p) PROVE RInv'
  <2>1. /\ Reset("game", p) /\ writer["game"].player # p
        /\ UNCHANGED <<writer, pump, mixer>>
    BY <1>2 DEF CreateAudioPlayer, MayCall, Players, NoPlayer
  <2>2. mixer.pc = "mix" => mixer.at # p
    BY <1>2 DEF CreateAudioPlayer, Allocated, MixesPlaying, DeviceFree
  <2>3. Ending' => Ending /\ pump'.at = pump.at
    BY <2>1 DEF Ending
  <2> QED BY <2>1, <2>2, <2>3, ResetStep DEF Threads
<1>3. ASSUME NEW p \in Players, RegisterCallback(p) PROVE RInv'
  BY <1>3, QuietStep DEF RegisterCallback, history, Ending
<1>4. ASSUME NEW p \in Players, NEW s \in States \ {"free"}, SetPlayState(p, s)
      PROVE  RInv'
  <2>1. /\ writer["game"].player # p /\ mixer.pc # "mix"
        /\ UNCHANGED <<writer, pump, mixer>>
    BY <1>4 DEF SetPlayState, DeviceFree, MayCall, Players, NoPlayer
  <2>2. Ending' => Ending /\ pump'.at = pump.at
    BY <2>1 DEF Ending
  <2>3. CASE s = "stopped" /\ state[p] # "stopped"
    <3>1. Reset("game", p)
      BY <1>4, <2>3 DEF SetPlayState
    <3> QED BY <2>1, <2>2, <3>1, ResetStep DEF Threads
  <2>4. CASE ~(s = "stopped" /\ state[p] # "stopped")
    <3>1. UNCHANGED <<head, tail, ring, history>>
      BY <1>4, <2>4 DEF SetPlayState
    <3> QED BY <2>1, <2>2, <3>1, QuietStep DEF history
  <2> QED BY <2>3, <2>4
<1>5. ASSUME NEW p \in Players, Clear(p) PROVE RInv'
  <2>1. /\ Reset("game", p) /\ writer["game"].player # p /\ mixer.pc # "mix"
        /\ UNCHANGED <<writer, pump, mixer>>
    BY <1>5 DEF Clear, DeviceFree, MayCall, Players, NoPlayer
  <2>2. Ending' => Ending /\ pump'.at = pump.at
    BY <2>1 DEF Ending
  <2> QED BY <2>1, <2>2, ResetStep DEF Threads
<1>6. ASSUME NEW p \in Players, Destroy(p) PROVE RInv'
  BY <1>6, QuietStep DEF Destroy, history, Ending
<1>7. ASSUME NEW p \in Players, NEW size \in Sizes, Enqueue(p, size) PROVE RInv'
  <2>1. /\ Copy("game", p, Taken(p, size))
        /\ UNCHANGED <<head, tail, pump, mixer>>
    BY <1>7 DEF Enqueue
  <2>2. Ending' => Ending /\ pump'.at = pump.at
    BY <2>1 DEF Ending
  <2> QED BY <2>1, <2>2, CopyStep DEF Threads
<1>8. ASSUME NEW p \in Players, DecoderEnds(p) PROVE RInv'
  BY <1>8, QuietStep DEF DecoderEnds, history, Ending
<1> QED BY <1>1, <1>2, <1>3, <1>4, <1>5, <1>6, <1>7, <1>8 DEF Game

LEMMA PumpStep ==
  ASSUME IInv, Pump
  PROVE  RInv'
<1> DEFINE p == pump.at
<1> USE DEF IInv, TInv
<1>0. p \in Players /\ NextVisit.pc = "visit"
  BY NextVisitTypes DEF TypeOK
<1>1. CASE PumpVisit
  <2>1. pump'.pc \in {"visit", "fill"} /\ UNCHANGED <<head, tail, ring, writer, mixer, history>>
    BY <1>0, <1>1 DEF PumpVisit
  <2> QED BY <2>1, QuietStep DEF history, Ending
<1>2. CASE PumpFill
  <2>1. /\ pump'.pc \in {"callback", "check"}
        /\ UNCHANGED <<head, tail, ring, writer, mixer, history>>
    BY <1>0, <1>2 DEF PumpFill, TypeOK
  <2> QED BY <2>1, QuietStep DEF history, Ending
<1>3. ASSUME NEW size \in Sizes, CallbackEnqueues(size) PROVE RInv'
  <2>1. /\ pump.pc \in {"callback", "stop"} /\ pump'.at = p
        /\ pump'.pc = IF pump.pc = "callback" THEN "publish" ELSE "publishAtStop"
        /\ Copy("pump", p, Taken(p, size))
        /\ UNCHANGED <<head, tail, mixer>>
    BY <1>3 DEF CallbackEnqueues, TypeOK
  <2>2. Ending' => Ending /\ pump'.at = pump.at
    BY <2>1 DEF Ending
  <2> QED BY <1>0, <2>1, <2>2, CopyStep DEF Threads
<1>4. CASE CallbackPublishes
  <2>1. /\ pump.pc \in {"publish", "publishAtStop"} /\ pump'.at = p
        /\ pump'.pc = IF pump.pc = "publish" THEN "return" ELSE "stop"
        /\ Publish("pump") /\ writer["pump"].player = p
        /\ UNCHANGED <<tail, ring, mixer>>
    BY <1>4 DEF CallbackPublishes, Calling, TypeOK
  <2>2. Ending' => Ending /\ pump'.at = pump.at
    BY <2>1 DEF Ending
  <2> QED BY <1>0, <2>1, <2>2, PublishStep DEF Threads
<1>5. CASE CallbackReturns
  <2>1. /\ pump'.pc \in {"fill", "check"}
        /\ UNCHANGED <<head, tail, ring, writer, mixer, history>>
    BY <1>0, <1>5 DEF CallbackReturns, TypeOK
  <2> QED BY <2>1, QuietStep DEF history, Ending
<1>6. CASE PumpCheck
  <2>1. UNCHANGED <<head, tail, ring, writer, mixer, torn>> /\ fresh' = 0
    BY <1>6 DEF PumpCheck
  <2> SUFFICES ASSUME NEW q \in Players, ~torn'[q] PROVE Whole(q)'
    BY DEF RInv
  <2>2. Whole(q)
    BY <2>1 DEF RInv
  <2>3. /\ Sound(q)' /\ (\A t \in Threads : Pending(t, q))'
        /\ OneWriter(q)' /\ Reading(q)'
    BY <2>1, <2>2 DEF Whole, Sound, Pending, OneWriter, Reading
  <2>4. Counted(q)'
    <3>1. CASE AtEnd(p) /\ q = p
      <4>1. Readable(p) = 0 /\ Sound(p)
        BY <2>2, <3>1 DEF AtEnd, Whole
      <4>2. head[p] - tail[p] = 0
        BY <1>0, <4>1, SoundReadable
      <4> QED BY <2>1, <3>1, <4>2 DEF Counted
    <3>2. CASE AtEnd(p) /\ q # p
      BY <1>6, <3>2 DEF PumpCheck, Counted, TypeOK
    <3>3. CASE ~AtEnd(p)
      BY <1>0, <1>6, <3>3 DEF PumpCheck, Counted, Ending
    <3> QED BY <3>1, <3>2, <3>3
  <2> QED BY <2>3, <2>4 DEF Whole
<1>7. CASE PumpStop
  <2>1. /\ pump.pc = "stop" /\ pump'.pc = "visit" /\ mixer.pc # "mix"
        /\ Reset("pump", p) /\ UNCHANGED <<writer, mixer>>
    BY <1>0, <1>7 DEF PumpStop, DeviceFree
  <2>2. writer["pump"].player # p
    BY <1>0, <2>1 DEF Calling, Players, NoPlayer
  <2> QED BY <1>0, <2>1, <2>2, ResetStep DEF Threads, Ending
<1> QED BY <1>1, <1>2, <1>3, <1>4, <1>5, <1>6, <1>7 DEF Pump, Callback

LEMMA MixerStep ==
  ASSUME IInv, Step <= One, Mixer
  PROVE  RInv'
<1> DEFINE p == mixer.at
<1> USE DEF IInv, TInv
<1>0. p \in Players /\ mixer.got \in Nat
  BY DEF TypeOK
<1>1. CASE MixStart
  <2>1. mixer'.pc # "mix" /\ UNCHANGED <<head, tail, ring, writer, pump, history>>
    BY <1>1 DEF MixStart, TypeOK
  <2> QED BY <2>1, QuietStep DEF history, Ending
<1>2. CASE MixPeek
  <2> DEFINE got == IF Readable(p) < Wanted(p) THEN Readable(p) ELSE Wanted(p)
  <2>1. UNCHANGED <<head, tail, ring, writer, pump, torn, fresh>>
    BY <1>2 DEF MixPeek, history
  <2>2. mixer' = IF state[p] = "playing" /\ got > 0
                 THEN [pc |-> "mix", at |-> p, got |-> got] ELSE NextMixed
    BY <1>2 DEF MixPeek
  <2>3. ASSUME Whole(p) PROVE got <= head[p] - tail[p]
    <3>1. Readable(p) = head[p] - tail[p] /\ Readable(p) \in Nat
      BY <1>0, <2>3, SoundReadable DEF Whole
    <3>2. Wanted(p) \in Nat
      BY <1>0, WantedNat
    <3> QED BY <3>1, <3>2
  <2> HIDE DEF got
  <2> SUFFICES ASSUME NEW q \in Players, ~torn'[q] PROVE Whole(q)'
    BY DEF RInv
  <2>4. Whole(q)
    BY <2>1 DEF RInv
  <2>5. /\ Sound(q)' /\ (\A t \in Threads : Pending(t, q))'
        /\ OneWriter(q)' /\ Counted(q)'
    BY <2>1, <2>4 DEF Whole, Sound, Pending, OneWriter, Counted, Ending
  <2>6. Reading(q)'
    BY <2>1, <2>2, <2>3, <2>4, NextMixedTypes DEF Reading
  <2> QED BY <2>5, <2>6 DEF Whole
<1>3. CASE MixAdvance
  <2>1. PICK n \in 1 .. Frames :
          /\ Mixes(p, mixer.got, n)
          /\ tail' = [tail EXCEPT ![p] = (@ + (frac[p] + n * Step) \div One) % Width]
    BY <1>3 DEF MixAdvance
  <2> DEFINE used == (frac[p] + n * Step) \div One
  <2>2. /\ mixer.pc = "mix" /\ mixer'.pc # "mix"
        /\ UNCHANGED <<head, ring, writer, pump, torn, fresh>>
    BY <1>3, NextMixedTypes DEF MixAdvance, history
  <2>3. used \in Nat /\ used <= mixer.got
    <3>1. frac[p] \in 0 .. One - 1
      BY <1>0 DEF TypeOK
    <3>2. frac[p] + (n - 1) * Step < mixer.got * One
      BY <2>1 DEF Mixes
    <3>3. used <= mixer.got
      BY <1>0, <3>1, <3>2, UsesNoMore
    <3>4. frac[p] + n * Step \in Nat
      <4>1. n * Step \in Nat /\ frac[p] \in Nat
        BY <3>1, RateAssumption, StepNat
      <4> QED BY <4>1
    <3>5. used \in Nat
      BY <3>4, DivMod, RateAssumption, Zenon
    <3> QED BY <3>3, <3>5
  <2>4. /\ tail'[p] = (tail[p] + used) % Width
        /\ \A q \in Players \ {p} : tail'[q] = tail[q]
    BY <1>0, <2>1 DEF TypeOK
  <2> HIDE DEF used
  <2> SUFFICES ASSUME NEW q \in Players, ~torn'[q] PROVE Whole(q)'
    BY DEF RInv
  <2>5. Whole(q)
    BY <2>2 DEF RInv
  <2>6. /\ tail[q] \in Nat /\ tail'[q] \in Nat /\ head[q] \in Nat
        /\ tail[q] <= tail'[q] /\ tail'[q] <= head[q]
    <3>0. Sound(q) /\ head[q] \in Nat /\ tail[q] \in Nat
      BY <2>5 DEF Whole, TypeOK
    <3>1. CASE q = p
      <4>1. tail[p] + used <= head[p]
        BY <1>0, <2>2, <2>3, <2>5, <3>0, <3>1 DEF Whole, Reading
      <4>2. tail[p] + used \in 0 .. Width - 1 /\ Width \in Nat \ {0}
        BY <2>3, <3>0, <3>1, <4>1, RingAssumption, FeedAssumption DEF Sound
      <4>3. tail'[p] = tail[p] + used
        BY <2>4, <4>2, ModSmall
      <4> QED BY <2>3, <3>0, <3>1, <4>1, <4>3
    <3>2. CASE q # p
      BY <2>4, <3>0, <3>2 DEF Sound
    <3> QED BY <3>1, <3>2
  <2>7. Sound(q)'
    BY <2>2, <2>5, <2>6, RingAssumption DEF Whole, Sound
  <2>8. ASSUME NEW t \in Threads PROVE Pending(t, q)'
    <3>1. Pending(t, q) /\ writer[t].len \in Nat
      BY <2>5 DEF Whole, TypeOK
    <3> QED BY <2>2, <2>6, <3>1, RingAssumption DEF Pending
  <2>9. OneWriter(q)' /\ Reading(q)'
    BY <2>2, <2>5 DEF Whole, OneWriter, Reading
  <2>10. Counted(q)'
    <3>1. Counted(q) /\ fresh \in Nat
      BY <2>5 DEF Whole, TypeOK
    <3> QED BY <2>2, <2>6, <3>1 DEF Counted, Ending
  <2> QED BY <2>7, <2>8, <2>9, <2>10 DEF Whole
<1> QED BY <1>1, <1>2, <1>3 DEF Mixer

-----------------------------------------------------------------------------
(* The theorems *)

\* The types, and what the lock of the device is for: the SDL callback works
\* only on players that are playing, so that a stop, a pause or a destroy is
\* heard at once, whatever the engine does and whatever the sample rates are.
THEOREM StoppedIsSilent == Spec => [](TypeOK /\ MixesPlaying)
<1>1. Init => TInv
  BY InitTypes
<1>2. TInv /\ [Next]_vars => TInv'
  BY TypesStep
<1>3. TInv => TypeOK /\ MixesPlaying
  BY DEF TInv
<1> QED BY <1>1, <1>2, <1>3, PTL DEF Spec

\* The variables of the bridge keep their types: counters, cells and flags of
\* every AudioPlayer, and the places the pump and the mixer can be at.
THEOREM TypesHold == Spec => []TypeOK
<1>1. TypeOK /\ MixesPlaying => TypeOK
  OBVIOUS
<1> QED BY <1>1, StoppedIsSilent, PTL

\* The invariant of the ring of a player that is not torn: what is readable
\* fits and is what was enqueued, an Enqueue under way has written behind it
\* and is the only one, the mixer's frames are still there, and what came
\* since the end of the sound was found is counted.
THEOREM Inductive ==
  ASSUME Rate <= One
  PROVE  Spec => []IInv
<1>1. Init => IInv
  BY InitTypes, InitRing DEF IInv
<1>2. IInv /\ [Next]_vars => IInv'
  <2> SUFFICES ASSUME IInv, [Next]_vars PROVE IInv'
    OBVIOUS
  <2>1. TInv'
    BY TypesStep DEF IInv
  <2>2. CASE Game
    BY <2>1, <2>2, GameStep DEF IInv
  <2>3. CASE Pump
    BY <2>1, <2>3, PumpStep DEF IInv
  <2>4. CASE Mixer
    BY <2>1, <2>4, MixerStep, StepNat DEF IInv
  <2>5. CASE UNCHANGED vars
    <3>1. RInv'
      BY <2>5, QuietStep DEF vars, history, Ending
    <3> QED BY <2>1, <3>1 DEF IInv
  <2> QED BY <2>2, <2>3, <2>4, <2>5 DEF Next
<1> QED BY <1>1, <1>2, PTL DEF Spec

\* Every frame that can be read from a player was enqueued since its last
\* reset and is read once and in order (ring_write, ring_peek), for sounds no
\* faster than the device: calls of the engine at any moment of the pump's
\* visit do no harm unless one meets an Enqueue of the other thread.
THEOREM FramesInOrder ==
  ASSUME Rate <= One
  PROVE  Spec => []InOrder
<1>1. IInv => InOrder
  <2> SUFFICES ASSUME IInv, NEW p \in Players, ~torn[p],
                      NEW k \in 0 .. Readable(p) - 1
               PROVE  ring[p][(tail[p] + k) % RingSize] = tail[p] + k
    BY DEF InOrder
  <2>1. TypeOK /\ Sound(p)
    BY DEF IInv, TInv, RInv, Whole
  <2>2. Readable(p) = head[p] - tail[p] /\ head[p] \in Nat /\ tail[p] \in Nat
    BY <2>1, SoundReadable DEF TypeOK
  <2>3. tail[p] + k \in tail[p] .. head[p] - 1
    BY <2>2
  <2> QED BY <2>1, <2>3 DEF Sound
<1> QED BY <1>1, Inductive, PTL

\* The stop at the end of a sound throws nothing away that was enqueued before
\* the pump found the ring empty, although it waits for the lock of the device
\* only after that.
THEOREM EndIsWhole ==
  ASSUME Rate <= One
  PROVE  Spec => EndCutsNothing
<1>1. IInv /\ [Next]_vars => [PumpStop => torn[pump.at] \/ Readable(pump.at) <= fresh]_vars
  <2> SUFFICES ASSUME IInv, PumpStop, ~torn[pump.at]
               PROVE  Readable(pump.at) <= fresh
    OBVIOUS
  <2>1. pump.at \in Players /\ TypeOK
    BY DEF IInv, TInv, TypeOK
  <2>2. Whole(pump.at)
    BY <2>1 DEF IInv, RInv
  <2>3. head[pump.at] - tail[pump.at] <= fresh
    BY <2>2 DEF Whole, Counted, Ending, PumpStop
  <2> QED BY <2>1, <2>2, <2>3, SoundReadable DEF Whole
<1> QED BY <1>1, Inductive, PTL DEF Spec, EndCutsNothing

=============================================================================
