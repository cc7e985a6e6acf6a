----------------------------- MODULE MCPadInput -----------------------------
(* PadInput for TLC, over the union of two ranges, Solo and Duo.  No        *)
(* symmetry: Solo is about one of the pads.                                 *)
EXTENDS PadInput

CONSTANTS Single,  \* the pad of Solo
          Plain    \* a button that is not in the chord

\* Once a key of a raw device has gone down, controllers come and go but none
\* of their buttons is pressed; the window keeps the focus.
RawIdle == \A r \in RawPads :
  /\ raw[r] = [down |-> {}, changed |-> {}]
  /\ chord.down[r] = {}

PadsIdle ==
  /\ \A p \in Pads : sdl[p] = {} /\ nx.buttons[p] = {}
  /\ game.down = {}
  /\ owed = {}
  /\ ~together
  /\ focus

OneKindAtATime == RawIdle \/ PadsIdle

\* One pad with every button, and as many events as the queue holds.
Solo ==
  /\ RawIdle
  /\ attached \cup OpenPads(nx) \subseteq {Single}
  /\ \A i \in DOMAIN queue :
       queue[i].type \in {"down", "up", "added", "removed"} => queue[i].pad = Single

\* Every pad and every raw device, the buttons of the chord, one event.
Duo ==
  /\ OneKindAtATime
  /\ Len(queue) <= 1
  /\ \A i \in DOMAIN queue :
       /\ queue[i].type # "quit"
       /\ queue[i].type \in {"down", "up"} => queue[i].button # Plain
  /\ \A p \in Pads : Plain \notin sdl[p] /\ Plain \notin nx.buttons[p]
  /\ Plain \notin game.down \cup game.engine \cup owed \cup unseen

SoloOrDuo == Solo \/ Duo

=============================================================================
