---------------------------- MODULE AtomicInstall ----------------------------
(***************************************************************************)
(* What the payload transaction of nxextract promises, without its files:  *)
(* a game directory holds one payload; an install replaces the whole       *)
(* payload in one step, a failed install puts the whole previous payload   *)
(* back in one step, and a power cut returns to a payload that was there   *)
(* before.  Nobody ever sees half of an install.                           *)
(*                                                                         *)
(* "payload" is what the next run of the installer will leave in the game  *)
(* directory once it has recovered; "prior" is what withdrawing the        *)
(* current install would leave.  The two are equal when no install is in   *)
(* flight.  "now" is what the running system sees, "durable" what survives *)
(* a power cut.                                                            *)
(*                                                                         *)
(* One thing ends the promise, and only while an install can still be      *)
(* withdrawn: the installer takes the payload it published for a bad one   *)
(* and withdraws what cannot be withdrawn in one step any more.            *)
(***************************************************************************)
CONSTANTS Tree,     \* every content a game directory can have
          Whole     \* the contents one extraction delivers, complete

VARIABLES now, durable,
          undone    \* the promise has ended

vars == <<now, durable, undone>>

State == [payload : Tree, prior : Tree]

Settled(t) == [payload |-> t, prior |-> t]

TypeOK == now \in State /\ durable \in State /\ undone \in BOOLEAN

Init == /\ \E t \in Tree : now = Settled(t) /\ durable = Settled(t)
        /\ undone = FALSE

(* The validated payload goes live: one step, all paths.                   *)
Publish == /\ now.payload = now.prior
           /\ \E w \in Whole : now' = [now EXCEPT !.payload = w]

(* The install failed: one step back to the payload it replaced.           *)
Withdraw == now' = Settled(now.prior)

(* The install is final: there is nothing to withdraw to any more.         *)
Confirm == now' = Settled(now.payload)

(* The player or the game changes files while no install is in flight.     *)
Edit == now.payload = now.prior /\ \E t \in Tree : now' = Settled(t)

(* The storage has caught up with the running system.                      *)
Persisted == durable' \in {durable, now'}

PowerCut == now' = durable /\ UNCHANGED durable

(* A payload that is live and not final is doubted.                        *)
Doubt == now.payload # now.prior /\ undone'

Next == \/ ~undone /\ Doubt
        \/ undone /\ undone'
        \/ /\ ~undone /\ ~undone'
           /\ \/ Publish /\ Persisted
              \/ Withdraw /\ Persisted
              \/ Confirm /\ Persisted
              \/ Edit /\ Persisted
              \/ UNCHANGED now /\ Persisted
              \/ PowerCut

Spec == Init /\ [][Next]_vars
=============================================================================
