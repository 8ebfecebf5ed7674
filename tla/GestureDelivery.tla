--------------------------- MODULE GestureDelivery ---------------------------
(***************************************************************************)
(* What the Sleep/Wake rig promises its host, without a ring buffer, a     *)
(* clock or an endpoint: gestures wait in a sequence as a press followed   *)
(* by its release, the host takes the reports one at a time and in order,  *)
(* and leaving the bus forgets them all and lets go of any key.            *)
(***************************************************************************)
EXTENDS Naturals, Sequences

CONSTANTS
  Keys,      \* the keys a gesture can press
  NoKey,     \* the report that releases whatever is down
  Capacity   \* how many reports can wait

VARIABLES
  pending,   \* reports the host has not taken
  down       \* the key the host holds down

pairVars == <<pending, down>>

PairInit == pending = <<>> /\ down = NoKey

(* A gesture is queued whole, or not at all. *)
QueueGesture(key) ==
  /\ Len(pending) + 2 <= Capacity
  /\ pending' = pending \o <<key, NoKey>>
  /\ UNCHANGED down

DeliverReport ==
  /\ pending # <<>>
  /\ down' = Head(pending)
  /\ pending' = Tail(pending)

Forget ==
  /\ pending' = <<>>
  /\ down' = NoKey

PairNext == (\E key \in Keys : QueueGesture(key)) \/ DeliverReport \/ Forget

PairSpec == PairInit /\ [][PairNext]_pairVars

(* No report waits for ever. *)
Served == WF_pairVars(DeliverReport)
=============================================================================
