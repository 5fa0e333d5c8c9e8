--------------------------------- MODULE Ring ---------------------------------
(***************************************************************************)
(* What the buffer ring promises the user: the open buffers are in one     *)
(* order that no switch changes, a new one goes right after the one shown, *)
(* closing one leaves the others as they were, and the position shown in   *)
(* the status bar is the place of the buffer shown.                        *)
(***************************************************************************)
EXTENDS Sequences, SequencesExt

CONSTANT Buffer

VARIABLES
  order,   \* the open buffers
  shown    \* the place of the one on screen

RingInit == order \in [1..1 -> Buffer] /\ shown = 1

Fresh(b) == b \in Buffer \ {order[i] : i \in DOMAIN order}

Go == shown' \in DOMAIN order /\ UNCHANGED order

InsertAfter == \E b \in Buffer :
  /\ Fresh(b)
  /\ order' = InsertAt(order, shown + 1, b)
  /\ shown' = shown + 1

\* The next buffer takes the place of the one that is closed.
Leave ==
  /\ Len(order) > 1
  /\ order' = RemoveAt(order, shown)
  /\ shown' = IF shown = Len(order) THEN 1 ELSE shown

\* A configuration buffer is closed and the user is taken somewhere else.
RemoveAndGo ==
  /\ Len(order) > 1
  /\ order' = RemoveAt(order, shown)
  /\ shown' \in DOMAIN order'

Renew == \E b \in Buffer :
  /\ Fresh(b)
  /\ order' = [order EXCEPT ![shown] = b]
  /\ UNCHANGED shown

RingNext == Go \/ InsertAfter \/ Leave \/ RemoveAndGo \/ Renew

RingSpec == RingInit /\ [][RingNext]_<<order, shown>>
===============================================================================
