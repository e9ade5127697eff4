------------------------------- MODULE RxFifo -------------------------------
(***************************************************************************)
(* What the receive path promises its caller, with buffers, descriptors    *)
(* and the DMA engine left out: a queue of frames numbered in the order in *)
(* which the radio completed them.  The frames that wait are               *)
(* consumed + 1 .. received.                                               *)
(***************************************************************************)
EXTENDS Naturals

VARIABLES
  received,   \* frames the radio has put into buffers
  consumed,   \* frames handed to the caller, or discarded by a clear
  out         \* the frame most recently handed to the caller

vars == <<received, consumed, out>>

Init ==
  /\ received = 0
  /\ consumed = 0
  /\ out = 0

(* The radio completes one more frame. *)
Arrive ==
  /\ received' = received + 1
  /\ UNCHANGED <<consumed, out>>

(* The caller gets the oldest frame that waits, exactly once. *)
Deliver ==
  /\ consumed < received
  /\ consumed' = consumed + 1
  /\ out' = consumed + 1
  /\ UNCHANGED received

(* A clear drops every frame that waits. *)
Discard ==
  /\ consumed < received
  /\ consumed' = received
  /\ UNCHANGED <<received, out>>

Next == Arrive \/ Deliver \/ Discard

Spec == Init /\ [][Next]_vars
=============================================================================
