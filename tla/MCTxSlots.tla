----------------------------- MODULE MCTxSlots -----------------------------
(* Values for the constants of TxSlots that a configuration cannot spell. *)
EXTENDS TxSlots

(* Exponents 1 to 2, whose limit the second failure reaches, ... *)
OneRange == {<<1, 2>>}

(* ... and an empty range, for which there is no contention state. *)
RangeOrNone == {<<1, 2>>, <<2, 1>>}
=============================================================================
