------------------------------ MODULE MCOutbox ------------------------------
(* A small instance of Outbox: two acknowledgements, one administrator. *)
EXTENDS Outbox

CONSTANTS k1, k2, a1

TwoSlots == {k1, k2}
OneAdmin == {a1}
=============================================================================
