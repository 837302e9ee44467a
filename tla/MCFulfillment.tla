--------------------------- MODULE MCFulfillment ---------------------------
(* Instances of Fulfillment for TLC. *)
EXTENDS Fulfillment

CONSTANTS w1, w2, r1, a1, p1, p2
=============================================================================
