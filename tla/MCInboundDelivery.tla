------------------------- MODULE MCInboundDelivery -------------------------
(* A small instance of InboundDelivery for TLC.                             *)
EXTENDS InboundDelivery, TLC
=============================================================================
