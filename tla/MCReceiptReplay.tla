-------------------------- MODULE MCReceiptReplay --------------------------
(* Small instances of ReceiptReplay for TLC.                                *)
EXTENDS ReceiptReplay, TLC
=============================================================================
