--------------------------- MODULE MCRelayClient ---------------------------
(* Small instances of RelayClient for TLC.                                  *)
EXTENDS RelayClient, TLC
=============================================================================
