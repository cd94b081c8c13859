--------------------------- MODULE MCAgentOutbox ---------------------------
(* Small instances of AgentOutbox for TLC.                                  *)
EXTENDS AgentOutbox, TLC

\* Tasks, clients and envelopes are interchangeable.
Symmetry == Permutations(Task) \cup Permutations(Client) \cup Permutations(Envelope)
=============================================================================
