----------------------------- MODULE EventStream -----------------------------
(***************************************************************************)
(* What the sidecar promises to a local client about runtime events: it is *)
(* told of them by id, every one from the first on, in order and once.     *)
(***************************************************************************)
EXTENDS Naturals, Sequences

CONSTANTS
  Reader,  \* local clients
  Row      \* events

VARIABLES
  log,     \* the events there are; an event's id is its place
  told     \* the ids each client was told, in the order it was told them

Init ==
  /\ log = <<>>
  /\ told = [c \in Reader |-> <<>>]

Add ==
  /\ \E row \in Row : log' = Append(log, row)
  /\ UNCHANGED told

\* A client is told the next few events.
Tell(c) ==
  /\ \E n \in Len(told[c]) + 1 .. Len(log) :
       told' = [told EXCEPT ![c] = [id \in 1..n |-> id]]
  /\ UNCHANGED log

Next == Add \/ \E c \in Reader : Tell(c)

Spec == Init /\ [][Next]_<<log, told>>
=============================================================================
