----------------------------- MODULE MCIdentity -----------------------------
(* A small instance of Identity for TLC: two processes, each of which may   *)
(* have an identity in its environment.                                     *)
EXTENDS Identity, TLC

Nothing == [caps |-> None, protocols |-> None, payment |-> None, limits |-> None]

Call(kind, args, replace) == [kind |-> kind, args |-> args, replace |-> replace]

\* One of each kind; limits that name one of the two only; a price beyond the
\* bound, which raises.
Requests ==
  {Call("identity", Nothing, FALSE), Call("sync", Nothing, FALSE),
   Call("ready", Nothing, FALSE),
   Call("caps", [Nothing EXCEPT !.caps = Some({"research"})], FALSE),
   Call("route", [Nothing EXCEPT !.limits = Some([kb |-> Some(1), ttl |-> None])], FALSE),
   Call("route", [Nothing EXCEPT !.payment = Some([price |-> Some(MaxPricePerKb + 1)])], FALSE)}

Capabilities == {"general", "mcp", "research"}
Defaulted == {"general", "mcp"}
FromEnv == {"general"}

\* Keys that are drawn are interchangeable, and so are processes.
Symmetry == Permutations(Key \ {EnvKey}) \cup Permutations(Task)

\* Where both exemptions are in force there is only the type left to check.
AtStake == ~(lost /\ raced)
=============================================================================
