------------------------------ MODULE MCMacHosts ------------------------------
(* Instances of MacHosts for TLC. *)
EXTENDS MacHosts, FiniteSets, TLC

CONSTANTS d, x, s, line      \* a default domain, another one, a suffix key

Domains == {d, x, s}

Com(o, ds) == [op |-> o, domains |-> ds]
Commands ==
  {Com("block", {x}), Com("block", {d, s}), Com("unblock", {d, x}), Com("sync", {x, s}),
   Com("sync", {d}), Com("focus_on", {x}), Com("focus_off", {}), Com("block_app", {}),
   Com("status", {})}

\* One of each kind, all orders of mutexes among them.
KindsOfCommand ==
  {Com("block", {x}), Com("unblock", {d, x}), Com("sync", {x}), Com("focus_on", {x}),
   Com("block_app", {}), Com("status", {})}

\* Fewer of them, beside the terminal interface.
FewCommands == {Com("block", {x}), Com("unblock", {d}), Com("sync", {x})}

Perms == Permutations(Conn)

(* What comes from outside is bounded together: three commands, or two and *)
(* one failure, edit, end, or start or change of the terminal interface,   *)
(* or one command and two of these.  Each step of the program that may     *)
(* fail may also succeed, so that the bound hinders no handler.            *)
MaxEvents == 3
Events ==
  Cardinality({c \in Conn : pc[c] # "idle"}) + failures + edits + stops + changes
FewEvents == Events' <= MaxEvents
===============================================================================
