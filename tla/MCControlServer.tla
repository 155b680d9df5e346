---------------------------- MODULE MCControlServer ----------------------------
(* Instances of ControlServer for TLC. *)
EXTENDS ControlServer, TLC

CONSTANTS dflt, d1, d2, p1, n1, n2

Domains == {dflt, d1, d2}

Cmd(o, ds, ps, ns) == [op |-> o, domains |-> ds, paths |-> ps, names |-> ns]

(* Commands on the domain lists: a default that is blocked on request too, *)
(* removals of what is not there, and lists that do not fit the map; and   *)
(* commands that Status and the application list tell apart.               *)
Commands ==
  {Cmd("block", {dflt, d1}, {}, {}), Cmd("block", {d1, d2}, {}, {}),
   Cmd("unblock", {dflt, d1}, {}, {}),
   Cmd("sync", {d1, d2}, {}, {n1}), Cmd("sync", {dflt, d1}, {}, {n2}),
   Cmd("focus_on", {d2}, {}, {}), Cmd("focus_off", {}, {}, {}),
   Cmd("block_app", {}, {p1}, {n2}), Cmd("unblock_app", {}, {p1}, {n1}),
   Cmd("status", {}, {}, {})}
===============================================================================
