----------------------------- MODULE MCIosBlocking -----------------------------
(* Instances of IosBlocking for TLC. *)
EXTENDS IosBlocking

CONSTANTS d1, d2, a1

ListOf(ds, as) == [domains |-> ds, apps |-> as]
Com(o, ds, as) == [op |-> o, list |-> ListOf(ds, as)]
Commands ==
  {Com("block", {d1}, {}), Com("block", {d2}, {a1}), Com("unblock", {d1}, {a1}),
   Com("sync", {d2}, {a1}), Com("sync", {}, {}), Com("clear", {}, {}),
   Com("authorize", {}, {}), Com("status", {}, {})}
===============================================================================
