--------------------------- MODULE MCAndroidServices ---------------------------
(* Instances of AndroidServices for TLC. *)
EXTENDS AndroidServices

CONSTANTS d1, d2, p, cat, vpn, blocker

Entries == {d1, d2, p, cat}
Services == {vpn, blocker}
Scopes == [s \in Service |-> IF s = vpn THEN {d1, d2} ELSE {p}]

Com(o, es) == [op |-> o, entries |-> es]
Commands ==
  {Com("block", {d1, p, cat}), Com("unblock", {d1, cat}), Com("sync", {d2}),
   Com("clear", {})}
===============================================================================
