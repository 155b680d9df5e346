----------------------------- MODULE MCAppWatcher -----------------------------
(* An instance of AppWatcher for TLC: two files of one name. *)
EXTENDS AppWatcher

CONSTANTS p1, p2, app, copy, osa, appName, osaName, prefix

Bases == [path \in Path |-> IF path = osa THEN osaName ELSE appName]
Prefixes == {<<prefix, appName>>}
===============================================================================
