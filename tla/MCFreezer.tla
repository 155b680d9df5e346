------------------------------- MODULE MCFreezer -------------------------------
(* Instances of Freezer for TLC. *)
EXTENDS Freezer, TLC

CONSTANTS a, b, p1, p2, p3

Apps == {a, b}
Pids == {p1, p2, p3}

(* p1 runs a and has started p2, which runs b; p3 is free, for a process   *)
(* that is started later under any name.                                   *)
Family == {p1 :> Root @@ p2 :> p1 @@ p3 :> p3}
FamilyNames == {p1 :> a @@ p2 :> b @@ p3 :> Other}
===============================================================================
