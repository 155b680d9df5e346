---------------------------- MODULE MCAndroidShield ----------------------------
(* An instance of AndroidShield for TLC: two apps that may be blocked. *)
EXTENDS AndroidShield

CONSTANTS a, b, home, own
===============================================================================
