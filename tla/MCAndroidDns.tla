----------------------------- MODULE MCAndroidDns -----------------------------
(* An instance of AndroidDns for TLC. *)
EXTENDS AndroidDns

CONSTANTS q1, q2, q3, www, other, junk, dom, p1, p2

Listed == {<<dom, www>>}
===============================================================================
