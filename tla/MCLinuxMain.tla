------------------------------ MODULE MCLinuxMain ------------------------------
(* An instance of LinuxMain for TLC. *)
EXTENDS LinuxMain

CONSTANTS lo, eth, tun, a

InitialList == <<a>>
===============================================================================
