------------------------------ MODULE DnsResolver ------------------------------
(***************************************************************************)
(* What the VPN promises to the apps that ask it for names: between its    *)
(* question and its end every query is judged once, at one instant, by the *)
(* list of that instant.  Only the names that are off the list then go     *)
(* upstream, only what went upstream is answered, and the verdict stands   *)
(* whatever becomes of the list.  Any query may be dropped instead.        *)
(* AndroidDns is the loop that implements it.                              *)
(***************************************************************************)
CONSTANTS
  Id,       \* queries
  Name, Domain,
  Under     \* <<domain, name>>: equal, or a parent

VARIABLES
  blocked,  \* the list
  name,     \* of each query
  fate,     \* of each query
  upstream  \* the queries that have gone upstream

vars == <<blocked, name, fate, upstream>>

Init ==
  /\ blocked = {} /\ name \in [Id -> Name]
  /\ fate = [q \in Id |-> "new"] /\ upstream = {}

Listed(q) == \E d \in blocked : <<d, name[q]>> \in Under
Become(queries, f) == fate' = [q \in Id |-> IF q \in queries THEN f ELSE fate[q]]

Update(set) == blocked' = set /\ UNCHANGED <<name, fate, upstream>>

Ask(q) == fate[q] = "new" /\ Become({q}, "asked") /\ UNCHANGED <<blocked, name, upstream>>

Judge(q) ==
  /\ fate[q] = "asked" /\ Become({q}, IF Listed(q) THEN "refusing" ELSE "allowed")
  /\ UNCHANGED <<blocked, name, upstream>>

Forward(q) ==
  /\ fate[q] = "allowed" /\ upstream' = upstream \cup {q}
  /\ UNCHANGED <<blocked, name, fate>>

Refuse(q) ==
  /\ fate[q] = "refusing" /\ Become({q}, "refused")
  /\ UNCHANGED <<blocked, name, upstream>>

Answer(q) ==
  /\ fate[q] = "allowed" /\ q \in upstream /\ Become({q}, "answered")
  /\ UNCHANGED <<blocked, name, upstream>>

Drop(queries) ==
  /\ \A q \in queries : fate[q] \in {"asked", "refusing", "allowed"}
  /\ Become(queries, "dropped") /\ UNCHANGED <<blocked, name, upstream>>

Next ==
  \/ \E set \in SUBSET Domain : Update(set)
  \/ \E q \in Id : Ask(q) \/ Judge(q) \/ Forward(q) \/ Refuse(q) \/ Answer(q)
  \/ \E queries \in SUBSET Id : Drop(queries)

Spec == Init /\ [][Next]_vars
===============================================================================
