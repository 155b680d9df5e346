------------------------------ MODULE AndroidDns ------------------------------
(***************************************************************************)
(* The packet path of the Android VPN (DnsVpnService.kt): a loop takes one *)
(* DNS query after the other from the TUN interface, looks its name up in  *)
(* blockedDomains, answers it itself or forwards it through a socket of    *)
(* its own with three seconds to answer, and writes the answer back.  The  *)
(* list changes meanwhile, and the VPN is stopped and started: cancelling  *)
(* a loop is cooperative, so that an old one may go on beside its          *)
(* successor until it looks.                                               *)
(*                                                                         *)
(* Loops are numbered by the start they belong to.  Packets are abstracted *)
(* to their queries; the network a socket is bound to is left out, as the  *)
(* forwarding may fail in any case.                                        *)
(***************************************************************************)
EXTENDS Naturals, Sequences, SequencesExt, FiniteSets

CONSTANTS
  Id,            \* queries
  Name, Domain,
  Junk,          \* a packet without a name that can be parsed
  Under,         \* <<domain, name>>: equal, or a parent
  Port,          \* ephemeral ports
  None,
  MaxStarts,     \* bound on starts
  MaxUpdates     \* bound on broadcasts

Loop == 1..MaxStarts

ASSUME NameAssumption ==
  Junk \in Name /\ Under \subseteq Domain \X (Name \ {Junk})
  /\ None \notin Id \cup Port \cup {"refuse", "back"} /\ {"refuse", "back"} \cap Id = {}
ASSUME LimitAssumption == MaxStarts \in Nat /\ MaxUpdates \in Nat

VARIABLES
  blocked,       \* blockedDomains
  open,          \* the loop whose interface is up, or 0
  queue,         \* packets on that interface
  name,          \* of each query
  status,        \* of each query, as its client sees it, or "queued", "hand"
  phase,         \* of each loop
  packet,        \* the query that each loop has in hand
  port,          \* of its socket
  reply,         \* what it is about to write: "refuse", "back" or the query answered
  flight,        \* <<query, port>>: answers that may still come
  sent,          \* history: queries forwarded
  reused,        \* history: loops whose port had been another query's
  starts, updates

network == <<flight, sent, reused>>
loops == <<phase, packet, port, reply>>
dnsVars == <<blocked, open, queue, name, status, loops, network, starts, updates>>

Phases == {"none", "read", "lookup", "send", "wait", "write", "ended"}
Statuses == {"new", "queued", "hand", "refused", "answered", "dropped"}

DnsTypeOK ==
  /\ blocked \in SUBSET Domain /\ open \in Loop \cup {0} /\ queue \in Seq(Id)
  /\ name \in [Id -> Name] /\ status \in [Id -> Statuses]
  /\ phase \in [Loop -> Phases] /\ packet \in [Loop -> Id \cup {None}]
  /\ port \in [Loop -> Port \cup {None}]
  /\ reply \in [Loop -> Id \cup {"refuse", "back", None}]
  /\ flight \in SUBSET (Id \X Port) /\ sent \in SUBSET Id
  /\ reused \in SUBSET Loop /\ starts \in 0..MaxStarts /\ updates \in 0..MaxUpdates

DnsInit ==
  /\ blocked = {} /\ open = 0 /\ queue = <<>>
  /\ name \in [Id -> Name] /\ status = [q \in Id |-> "new"]
  /\ phase = [l \in Loop |-> "none"] /\ packet = [l \in Loop |-> None]
  /\ port = [l \in Loop |-> None] /\ reply = [l \in Loop |-> None]
  /\ flight = {} /\ sent = {} /\ reused = {}
  /\ starts = 0 /\ updates = 0

Blocks(set, n) == \E d \in set : <<d, n>> \in Under
InHand(set) == {q \in Id : \E l \in set : packet[l] = q}
Becomes(queries, s) == status' = [q \in Id |-> IF q \in queries THEN s ELSE status[q]]

-------------------------------------------------------------------------------
(***************************************************************************)
(* Starts, stops and the list, on the main thread                          *)
(***************************************************************************)
StartVpn(set) ==
  /\ open = 0 /\ starts < MaxStarts /\ starts' = starts + 1
  /\ open' = starts + 1 /\ phase' = [phase EXCEPT ![starts + 1] = "read"]
  /\ blocked' = set
  /\ UNCHANGED <<queue, name, status, packet, port, reply, network, updates>>

(* The job is cancelled and the interface closed, with what it has queued. *)
StopVpn ==
  /\ open # 0 /\ open' = 0 /\ queue' = <<>>
  /\ Becomes(ToSet(queue), "dropped")
  /\ UNCHANGED <<blocked, name, loops, network, starts, updates>>

UpdateDomains(set) ==
  /\ open # 0 /\ updates < MaxUpdates /\ updates' = updates + 1
  /\ blocked' = set
  /\ UNCHANGED <<open, queue, name, status, loops, network, starts>>

-------------------------------------------------------------------------------
(***************************************************************************)
(* Clients and the upstream server                                         *)
(***************************************************************************)
Ask(q) ==
  /\ open # 0 /\ status[q] = "new" /\ Becomes({q}, "queued")
  /\ queue' = Append(queue, q)
  /\ UNCHANGED <<blocked, open, name, loops, network, starts, updates>>

-------------------------------------------------------------------------------
(***************************************************************************)
(* The loop                                                                *)
(***************************************************************************)
Read(l) ==
  /\ phase[l] = "read" /\ l = open /\ queue # <<>>
  /\ queue' = Tail(queue) /\ Becomes({Head(queue)}, "hand")
  /\ packet' = [packet EXCEPT ![l] = Head(queue)] /\ phase' = [phase EXCEPT ![l] = "lookup"]
  /\ UNCHANGED <<blocked, open, name, port, reply, network, starts, updates>>

Ends(set) ==
  /\ phase' = [l \in Loop |-> IF l \in set THEN "ended" ELSE phase[l]]
  /\ packet' = [l \in Loop |-> IF l \in set THEN None ELSE packet[l]]
  /\ port' = [l \in Loop |-> IF l \in set THEN None ELSE port[l]]
  /\ reply' = [l \in Loop |-> IF l \in set THEN None ELSE reply[l]]
  /\ Becomes(InHand(set), "dropped")

(* The read throws although the interface is up: the loop is over, and the *)
(* interface stays, so that nothing reads it until the VPN is stopped.     *)
ReadFails(l) ==
  /\ phase[l] = "read" /\ l = open /\ Ends({l})
  /\ UNCHANGED <<blocked, open, queue, name, network, starts, updates>>

(* isActive, delay, withContext: a cancelled loop ends where it looks. *)
Cancelled(l) ==
  /\ phase[l] \in {"read", "lookup"} /\ l # open /\ Ends({l})
  /\ UNCHANGED <<blocked, open, queue, name, network, starts, updates>>

(* An exception that nobody catches: the app ends, with all loops. *)
AppEnds ==
  /\ phase' = [k \in Loop |-> IF phase[k] = "none" THEN "none" ELSE "ended"]
  /\ packet' = [k \in Loop |-> None] /\ port' = [k \in Loop |-> None]
  /\ reply' = [k \in Loop |-> None]
  /\ Becomes(ToSet(queue) \cup InHand(Loop), "dropped")
  /\ open' = 0 /\ queue' = <<>>

Decides(l, p, a) ==
  /\ phase' = [phase EXCEPT ![l] = p] /\ reply' = [reply EXCEPT ![l] = a]
  /\ UNCHANGED <<blocked, open, queue, name, status, packet, starts, updates>>

(* Mutant of Lookup: what has been forwarded once is forwarded again. *)
LookupCached(l) ==
  /\ phase[l] = "lookup" /\ l = open /\ UNCHANGED <<port, network>>
  /\ LET n == name[packet[l]]
     IN \/ n = Junk /\ Decides(l, "write", "back")
        \/ Blocks(blocked, n) /\ n \notin {name[q] : q \in sent} /\ Decides(l, "write", "refuse")
        \/ n # Junk /\ (~Blocks(blocked, n) \/ n \in {name[q] : q \in sent}) /\ Decides(l, "send", None)

(* handleDnsQuery. *)
Lookup(l) ==
  /\ phase[l] = "lookup" /\ l = open /\ UNCHANGED <<port, network>>
  /\ LET n == name[packet[l]]
     IN \/ n = Junk /\ Decides(l, "write", "back")
        \/ Blocks(blocked, n) /\ Decides(l, "write", "refuse")
        \/ n # Junk /\ ~Blocks(blocked, n) /\ Decides(l, "send", None)

(* A query of a listed name that ends before its type and class: building  *)
(* the answer throws.                                                      *)
LookupThrows(l) ==
  /\ phase[l] = "lookup" /\ l = open /\ Blocks(blocked, name[packet[l]])
  /\ AppEnds /\ UNCHANGED <<blocked, name, network, starts, updates>>

(* forwardDnsQuery: a new socket on a port that no other socket has now. *)
Send(l, p) ==
  /\ phase[l] = "send" /\ \A other \in Loop : port[other] # p
  /\ port' = [port EXCEPT ![l] = p] /\ flight' = flight \cup {<<packet[l], p>>}
  /\ sent' = sent \cup {packet[l]}
  /\ reused' = IF \E q \in Id : <<q, p>> \in flight THEN reused \cup {l} ELSE reused \ {l}
  /\ Decides(l, "wait", None)

Handled(l, a) ==
  /\ port' = [port EXCEPT ![l] = None]
  /\ IF l = open THEN Decides(l, "write", a)
     ELSE Ends({l}) /\ UNCHANGED <<blocked, open, queue, name, starts, updates>>

(* Mutant of Receive: one socket for all. *)
ReceiveAny(l, q) ==
  /\ phase[l] = "wait" /\ q \in {f[1] : f \in flight} /\ flight' = {f \in flight : f[1] # q}
  /\ Handled(l, q) /\ UNCHANGED <<sent, reused>>

(* The first datagram that comes is the answer. *)
Receive(l, q) ==
  /\ phase[l] = "wait" /\ <<q, port[l]>> \in flight /\ flight' = flight \ {<<q, port[l]>>}
  /\ Handled(l, q) /\ UNCHANGED <<sent, reused>>

(* Mutant of Fail: no soTimeout. *)
FailToSend(l) == phase[l] = "send" /\ Handled(l, "back") /\ UNCHANGED network

(* No network, no answer in time: the query itself goes back. *)
Fail(l) == phase[l] \in {"send", "wait"} /\ Handled(l, "back") /\ UNCHANGED network

(* On a closed interface the write throws. *)
Write(l) ==
  /\ phase[l] = "write"
  /\ IF l = open
       THEN /\ Becomes({packet[l]}, CASE reply[l] = "refuse" -> "refused"
                                      [] reply[l] = "back" -> "dropped"
                                      [] OTHER -> "answered")
            /\ packet' = [packet EXCEPT ![l] = None] /\ reply' = [reply EXCEPT ![l] = None]
            /\ phase' = [phase EXCEPT ![l] = "read"]
            /\ UNCHANGED <<open, queue, port>>
       ELSE AppEnds
  /\ UNCHANGED <<blocked, name, network, starts, updates>>

-------------------------------------------------------------------------------
DnsNext ==
  \/ \E set \in SUBSET Domain : StartVpn(set) \/ UpdateDomains(set)
  \/ StopVpn
  \/ \E q \in Id : Ask(q)
  \/ \E l \in Loop :
       \/ Read(l) \/ ReadFails(l) \/ Cancelled(l)
       \/ Lookup(l) \/ LookupThrows(l) \/ Fail(l) \/ Write(l)
  \/ \E l \in Loop, p \in Port : Send(l, p)
  \/ \E l \in Loop, q \in Id : Receive(l, q)

DnsSpec == DnsInit /\ [][DnsNext]_dnsVars

(* The loop's thread runs on, and the socket's time runs out. *)
Forward(l) == (\E p \in Port : Send(l, p)) \/ Fail(l)
DnsFairSpec ==
  /\ DnsSpec
  /\ \A l \in Loop : WF_dnsVars(Read(l)) /\ WF_dnsVars(Cancelled(l)) /\ WF_dnsVars(Lookup(l))
                       /\ WF_dnsVars(Forward(l)) /\ WF_dnsVars(Write(l))

-------------------------------------------------------------------------------
(***************************************************************************)
(* Properties                                                              *)
(***************************************************************************)
(* A socket takes the first datagram for the answer, whatever query it     *)
(* answers (DnsVpnService.kt:397): as each query has a socket of its own,  *)
(* a late answer reaches another query only where the system gave it the   *)
(* same port.                                                              *)
AnswerFits ==
  \A l \in Loop \ reused : phase[l] = "write" =>
    reply[l] \in {packet[l], "refuse", "back"}

(* What an app may rely on, and what isBlocked (DnsVpnService.kt:320) is   *)
(* for: the loop implements DnsResolver.  A query is judged when it is     *)
(* looked up, by the set of that moment, however long it has waited, and   *)
(* no change of the list, late answer, stop or crash turns a verdict.      *)
Refusing == {l \in Loop : phase[l] = "write" /\ reply[l] = "refuse"}
Allowed == {l \in Loop : phase[l] \in {"send", "wait", "write"}} \ Refusing
Fate ==
  [q \in Id |-> IF q \in InHand(Refusing) THEN "refusing"
               ELSE IF q \in InHand(Allowed) THEN "allowed"
               ELSE IF status[q] \in {"queued", "hand"} THEN "asked" ELSE status[q]]
Resolver == INSTANCE DnsResolver WITH fate <- Fate, upstream <- sent
ImplementsResolver == Resolver!Spec

(* The loop that the interface belongs to has ended by a failed read. *)
Deaf == open # 0 /\ phase[open] = "ended"

(* Every query is answered, refused or dropped in the end, however many    *)
(* there are in front of it and whether the server answers them or not;    *)
(* one that has been read even if the VPN is then stopped, started again   *)
(* or deaf.  Only on a deaf interface a query waits, until a stop.         *)
EveryQueryEnds ==
  \A q \in Id :
    /\ status[q] = "hand" ~> status[q] # "hand"
    /\ status[q] = "queued" ~> status[q] # "queued" \/ Deaf
===============================================================================
