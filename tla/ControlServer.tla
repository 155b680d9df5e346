---------------------------- MODULE ControlServer -----------------------------
(***************************************************************************)
(* The Linux control server (antidistractor/src/control_server.rs): one    *)
(* task per client connection, one command per connection, run against the *)
(* kernel's BLOCKLIST map and three lists, each behind a mutex of its own. *)
(* The mutexes are taken in the order ebpf, focus, dynamic, apps.          *)
(*                                                                         *)
(* The packet classifier reads the map with no lock at all, so it may look *)
(* a domain up in every state of this module; that is why each insertion   *)
(* into the map and each removal from it is a step of its own.  Status     *)
(* reads the lists under their mutexes but without the ebpf mutex.         *)
(*                                                                         *)
(* Abstractions.  The Vec of dynamic domains is a set: every reader and    *)
(* every writer of it treats equal entries alike.  names stands for the    *)
(* names and the '*'-patterns of BlockedSet together: the last character   *)
(* of a string says which of the two holds it.  The domains of a command   *)
(* are a set taken in any order.  A handler drops all its guards at its    *)
(* end; that is one step, the last.                                        *)
(***************************************************************************)
EXTENDS Naturals, FiniteSets

CONSTANTS
  Conn,         \* the client connections
  Domain,       \* the domains that may appear in the map or in a command
  Default,      \* DEFAULT_BLOCKLIST, inserted before the server starts
  Path, Name,   \* executable paths; executable names and name patterns
  Command,      \* the commands a client may send
  MaxEntries,   \* the capacity of the BLOCKLIST map
  None          \* no holder, no command

Op == {"block", "unblock", "sync", "focus_on", "focus_off",
       "block_app", "unblock_app", "status"}

ASSUME DefaultAssumption == Default \subseteq Domain
ASSUME NoneAssumption == None \notin Conn
ASSUME CommandAssumption ==
  Command \subseteq [op : Op, domains : SUBSET Domain,
                     paths : SUBSET Path, names : SUBSET Name]
ASSUME NoneIsNoCommand == None \notin Command
ASSUME CapacityAssumption ==
  /\ MaxEntries \in Nat
  /\ IsFiniteSet(Domain) /\ Cardinality(Default) <= MaxEntries

VARIABLES
  map,       \* the keys of the BLOCKLIST map, as the classifier sees them
  dynamic,   \* dynamic_blocked
  focus,     \* focus_mode_active
  paths,     \* BlockedSet.paths
  names,     \* BlockedSet.names and BlockedSet.patterns
  lock,      \* who holds each mutex
  pc,        \* where each connection's handler stands
  request,   \* its command
  todo,      \* the domains its current loop has not visited
  added,     \* Block's local list of the insertions that succeeded
  failed,    \* the domains its errors name
  answer,    \* "none", then "ok" or "error"
  report,    \* the parts of a Status answer read so far
  before,    \* history: dynamic and names when the running command took them
  named,     \* history: the domains of all commands accepted so far
  syncNo,    \* history: which Sync last wrote dynamic, and which names
  seen       \* history: the syncNo that each Status read its parts under

lists == <<dynamic, focus, paths, names>>
locals == <<request, todo, added, failed, answer, report>>
history == <<before, named, syncNo, seen>>
vars == <<map, lists, lock, pc, locals, history>>

Lock == {"ebpf", "focus", "dynamic", "apps"}
PC == {"idle", "start", "lockfm", "lockdb", "adding", "removing", "swapped",
       "readfm", "readapps", "done"}
Report == [stage : 0..3, listed : SUBSET Domain, focus : BOOLEAN,
           paths : SUBSET Path, names : SUBSET Name]
EmptyReport == [stage |-> 0, listed |-> {}, focus |-> FALSE,
                paths |-> {}, names |-> {}]

TypeOK ==
  /\ map \subseteq Domain /\ dynamic \subseteq Domain
  /\ focus \in BOOLEAN /\ paths \subseteq Path /\ names \subseteq Name
  /\ lock \in [Lock -> Conn \cup {None}]
  /\ pc \in [Conn -> PC]
  /\ request \in [Conn -> Command \cup {None}]
  /\ todo \in [Conn -> SUBSET Domain]
  /\ added \in [Conn -> SUBSET Domain]
  /\ failed \in [Conn -> SUBSET Domain]
  /\ answer \in [Conn -> {"none", "ok", "error"}]
  /\ report \in [Conn -> Report]
  /\ before \in [listed : SUBSET Domain, names : SUBSET Name]
  /\ named \subseteq Domain
  /\ syncNo \in [listed : Nat, names : Nat]
  /\ seen \in [Conn -> [listed : Nat, names : Nat]]

(* The daemon has inserted its defaults; no client has connected. *)
Init ==
  /\ map = Default /\ dynamic = {} /\ focus = FALSE
  /\ paths = {} /\ names = {}
  /\ lock = [l \in Lock |-> None]
  /\ pc = [c \in Conn |-> "idle"]
  /\ request = [c \in Conn |-> None]
  /\ todo = [c \in Conn |-> {}]
  /\ added = [c \in Conn |-> {}]
  /\ failed = [c \in Conn |-> {}]
  /\ answer = [c \in Conn |-> "none"]
  /\ report = [c \in Conn |-> EmptyReport]
  /\ before = [listed |-> {}, names |-> {}]
  /\ named = {}
  /\ syncNo = [listed |-> 0, names |-> 0]
  /\ seen = [c \in Conn |-> [listed |-> 0, names |-> 0]]

-------------------------------------------------------------------------------
(* The command of c, once it has arrived, is one of the given ones. *)
Is(c, ops) == request[c] # None /\ request[c].op \in ops

Transition(c, from, to) == pc[c] = from /\ pc' = [pc EXCEPT ![c] = to]

(* Mutant of Free: nobody waits for the ebpf mutex. *)
FreeEbpf(l) == lock[l] = None \/ l = "ebpf"

Free(l) == lock[l] = None
Acquire(c, l) == Free(l) /\ lock' = [lock EXCEPT ![l] = c]

(* The end of a handler: every guard is dropped and the answer is sent. *)
Reply(c, from, ok) ==
  /\ Transition(c, from, "done")
  /\ lock' = [l \in Lock |-> IF lock[l] = c THEN None ELSE lock[l]]
  /\ answer' = [answer EXCEPT ![c] = IF ok THEN "ok" ELSE "error"]

(* The connection's task parses one line into a command. *)
Accept(c) ==
  /\ Transition(c, "idle", "start")
  /\ \E r \in Command :
       /\ request' = [request EXCEPT ![c] = r]
       /\ named' = named \cup r.domains
  /\ UNCHANGED <<map, lists, lock, todo, added, failed, answer, report,
                 before, syncNo, seen>>

(* EbpfManager::add_domain: a key that is there already is overwritten, a  *)
(* new key needs a free entry.                                             *)
Fits(d) == d \in map \/ Cardinality(map) < MaxEntries

(***************************************************************************)
(* Taking the mutexes                                                      *)
(***************************************************************************)
(* Block, Unblock, Sync and FocusMode begin with the ebpf mutex and keep   *)
(* it to their end.                                                        *)
LockEbpf(c) ==
  /\ Acquire(c, "ebpf")
  /\ \/ /\ Is(c, {"block"}) /\ Transition(c, "start", "adding")
        /\ todo' = [todo EXCEPT ![c] = request[c].domains]
     \/ /\ Is(c, {"unblock"}) /\ Transition(c, "start", "removing")
        /\ todo' = [todo EXCEPT ![c] = request[c].domains]
     \/ /\ Is(c, {"sync"}) /\ Transition(c, "start", "lockdb")
        /\ UNCHANGED todo
     \/ /\ Is(c, {"focus_on", "focus_off"}) /\ Transition(c, "start", "lockfm")
        /\ UNCHANGED todo
  /\ UNCHANGED <<map, lists, request, added, failed, answer, report, history>>

LockFocus(c) ==
  /\ Transition(c, "lockfm", "lockdb")
  /\ Acquire(c, "focus")
  /\ UNCHANGED <<map, lists, locals, history>>

(* Mutant of LockDynamic: Sync and FocusMode clear the map, not the list. *)
LockDynamicClearAll(c) ==
  /\ Acquire(c, "dynamic")
  /\ \/ /\ Is(c, {"sync", "focus_off"}) /\ Transition(c, "lockdb", "removing")
        /\ todo' = [todo EXCEPT ![c] = map]
     \/ /\ Is(c, {"focus_on"}) /\ Transition(c, "lockdb", "adding")
        /\ todo' = [todo EXCEPT ![c] = request[c].domains]
  /\ before' = [before EXCEPT !.listed = dynamic]
  /\ UNCHANGED <<map, lists, request, added, failed, answer, report,
                 named, syncNo, seen>>

(* Sync and FocusMode hold the dynamic mutex to their end as well.         *)
LockDynamic(c) ==
  /\ Acquire(c, "dynamic")
  /\ \/ /\ Is(c, {"sync", "focus_off"}) /\ Transition(c, "lockdb", "removing")
        /\ todo' = [todo EXCEPT ![c] = dynamic]
     \/ /\ Is(c, {"focus_on"}) /\ Transition(c, "lockdb", "adding")
        /\ todo' = [todo EXCEPT ![c] = request[c].domains]
  /\ before' = [before EXCEPT !.listed = dynamic]
  /\ UNCHANGED <<map, lists, request, added, failed, answer, report,
                 named, syncNo, seen>>

-------------------------------------------------------------------------------
(***************************************************************************)
(* The loops over the map                                                  *)
(***************************************************************************)
(* One turn of a loop over remove_domain.  Only Unblock keeps the error of *)
(* a key that is not in the map.                                           *)
RemoveDomain(c) ==
  /\ pc[c] = "removing"
  /\ \E d \in todo[c] :
       /\ map' = map \ {d}
       /\ todo' = [todo EXCEPT ![c] = @ \ {d}]
       /\ failed' = IF Is(c, {"unblock"}) /\ d \notin map
                      THEN [failed EXCEPT ![c] = @ \cup {d}] ELSE failed
  /\ UNCHANGED <<lists, lock, pc, request, added, answer, report, history>>

(* One turn of a loop over add_domain.  Block collects what it added in a  *)
(* local list, Sync and FocusMode push it on the dynamic list they hold.   *)
AddDomain(c) ==
  /\ pc[c] = "adding"
  /\ \E d \in todo[c] :
       /\ todo' = [todo EXCEPT ![c] = @ \ {d}]
       /\ \/ /\ Fits(d) /\ Is(c, {"block"})
             /\ map' = map \cup {d}
             /\ added' = [added EXCEPT ![c] = @ \cup {d}]
             /\ UNCHANGED <<dynamic, failed>>
          \/ /\ Fits(d) /\ Is(c, {"sync", "focus_on"})
             /\ map' = map \cup {d}
             /\ dynamic' = dynamic \cup {d}
             /\ UNCHANGED <<added, failed>>
          \/ /\ ~Fits(d)
             /\ failed' = [failed EXCEPT ![c] = @ \cup {d}]
             /\ UNCHANGED <<map, dynamic, added>>
  /\ UNCHANGED <<focus, paths, names, lock, pc, request, answer, report, history>>

(* Sync has emptied the map of the old list: db.clear(), then the new one. *)
SyncClear(c) ==
  /\ Is(c, {"sync"}) /\ todo[c] = {}
  /\ Transition(c, "removing", "adding")
  /\ dynamic' = {}
  /\ todo' = [todo EXCEPT ![c] = request[c].domains]
  /\ syncNo' = [syncNo EXCEPT !.listed = @ + 1]
  /\ UNCHANGED <<map, focus, paths, names, lock, request, added, failed, answer,
                 report, before, named, seen>>

(* Sync replaces the names and patterns, never the paths, and keeps the    *)
(* apps mutex until it ends.                                               *)
SyncApps(c) ==
  /\ Is(c, {"sync"}) /\ todo[c] = {}
  /\ Transition(c, "adding", "swapped")
  /\ Acquire(c, "apps")
  /\ names' = request[c].names
  /\ before' = [before EXCEPT !.names = names]
  /\ syncNo' = [syncNo EXCEPT !.names = syncNo.listed]
  /\ UNCHANGED <<map, dynamic, focus, paths, locals, named, seen>>

-------------------------------------------------------------------------------
(***************************************************************************)
(* The ends of the handlers                                                *)
(***************************************************************************)
(* Mutant of BlockReply: what was asked for is listed, not what was added. *)
BlockReplyAll(c) ==
  /\ Is(c, {"block"}) /\ todo[c] = {} /\ Free("dynamic")
  /\ dynamic' = dynamic \cup request[c].domains
  /\ Reply(c, "adding", failed[c] = {})
  /\ UNCHANGED <<map, focus, paths, names, request, todo, added, failed, report,
                 history>>

BlockReply(c) ==
  /\ Is(c, {"block"}) /\ todo[c] = {} /\ Free("dynamic")
  /\ dynamic' = dynamic \cup added[c]
  /\ Reply(c, "adding", failed[c] = {})
  /\ UNCHANGED <<map, focus, paths, names, request, todo, added, failed, report,
                 history>>

UnblockReply(c) ==
  /\ Is(c, {"unblock"}) /\ todo[c] = {} /\ Free("dynamic")
  /\ dynamic' = dynamic \ request[c].domains
  /\ Reply(c, "removing", failed[c] = {})
  /\ UNCHANGED <<map, focus, paths, names, request, todo, added, failed, report,
                 history>>

SyncReply(c) ==
  /\ Reply(c, "swapped", failed[c] = {})
  /\ UNCHANGED <<map, lists, request, todo, added, failed, report, history>>

(* FocusMode drops the errors of its insertions and always answers ok. *)
FocusOnReply(c) ==
  /\ Is(c, {"focus_on"}) /\ todo[c] = {}
  /\ focus' = TRUE
  /\ Reply(c, "adding", TRUE)
  /\ UNCHANGED <<map, dynamic, paths, names, request, todo, added, failed, report,
                 history>>

(* Mutant of FocusOffReply: the flag is cleared, the list is not. *)
FocusOffReplyKeepsList(c) ==
  /\ Is(c, {"focus_off"}) /\ todo[c] = {}
  /\ focus' = FALSE
  /\ Reply(c, "removing", TRUE)
  /\ UNCHANGED <<map, dynamic, paths, names, request, todo, added, failed, report,
                 history>>

(* Leaving focus mode empties the whole dynamic list, whoever filled it. *)
FocusOffReply(c) ==
  /\ Is(c, {"focus_off"}) /\ todo[c] = {}
  /\ dynamic' = {} /\ focus' = FALSE
  /\ Reply(c, "removing", TRUE)
  /\ UNCHANGED <<map, paths, names, request, todo, added, failed, report, history>>

BlockApp(c) ==
  /\ Is(c, {"block_app"}) /\ Free("apps")
  /\ paths' = paths \cup request[c].paths
  /\ names' = names \cup request[c].names
  /\ Reply(c, "start", TRUE)
  /\ UNCHANGED <<map, dynamic, focus, request, todo, added, failed, report, history>>

UnblockApp(c) ==
  /\ Is(c, {"unblock_app"}) /\ Free("apps")
  /\ paths' = paths \ request[c].paths
  /\ names' = names \ request[c].names
  /\ Reply(c, "start", TRUE)
  /\ UNCHANGED <<map, dynamic, focus, request, todo, added, failed, report, history>>

-------------------------------------------------------------------------------
(***************************************************************************)
(* Status: three reads, each under its own mutex, none under the ebpf one  *)
(***************************************************************************)
(* Mutant of StatusDynamic: the list is read without its mutex. *)
StatusDynamicUnlocked(c) ==
  /\ Is(c, {"status"})
  /\ Transition(c, "start", "readfm")
  /\ report' = [report EXCEPT ![c].stage = 1, ![c].listed = dynamic]
  /\ seen' = [seen EXCEPT ![c].listed = syncNo.listed]
  /\ UNCHANGED <<map, lists, lock, request, todo, added, failed, answer,
                 before, named, syncNo>>

(* Mutant of StatusDynamic: the guard of the list lives on to the end. *)
StatusDynamicKeepsGuard(c) ==
  /\ Is(c, {"status"}) /\ Acquire(c, "dynamic")
  /\ Transition(c, "start", "readfm")
  /\ report' = [report EXCEPT ![c].stage = 1, ![c].listed = dynamic]
  /\ seen' = [seen EXCEPT ![c].listed = syncNo.listed]
  /\ UNCHANGED <<map, lists, request, todo, added, failed, answer,
                 before, named, syncNo>>

StatusDynamic(c) ==
  /\ Is(c, {"status"}) /\ Free("dynamic")
  /\ Transition(c, "start", "readfm")
  /\ report' = [report EXCEPT ![c].stage = 1, ![c].listed = dynamic]
  /\ seen' = [seen EXCEPT ![c].listed = syncNo.listed]
  /\ UNCHANGED <<map, lists, lock, request, todo, added, failed, answer,
                 before, named, syncNo>>

StatusFocus(c) ==
  /\ Free("focus")
  /\ Transition(c, "readfm", "readapps")
  /\ report' = [report EXCEPT ![c].stage = 2, ![c].focus = focus]
  /\ UNCHANGED <<map, lists, lock, request, todo, added, failed, answer, history>>

(* The frozen names are read here too, while the apps mutex is held; the   *)
(* freezer's mutex is never held across a step (module Freezer).           *)
StatusReply(c) ==
  /\ Free("apps")
  /\ report' = [report EXCEPT ![c].stage = 3, ![c].paths = paths, ![c].names = names]
  /\ seen' = [seen EXCEPT ![c].names = syncNo.names]
  /\ Reply(c, "readapps", TRUE)
  /\ UNCHANGED <<map, lists, request, todo, added, failed, before, named, syncNo>>

-------------------------------------------------------------------------------
Step(c) ==
  \/ Accept(c)
  \/ LockEbpf(c) \/ LockFocus(c) \/ LockDynamic(c)
  \/ RemoveDomain(c) \/ AddDomain(c) \/ SyncClear(c) \/ SyncApps(c)
  \/ BlockReply(c) \/ UnblockReply(c) \/ SyncReply(c)
  \/ FocusOnReply(c) \/ FocusOffReply(c)
  \/ BlockApp(c) \/ UnblockApp(c)
  \/ StatusDynamic(c) \/ StatusFocus(c) \/ StatusReply(c)

Next == \E c \in Conn : Step(c)

(* A connection's task keeps running once its line has arrived; a client   *)
(* need never send one.  The mutexes are not fair, but Conn is finite.     *)
Fairness == \A c \in Conn : WF_vars(pc[c] # "idle" /\ Step(c))

Spec == Init /\ [][Next]_vars
FairSpec == Spec /\ Fairness

-------------------------------------------------------------------------------
(***************************************************************************)
(* Properties                                                              *)
(***************************************************************************)
(* Whenever no handler is at work on the map, the dynamic list and the map *)
(* agree: every listed domain is dropped by the classifier, and whatever   *)
(* the classifier drops is a default or is listed.  No interleaving of     *)
(* Block, Unblock, Sync and FocusMode, no full map and no failed removal   *)
(* may leave a domain that is listed but let through, or one that is       *)
(* dropped and cannot be found in Status.                                  *)
ListMatchesMap ==
  Free("ebpf") => dynamic \subseteq map /\ map \subseteq Default \cup dynamic

(* A default domain leaves the map only if some command named it: neither  *)
(* Sync nor leaving focus mode takes away a default it was never told of.  *)
DefaultsLostOnlyByName == Default \ map \subseteq named

(* Sync keeps the dynamic mutex until the names are replaced, so a Status  *)
(* that shows the domains of one Sync never shows the names of an earlier  *)
(* one.                                                                    *)
StatusNeverAhead ==
  \A c \in Conn : Is(c, {"status"}) /\ pc[c] = "done" => seen[c].listed <= seen[c].names

(* A Sync that asks for nothing new cannot fail for lack of room, even in  *)
(* a full map: the old entries leave before the new ones arrive, and no    *)
(* other command can take their place.                                     *)
ShrinkingSyncSucceeds ==
  \A c \in Conn :
    Is(c, {"sync"}) /\ pc[c] = "swapped" /\ request[c].domains \subseteq before.listed
      => failed[c] = {}

(* The order of the mutexes leaves no circle of waiting handlers: every    *)
(* command that arrived is answered.                                       *)
EveryCommandAnswered == \A c \in Conn : pc[c] = "start" ~> pc[c] = "done"

(* The commands implement the atomic ones of ControlApi.  While a handler  *)
(* holds the dynamic mutex, or a Sync the apps mutex, clients still see    *)
(* the list from before it.                                                *)
ApiListed == IF Free("dynamic") THEN dynamic ELSE before.listed
ApiNames == IF Free("apps") THEN names ELSE before.names
Api == INSTANCE ControlApi WITH listed <- ApiListed, names <- ApiNames

ImplementsApi == Api!Spec

-------------------------------------------------------------------------------
(***************************************************************************)
(* What the documentation says and the code does not do                    *)
(***************************************************************************)
(* The default list is not affected by sync or unblock.                    *)
DefaultsUntouched == Default \subseteq map

-------------------------------------------------------------------------------
(***************************************************************************)
(* Inductive invariants (proved in ControlServerProofs)                    *)
(***************************************************************************)
FocusOps == {"focus_on", "focus_off"}

(* Which commands reach which point of the handlers. *)
ControlInv ==
  \A c \in Conn :
    /\ pc[c] = "idle" <=> request[c] = None
    /\ pc[c] = "lockfm" => Is(c, FocusOps)
    /\ pc[c] = "lockdb" => Is(c, {"sync"} \cup FocusOps)
    /\ pc[c] = "adding" => Is(c, {"block", "sync", "focus_on"})
    /\ pc[c] = "removing" => Is(c, {"unblock", "sync", "focus_off"})
    /\ pc[c] = "swapped" => Is(c, {"sync"})
    /\ pc[c] \in {"readfm", "readapps"} => Is(c, {"status"})
    /\ pc[c] \in {"idle", "start"} => added[c] = {}

(* Who holds which mutex where. *)
LockInv ==
  \A c \in Conn :
    /\ lock["ebpf"] = c
         <=> pc[c] \in {"lockfm", "lockdb", "adding", "removing", "swapped"}
    /\ lock["focus"] = c
         <=> pc[c] \in {"lockdb", "adding", "removing"} /\ Is(c, FocusOps)
    /\ lock["dynamic"] = c
         <=> /\ pc[c] \in {"adding", "removing", "swapped"}
             /\ Is(c, {"sync"} \cup FocusOps)
    /\ lock["apps"] = c <=> pc[c] = "swapped"

(* The list and the map agree. *)
Agree == dynamic \subseteq map /\ map \subseteq Default \cup dynamic

(* How far they differ while the holder of the ebpf mutex is in a loop. *)
MapInv ==
  /\ ListMatchesMap
  /\ \A c \in Conn :
       /\ pc[c] \in {"lockfm", "lockdb", "swapped"} => Agree
       /\ pc[c] = "adding" /\ Is(c, {"sync", "focus_on"}) => Agree
       /\ pc[c] = "adding" /\ Is(c, {"block"}) =>
            /\ dynamic \cup added[c] \subseteq map
            /\ map \subseteq Default \cup dynamic \cup added[c]
       /\ pc[c] = "removing" /\ Is(c, {"unblock"}) =>
            /\ todo[c] \subseteq request[c].domains
            /\ dynamic \subseteq map \cup (request[c].domains \ todo[c])
            /\ map \subseteq Default \cup dynamic
            /\ map \cap (request[c].domains \ todo[c]) = {}
       /\ pc[c] = "removing" /\ Is(c, {"sync", "focus_off"}) =>
            map \subseteq Default \cup todo[c]

(* Every domain the handlers have in hand was named by some command. *)
NamedInv ==
  /\ DefaultsLostOnlyByName
  /\ dynamic \subseteq named
  /\ \A c \in Conn :
       /\ request[c] # None => request[c].domains \subseteq named
       /\ todo[c] \cup added[c] \subseteq named

(* The names lag behind the dynamic list only inside a Sync. *)
SyncNoInv ==
  /\ StatusNeverAhead
  /\ syncNo.names <= syncNo.listed
  /\ (\A c \in Conn : pc[c] = "adding" => ~Is(c, {"sync"}))
       => syncNo.names = syncNo.listed
  /\ \A c \in Conn : pc[c] \in {"readfm", "readapps"} => seen[c].listed <= syncNo.names

Partition(S, A, B, C) ==
  S = A \cup B \cup C /\ A \cap B = {} /\ A \cap C = {} /\ B \cap C = {}

(* What the loops have achieved so far, which is what the answers tell.    *)
AnswerInv ==
  \A c \in Conn :
    /\ answer[c] = "none" <=> pc[c] # "done"
    /\ pc[c] \in {"idle", "start", "lockfm", "lockdb"} => failed[c] = {}
    /\ pc[c] \in {"idle", "start"} => report[c].stage = 0
    /\ pc[c] = "readfm" => report[c].stage = 1
    /\ pc[c] = "readapps" => report[c].stage = 2
    /\ pc[c] = "removing" /\ Is(c, {"sync"}) => failed[c] = {}
    /\ pc[c] = "adding" /\ Is(c, {"block"}) =>
         Partition(request[c].domains, todo[c], added[c], failed[c])
    /\ pc[c] \in {"adding", "swapped"} /\ Is(c, {"sync"}) =>
         Partition(request[c].domains, todo[c], dynamic, failed[c])
    /\ pc[c] = "adding" /\ Is(c, {"focus_on"}) =>
         /\ todo[c] \subseteq request[c].domains
         /\ before.listed \subseteq dynamic
         /\ dynamic \subseteq before.listed \cup request[c].domains
    /\ pc[c] = "removing" /\ Is(c, {"sync", "focus_off"}) => dynamic = before.listed
    /\ pc[c] = "swapped" => todo[c] = {} /\ names = request[c].names

(* Together, and with TypeOK, they are inductive. *)
IInv == ControlInv /\ LockInv /\ MapInv /\ NamedInv /\ SyncNoInv /\ AnswerInv
===============================================================================
