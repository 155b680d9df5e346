---------------------------- MODULE AndroidServices ----------------------------
(***************************************************************************)
(* The Android app: the HTTP control server (ControlServerService.kt), the *)
(* block list in the preferences (Blocklist.kt), and the services that     *)
(* block from a copy of it, the DNS VPN and the app blocker                *)
(* (DnsVpnService.kt, AppBlockerService.kt).  Requests are handled on      *)
(* threads of their own, with no lock: load the list, change it, save it,  *)
(* send a broadcast.  A service loads the list when it starts and again    *)
(* for each broadcast it gets; starts, stops and broadcasts are run one at *)
(* a time by the main thread.                                              *)
(*                                                                         *)
(* SharedPreferences.apply changes the preferences at once and the file    *)
(* later.  A broadcast goes to the receivers registered when it is sent.   *)
(* An entry of the list is a domain, a package or a category.              *)
(***************************************************************************)
EXTENDS Naturals, Sequences, FiniteSets

CONSTANTS
  Conn,          \* the requests
  Entry,         \* domains, packages and categories
  Category,      \* the categories
  Service,       \* the VPN and the app blocker
  Cares,         \* the entries that each service blocks by
  KeepsReceiver, \* the services that stop without unregistering
  MayFail,       \* those whose start may fail after they have registered
  Command,       \* the requests' commands
  MaxToggles,    \* bound on starts and stops by the user
  MaxCrashes     \* bound on deaths of the process

Op == {"block", "unblock", "clear", "sync"}

ASSUME EntryAssumption ==
  /\ Category \subseteq Entry /\ IsFiniteSet(Conn) /\ "free" \notin Service
  /\ Cares \in [Service -> SUBSET (Entry \ Category)]
  /\ KeepsReceiver \subseteq Service /\ MayFail \subseteq Service
  /\ Command \subseteq [op : Op, entries : SUBSET Entry]
ASSUME BoundAssumption == MaxToggles \in Nat /\ MaxCrashes \in Nat

VARIABLES
  store, file,   \* the list in the preferences, and in their file
  flag, flagFile,\* the services switched on, likewise
  pc, command,   \* each request's handler
  local,         \* the list it has loaded or made
  answer,        \* "none", "ok", "lost"
  process,       \* "up" or "down"
  main,          \* "free", or the service that the main thread is starting
  intents,       \* each service's starts and stops that wait for it
  running,       \* the services that run
  registered,    \* those that get broadcasts
  pending,       \* broadcasts on their way to each service
  cache,         \* blockedDomains, blockedPackages
  toggles, crashes,
  stale,         \* history: requests whose list another one has replaced meanwhile
  missed         \* history: services that a broadcast has passed by as they started

preferences == <<store, file, flag, flagFile>>
requests == <<pc, command, local, answer>>
services == <<process, main, intents, running, registered, pending, cache>>
counters == <<toggles, crashes>>
history == <<stale, missed>>
vars == <<preferences, requests, services, counters, history>>

NoCommand == [op |-> "none", entries |-> {}]

TypeOK ==
  /\ store \subseteq Entry /\ file \subseteq Entry
  /\ flag \subseteq Service /\ flagFile \subseteq Service
  /\ pc \in [Conn -> {"idle", "start", "save", "notify", "done"}]
  /\ command \in [Conn -> Command \cup {NoCommand}]
  /\ local \in [Conn -> SUBSET Entry]
  /\ answer \in [Conn -> {"none", "ok", "lost"}]
  /\ process \in {"up", "down"}
  /\ main \in Service \cup {"free"}
  /\ intents \in [Service -> Seq({"start", "stop"})]
  /\ \A s \in Service : Len(intents[s]) <= MaxToggles + 2
  /\ running \subseteq registered /\ registered \subseteq Service
  /\ pending \in [Service -> 0..Cardinality(Conn)]
  /\ \A s \in Service : pending[s] > 0 => s \in registered
  /\ cache \in [Service -> SUBSET Entry]
  /\ \A s \in Service : cache[s] \subseteq Cares[s]
  /\ toggles \in 0..MaxToggles /\ crashes \in 0..MaxCrashes
  /\ stale \subseteq {c \in Conn : pc[c] = "save"} /\ missed \subseteq Service

Init ==
  /\ store = {} /\ file = {} /\ flag = {} /\ flagFile = {}
  /\ pc = [c \in Conn |-> "idle"] /\ command = [c \in Conn |-> NoCommand]
  /\ local = [c \in Conn |-> {}] /\ answer = [c \in Conn |-> "none"]
  /\ process = "up" /\ main = "free" /\ intents = [s \in Service |-> <<>>]
  /\ running = {} /\ registered = {}
  /\ pending = [s \in Service |-> 0] /\ cache = [s \in Service |-> {}]
  /\ toggles = 0 /\ crashes = 0 /\ stale = {} /\ missed = {}

-------------------------------------------------------------------------------
(***************************************************************************)
(* The control server                                                      *)
(***************************************************************************)
Transition(c, from, to) == process = "up" /\ pc[c] = from /\ pc' = [pc EXCEPT ![c] = to]
Quiet(c) == pc[c] \in {"idle", "done"}

Accept(c) ==
  /\ Transition(c, "idle", "start")
  /\ \E r \in Command : command' = [command EXCEPT ![c] = r]
  /\ UNCHANGED <<preferences, local, answer, services, counters, history>>

(* What a command makes of the list; unblock leaves the categories. *)
Changed(r, list) ==
  IF r.op = "block" THEN list \cup r.entries
  ELSE IF r.op = "unblock" THEN list \ (r.entries \ Category)
  ELSE IF r.op = "sync" THEN r.entries ELSE {}

(* Mutant of Load: the list is read from the file. *)
LoadFile(c) ==
  /\ Transition(c, "start", "save")
  /\ local' = [local EXCEPT ![c] = Changed(command[c], file)]
  /\ UNCHANGED <<preferences, command, answer, services, counters, history>>

Load(c) ==
  /\ Transition(c, "start", "save")
  /\ local' = [local EXCEPT ![c] = Changed(command[c], store)]
  /\ UNCHANGED <<preferences, command, answer, services, counters, history>>

Save(c) ==
  /\ Transition(c, "save", "notify")
  /\ store' = local[c] /\ local' = [local EXCEPT ![c] = {}]
  /\ stale' = {d \in Conn \ {c} : pc[d] = "save"}
  /\ UNCHANGED <<file, flag, flagFile, command, answer, services, counters, missed>>

Answered(c) ==
  /\ answer' = [answer EXCEPT ![c] = "ok"]
  /\ command' = [command EXCEPT ![c] = NoCommand]
Miss == missed' = IF main \in Service \ registered THEN missed \cup {main} ELSE missed

(* Mutant of Notify: no broadcast after the list is cleared. *)
NotifyNonempty(c) ==
  /\ Transition(c, "notify", "done")
  /\ pending' = [s \in Service |-> IF s \in registered /\ store # {}
                                     THEN pending[s] + 1 ELSE pending[s]]
  /\ Answered(c) /\ Miss
  /\ UNCHANGED <<preferences, local, process, main, intents, running,
                 registered, cache, counters, stale>>

Notify(c) ==
  /\ Transition(c, "notify", "done")
  /\ pending' = [s \in Service |-> IF s \in registered THEN pending[s] + 1 ELSE pending[s]]
  /\ Answered(c) /\ Miss
  /\ UNCHANGED <<preferences, local, process, main, intents, running,
                 registered, cache, counters, stale>>

(* The preferences get to their file. *)
Flush ==
  /\ process = "up" /\ <<file, flagFile>> # <<store, flag>>
  /\ file' = store /\ flagFile' = flag
  /\ UNCHANGED <<store, flag, requests, services, counters, history>>

-------------------------------------------------------------------------------
(***************************************************************************)
(* The main thread                                                         *)
(***************************************************************************)
(* MainActivity: the flag changes as soon as the start or stop is asked for. *)
Toggle(s, on) ==
  /\ process = "up" /\ main = "free" /\ toggles < MaxToggles
  /\ toggles' = toggles + 1
  /\ flag' = IF on THEN flag \cup {s} ELSE flag \ {s}
  /\ intents' = [intents EXCEPT ![s] = Append(@, IF on THEN "start" ELSE "stop")]
  /\ UNCHANGED <<store, file, flagFile, requests, process, main, running, registered,
                 pending, cache, crashes, history>>

SwitchOn(s) == s \notin flag /\ Toggle(s, TRUE)
SwitchOff(s) == s \in flag /\ Toggle(s, FALSE)

(* onStartCommand *)
Intent(s, action) ==
  /\ process = "up" /\ main = "free"
  /\ intents[s] # <<>> /\ Head(intents[s]) = action
  /\ intents' = [intents EXCEPT ![s] = Tail(@)]

Stop(s) ==
  /\ Intent(s, "stop")
  /\ running' = running \ {s}
  /\ IF s \in KeepsReceiver
       THEN UNCHANGED <<registered, pending>>
       ELSE registered' = registered \ {s} /\ pending' = [pending EXCEPT ![s] = 0]
  /\ UNCHANGED <<preferences, requests, process, main, cache, counters, history>>

(* A start loads the list first... *)
StartLoad(s) ==
  /\ Intent(s, "start") /\ s \notin running
  /\ main' = s /\ missed' = missed \ {s}
  /\ cache' = [cache EXCEPT ![s] = store \cap Cares[s]]
  /\ UNCHANGED <<preferences, requests, process, running, registered, pending, counters,
                 stale>>

(* ... and then registers for broadcasts; the VPN may not be established. *)
StartRegister(s) ==
  /\ process = "up" /\ main = s /\ main' = "free"
  /\ registered' = registered \cup {s}
  /\ running' = running \cup {s} \/ (s \in MayFail /\ running' = running)
  /\ UNCHANGED <<preferences, requests, process, intents, pending, cache, counters, history>>

StartAgain(s) ==
  /\ Intent(s, "start") /\ s \in running
  /\ UNCHANGED <<preferences, requests, process, main, running, registered, pending,
                 cache, counters, history>>

(* Mutant of Deliver: the broadcast finds what the service had. *)
DeliverNothing(s) ==
  /\ process = "up" /\ main = "free" /\ pending[s] > 0
  /\ pending' = [pending EXCEPT ![s] = @ - 1]
  /\ UNCHANGED <<preferences, requests, process, main, intents, running, registered, cache,
                 counters, history>>

(* A broadcast arrives: the list is loaded as it is now. *)
Deliver(s) ==
  /\ process = "up" /\ main = "free" /\ pending[s] > 0
  /\ pending' = [pending EXCEPT ![s] = @ - 1]
  /\ cache' = [cache EXCEPT ![s] = store \cap Cares[s]] /\ missed' = missed \ {s}
  /\ UNCHANGED <<preferences, requests, process, main, intents, running, registered,
                 counters, stale>>

(* The system ends the process, and starts it again later: what did not    *)
(* get to the file is lost, and what was switched on is started.           *)
Crash ==
  /\ process = "up" /\ crashes < MaxCrashes /\ crashes' = crashes + 1
  /\ process' = "down" /\ main' = "free"
  /\ intents' = [s \in Service |-> <<>>] /\ running' = {} /\ registered' = {}
  /\ pending' = [s \in Service |-> 0] /\ cache' = [s \in Service |-> {}]
  /\ store' = file /\ flag' = flagFile
  /\ pc' = [c \in Conn |-> IF pc[c] = "idle" THEN "idle" ELSE "done"]
  /\ answer' = [c \in Conn |-> IF Quiet(c) THEN answer[c] ELSE "lost"]
  /\ local' = [c \in Conn |-> {}] /\ command' = [c \in Conn |-> NoCommand]
  /\ stale' = {} /\ missed' = {}
  /\ UNCHANGED <<file, flagFile, toggles>>

(* AntidistractorApp; after a boot of the device BootReceiver asks again. *)
Boot ==
  /\ process = "down" /\ process' = "up"
  /\ \E starts \in {<<"start">>, <<"start", "start">>} :
       intents' = [s \in Service |-> IF s \in flag THEN starts ELSE <<>>]
  /\ UNCHANGED <<preferences, requests, main, running, registered, pending, cache, counters,
                 history>>

-------------------------------------------------------------------------------
Handle(c) == Load(c) \/ Save(c) \/ Notify(c)
MainThread(s) == StartLoad(s) \/ StartRegister(s) \/ StartAgain(s) \/ Stop(s) \/ Deliver(s)

Next ==
  \/ \E c \in Conn : Accept(c) \/ Handle(c)
  \/ \E s \in Service : SwitchOn(s) \/ SwitchOff(s) \/ MainThread(s)
  \/ Flush \/ Crash \/ Boot

Spec == Init /\ [][Next]_vars

(* Threads run on and the process is started again; the user may stay away. *)
FairSpec ==
  /\ Spec /\ WF_vars(Boot)
  /\ \A c \in Conn : WF_vars(Handle(c))
  /\ \A s \in Service : WF_vars(MainThread(s))

-------------------------------------------------------------------------------
(***************************************************************************)
(* Properties                                                              *)
(***************************************************************************)
(* Between requests and broadcasts every running service blocks by the     *)
(* list as it is, through switches, crashes and restarts; the one way out  *)
(* of step is a change as the service starts, after it has loaded the list *)
(* and before it has registered (onStartCommand).                          *)
Settled == process = "up" /\ main = "free" /\ \A c \in Conn : Quiet(c)
CachesFollowStore ==
  Settled => \A s \in running \ missed :
               pending[s] = 0 => cache[s] = store \cap Cares[s]

(* "/block appends": each change of the list is the effect of one command  *)
(* on the list as it was, or a crash.                                      *)
StoreChangesAtomically ==
  [][\/ \E c \in Conn : pc[c] = "save" /\ store' = Changed(command[c], store)
     \/ process' = "down"]_store

(* So it is where no request has loaded a list that another one has since  *)
(* replaced (handleBlock and the like take no lock).                       *)
UndisturbedChangesAreAtomic ==
  [][\/ \E c \in Conn : /\ pc[c] = "save" /\ pc'[c] = "notify"
                        /\ c \in stale \/ store' = Changed(command[c], store)
     \/ process' = "down"]_store

(* A service that runs and whose list has changed comes to block by it,    *)
(* unless it is stopped, or has missed the change as it started.           *)
ChangesReachServices ==
  \A s \in Service :
    s \in running \ missed ~> s \notin running \/ cache[s] = store \cap Cares[s]
===============================================================================
