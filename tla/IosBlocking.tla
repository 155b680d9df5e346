------------------------------ MODULE IosBlocking ------------------------------
(***************************************************************************)
(* The iOS library.  The control server (ControlServer.swift) handles the  *)
(* requests one at a time on its own queue, and runs each on the main      *)
(* thread (BlockingManager.swift); so do the app picker                    *)
(* (AppPickerManager.swift), by a task, and the app's launch.  Another     *)
(* process, the monitor (DeviceActivityMonitorExtension.swift), applies    *)
(* the saved list when a window of the schedule opens, and removes all     *)
(* restrictions when it closes.  The two share the saved state and the     *)
(* restrictions, without a lock, and change them one call at a time.       *)
(*                                                                         *)
(* A program is a sequence of such calls.  Each of the two processes runs  *)
(* one program at a time.  An app's token is written as the app; category  *)
(* ids are left out, their tokens are never found either.                  *)
(***************************************************************************)
EXTENDS Naturals, Sequences

CONSTANTS
  Domain, App,    \* what can be blocked
  Command,        \* the commands of the requests
  Window,         \* the windows of the schedule
  Approved,       \* the authorizations that the system may hold at first
  MaxRequests, MaxPicks, MaxCrashes, MaxWindows  \* bounds

Op == {"block", "unblock", "clear", "sync", "authorize", "status"}
List == [domains : SUBSET Domain, apps : SUBSET App]

ASSUME IosAssumption ==
  /\ Command \subseteq [op : Op, list : List]
  /\ Approved \subseteq BOOLEAN
ASSUME IosBounds ==
  /\ MaxRequests \in Nat /\ MaxPicks \in Nat /\ MaxCrashes \in Nat /\ MaxWindows \in Nat

VARIABLES
  saved, enabled, \* BlocklistStore
  selection,      \* the apps picked, as saved
  web, apps,      \* the restrictions: domains, tokens of apps
  approved,       \* the system's authorization
  authorized,     \* BlockingManager.isAuthorized
  blocking,       \* BlockingManager.isBlocking
  cached,         \* AppTokenCache
  request, phase, \* the request handled, and how far
  prompt,         \* whether the user is asked to authorize
  tasks,          \* the lists that tasks of the picker will apply
  app, program,   \* the app's process, what its main thread has to do
  open, monitor,  \* the windows open, what the monitor has to do
  requests, picks, crashes, windows,
  tardy,          \* history: the last program is of a task with a list of before
  lifted,         \* history: what was filtered has been let go since it was last applied
  mixed           \* history: both processes have been at work at the same time

stored == <<saved, enabled, selection>>
restrictions == <<web, apps>>
memory == <<authorized, blocking, cached>>
server == <<request, phase>>
counters == <<requests, picks, crashes, windows>>
history == <<tardy, lifted, mixed>>
vars == <<stored, restrictions, approved, memory, server, prompt, tasks, app, program,
          open, monitor, counters, history>>

Empty == [domains |-> {}, apps |-> {}]
Without(l, m) == [domains |-> l.domains \ m.domains, apps |-> l.apps \ m.apps]

Call(name, list) == [call |-> name, list |-> list]
Calls == [call : {"apps", "web", "save", "enable", "disable", "wipe", "pick"}, list : List]
NoCommand == [op |-> "none", list |-> Empty]

Mixed == mixed' = (mixed \/ (program' # <<>> /\ monitor' # <<>>))

TypeOK ==
  /\ saved \in List /\ enabled \in BOOLEAN /\ selection \subseteq App
  /\ web \subseteq Domain /\ apps \subseteq App
  /\ approved \in BOOLEAN /\ authorized \in BOOLEAN /\ blocking \in BOOLEAN
  /\ cached \subseteq App /\ (app = "up" => selection \subseteq cached)
  /\ request \in Command \cup {NoCommand} /\ phase \in {"none", "waits", "runs", "done"}
  /\ (phase = "none") <=> (request = NoCommand)
  /\ prompt \in BOOLEAN /\ tasks \in Seq(List) /\ Len(tasks) <= MaxPicks
  /\ app \in {"up", "down"} /\ program \in Seq(Calls) /\ Len(program) <= 9
  /\ open \subseteq Window /\ monitor \in Seq(Calls) /\ Len(monitor) <= 2
  /\ requests \in 0..MaxRequests /\ picks \in 0..MaxPicks
  /\ crashes \in 0..MaxCrashes /\ windows \in 0..MaxWindows
  /\ tardy \in BOOLEAN /\ lifted \in BOOLEAN /\ mixed \in BOOLEAN

Init ==
  /\ saved = Empty /\ enabled = FALSE /\ selection = {}
  /\ web = {} /\ apps = {}
  /\ approved \in Approved /\ authorized = approved /\ blocking = FALSE /\ cached = {}
  /\ request = NoCommand /\ phase = "none" /\ prompt = FALSE /\ tasks = <<>>
  /\ app = "up" /\ program = <<>> /\ open = {} /\ monitor = <<>>
  /\ requests = 0 /\ picks = 0 /\ crashes = 0 /\ windows = 0
  /\ tardy = FALSE /\ lifted = FALSE /\ mixed = FALSE

-------------------------------------------------------------------------------
(***************************************************************************)
(* BlockingManager                                                         *)
(***************************************************************************)
(* The keys of the token cache are hashes of tokens, not bundle ids. *)
Key(token) == <<"hash", token>>
Tokens(ids) == {t \in cached : Key(t) \in ids}

(* Mutant of Applied: an empty filter is not set. *)
AppliedNonempty(list, allowed) ==
  IF ~allowed THEN <<>>
  ELSE <<Call("apps", list)>>
       \o (IF list.domains = {} THEN <<>> ELSE <<Call("web", list)>>)
       \o <<Call("save", list), Call("enable", list)>>

(* applyBlocklist: nothing, not even saving, without authorization. *)
Applied(list, allowed) ==
  IF ~allowed THEN <<>>
  ELSE <<Call("apps", list), Call("web", list), Call("save", list), Call("enable", list)>>

ApplyBlocklist(list) == Applied(list, authorized)

ClearBlocklist == <<Call("wipe", Empty), Call("save", Empty), Call("disable", Empty)>>

(* Mutant of BlockProgram: one list is loaded for both steps. *)
BlockStale(l) ==
  LET withDomains == [saved EXCEPT !.domains = @ \cup l.domains]
      withApps == [saved EXCEPT !.apps = @ \cup l.apps]
  IN (IF l.domains = {} THEN <<>> ELSE ApplyBlocklist(withDomains))
     \o (IF l.apps = {} THEN <<>>
         ELSE <<Call("save", withApps)>> \o ApplyBlocklist(withApps))

(* addDomains, then addBundleIDs on what that has saved.  The ids are      *)
(* saved before they are applied.                                          *)
BlockProgram(l) ==
  LET withDomains == [saved EXCEPT !.domains = @ \cup l.domains]
      base == IF l.domains # {} /\ authorized THEN withDomains ELSE saved
      withApps == [base EXCEPT !.apps = @ \cup l.apps]
  IN (IF l.domains = {} THEN <<>> ELSE ApplyBlocklist(withDomains))
     \o (IF l.apps = {} THEN <<>>
         ELSE <<Call("save", withApps)>> \o ApplyBlocklist(withApps))

(* removeDomains, removeBundleIDs: the second result is the whole one. *)
UnblockProgram(l) ==
  ApplyBlocklist([saved EXCEPT !.domains = @ \ l.domains])
  \o ApplyBlocklist(Without(saved, l))

SyncProgram(l) == ClearBlocklist \o (IF l = Empty THEN <<>> ELSE ApplyBlocklist(l))

(* A call of the main thread. *)
Do(c) ==
  /\ saved' = IF c.call = "save" THEN c.list ELSE saved
  /\ enabled' = IF c.call = "enable" THEN TRUE
                ELSE IF c.call = "disable" THEN FALSE ELSE enabled
  /\ blocking' = IF c.call \in {"enable", "disable"} THEN enabled' ELSE blocking
  /\ web' = IF c.call = "web" THEN c.list.domains ELSE IF c.call = "wipe" THEN {} ELSE web
  /\ apps' = IF c.call = "apps" THEN Tokens(c.list.apps)
             ELSE IF c.call = "wipe" THEN {} ELSE apps

Main ==
  /\ app = "up" /\ program # <<>>
  /\ Do(Head(program)) /\ program' = Tail(program)
  /\ phase' = IF phase = "runs" /\ Len(program) = 1 THEN "done" ELSE phase
  /\ lifted' = (lifted /\ Head(program).call # "web")
  /\ UNCHANGED <<selection, approved, authorized, cached, request, prompt, tasks, app, open,
                 monitor, counters, tardy>>
  /\ Mixed

-------------------------------------------------------------------------------
(***************************************************************************)
(* ControlServer                                                           *)
(***************************************************************************)
Accept ==
  /\ app = "up" /\ phase = "none" /\ requests < MaxRequests
  /\ request' \in Command /\ phase' = "waits" /\ requests' = requests + 1
  /\ UNCHANGED <<stored, restrictions, approved, memory, prompt, tasks, app, program, open,
                 monitor, picks, crashes, windows, history>>

Program(r) ==
  IF r.op = "block" THEN BlockProgram(r.list)
  ELSE IF r.op = "unblock" THEN UnblockProgram(r.list)
  ELSE IF r.op = "sync" THEN SyncProgram(r.list)
  ELSE IF r.op = "clear" THEN ClearBlocklist ELSE <<>>

(* DispatchQueue.main.sync.  status checks the authorization, authorize    *)
(* has the user asked for it.                                              *)
Begin ==
  /\ app = "up" /\ phase = "waits" /\ program = <<>>
  /\ program' = Program(request) /\ tardy' = FALSE
  /\ phase' = IF program' = <<>> THEN "done" ELSE "runs"
  /\ authorized' = IF request.op = "status" THEN approved ELSE authorized
  /\ prompt' = (prompt \/ request.op = "authorize")
  /\ UNCHANGED <<stored, restrictions, approved, blocking, cached, request, tasks, app,
                 open, monitor, counters, lifted>>
  /\ Mixed

Reply ==
  /\ app = "up" /\ phase = "done"
  /\ request' = NoCommand /\ phase' = "none"
  /\ UNCHANGED <<stored, restrictions, approved, memory, prompt, tasks, app, program, open,
                 monitor, counters, history>>

(* The user answers. *)
Authorize ==
  /\ app = "up" /\ prompt /\ program = <<>>
  /\ prompt' = FALSE
  /\ \E granted \in BOOLEAN : approved' = granted /\ authorized' = granted
  /\ UNCHANGED <<stored, restrictions, blocking, cached, server, tasks, app, program, open,
                 monitor, counters, history>>

-------------------------------------------------------------------------------
(***************************************************************************)
(* AppPickerManager, the app's launch                                      *)
(***************************************************************************)
(* applySelection: the task has the list of now. *)
Pick ==
  /\ app = "up" /\ program = <<>> /\ picks < MaxPicks
  /\ picks' = picks + 1
  /\ selection' \in SUBSET App /\ cached' = cached \cup selection'
  /\ tasks' = Append(tasks, saved)
  /\ UNCHANGED <<saved, enabled, restrictions, approved, authorized, blocking, server,
                 prompt, app, program, open, monitor, requests, crashes, windows, history>>

RunTask ==
  /\ app = "up" /\ program = <<>> /\ tasks # <<>>
  /\ program' = ApplyBlocklist(Head(tasks)) /\ tasks' = Tail(tasks)
  /\ tardy' = (Head(tasks) # saved)
  /\ UNCHANGED <<stored, restrictions, approved, memory, server, prompt, app, open, monitor,
                 counters, lifted>>
  /\ Mixed

Crash ==
  /\ app = "up" /\ crashes < MaxCrashes /\ crashes' = crashes + 1
  /\ app' = "down" /\ program' = <<>> /\ tasks' = <<>> /\ prompt' = FALSE
  /\ request' = NoCommand /\ phase' = "none"
  /\ UNCHANGED <<stored, restrictions, approved, memory, open, monitor, requests, picks,
                 windows, history>>

(* Mutant of Launch: what was saved is not applied. *)
LaunchIdle ==
  /\ app = "down" /\ app' = "up"
  /\ lifted' = (lifted \/ (enabled /\ ~approved))
  /\ authorized' = approved /\ blocking' = enabled /\ cached' = selection
  /\ UNCHANGED <<stored, restrictions, approved, server, prompt, tasks, program, open,
                 monitor, counters, tardy>>
  /\ Mixed

(* setup *)
Launch ==
  /\ app = "down" /\ app' = "up"
  /\ lifted' = (lifted \/ (enabled /\ ~approved))
  /\ authorized' = approved /\ blocking' = enabled /\ cached' = selection
  /\ program' = IF enabled /\ saved # Empty THEN Applied(saved, approved) ELSE <<>>
  /\ UNCHANGED <<stored, restrictions, approved, server, prompt, tasks, open, monitor,
                 counters, tardy>>
  /\ Mixed

-------------------------------------------------------------------------------
(***************************************************************************)
(* The monitor                                                             *)
(***************************************************************************)
(* intervalDidStart: the monitor reads the list, and then applies it, and  *)
(* the apps picked by then; what is empty is left as it is.                *)
IntervalDidStart(w) ==
  /\ w \notin open /\ monitor = <<>> /\ windows < MaxWindows
  /\ windows' = windows + 1 /\ open' = open \cup {w}
  /\ monitor' = IF ~enabled THEN <<Call("wipe", Empty)>>
                ELSE (IF saved.domains = {} THEN <<>> ELSE <<Call("web", saved)>>)
                     \o <<Call("pick", Empty)>>
  /\ UNCHANGED <<stored, restrictions, approved, memory, server, prompt, tasks, app,
                 program, requests, picks, crashes, tardy, lifted>>
  /\ Mixed

IntervalDidEnd(w) ==
  /\ w \in open /\ monitor = <<>>
  /\ open' = open \ {w} /\ monitor' = <<Call("wipe", Empty)>> /\ lifted' = TRUE
  /\ UNCHANGED <<stored, restrictions, approved, memory, server, prompt, tasks, app,
                 program, counters, tardy>>
  /\ Mixed

Monitor ==
  /\ monitor # <<>> /\ monitor' = Tail(monitor)
  /\ lifted' = (lifted /\ Head(monitor).call # "web")
  /\ LET c == Head(monitor)
     IN /\ web' = IF c.call = "web" THEN c.list.domains
                  ELSE IF c.call = "wipe" THEN {} ELSE web
        /\ apps' = IF c.call = "pick" /\ selection # {} THEN selection
                   ELSE IF c.call = "wipe" THEN {} ELSE apps
  /\ UNCHANGED <<stored, approved, memory, server, prompt, tasks, app, program, open,
                 counters, tardy>>
  /\ Mixed

Next ==
  \/ Main \/ Accept \/ Begin \/ Reply \/ Authorize \/ Pick \/ RunTask \/ Crash \/ Launch
  \/ \E w \in Window : IntervalDidStart(w) \/ IntervalDidEnd(w)
  \/ Monitor

Spec == Init /\ [][Next]_vars

-------------------------------------------------------------------------------
(***************************************************************************)
(* Properties                                                              *)
(***************************************************************************)
Quiet == app = "up" /\ program = <<>> /\ monitor = <<>>

(* What is listed is filtered, once blocking is enabled, with or without   *)
(* authorization by then: so it is again after a crash in the middle of a  *)
(* change and a launch, and while a window is open.  It is not after the   *)
(* end of a window (intervalDidEnd clears, and leaves the flag), a launch  *)
(* without authorization, and changes of the two processes at the same     *)
(* time.                                                                   *)
ListedIsFiltered ==
  Quiet /\ enabled /\ saved.domains # {} /\ ~lifted /\ ~mixed
    => web = saved.domains

(* Nothing else is filtered, unless a change was cut short by a crash or   *)
(* the two processes worked at the same time (applyBlocklist sets an empty *)
(* filter too).                                                            *)
UnlistedIsFree == Quiet /\ crashes = 0 /\ ~mixed => web \subseteq saved.domains

(* A domain leaves the list only by a request that removes, or by a task   *)
(* of the picker that applies a list from before the last change           *)
(* (applySelection).                                                       *)
DomainsLeaveByRequest ==
  [][\/ saved.domains \subseteq saved'.domains
     \/ phase = "runs" /\ request.op \in {"unblock", "clear", "sync"}
     \/ tardy]_saved

(* When block or sync is done, with authorization, its list is saved       *)
(* (handleBlock: what addDomains saves is what addBundleIDs goes on from). *)
AcceptedIsSaved ==
  [][/\ phase = "runs" /\ phase' = "done" /\ authorized
     /\ request.op \in {"block", "sync"}
     => request.list.domains \subseteq saved'.domains]_phase
===============================================================================
