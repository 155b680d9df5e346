------------------------------- MODULE MacHosts -------------------------------
(***************************************************************************)
(* Domain blocking on macOS: PfBlocker keeps a set of domains and rewrites *)
(* its block of /etc/hosts after each change (macos/pf_blocker.rs); the    *)
(* daemon adds its default list and answers commands (main.rs,             *)
(* control_server.rs).  Its four mutexes are taken one by one, and let go  *)
(* as their guards are dropped, at the latest when the handler returns; a  *)
(* guard that lives for one statement is one step.  The mutex of the       *)
(* freezer, under which nothing is taken, is left out.                     *)
(*                                                                         *)
(* /etc/hosts has other writers: it is read, and some time later the file  *)
(* that replaces it is renamed into its place.  The terminal interface     *)
(* (ui.rs), another process, has a PfBlocker of its own, which replaces    *)
(* the same block by its own set; both write the same temporary file.      *)
(* Reading and writing may fail, and the daemon may be killed at any step. *)
(*                                                                         *)
(* The list of dynamic domains is a set here; it is used as one.  A        *)
(* handler that has its command runs to its end without an await, so that  *)
(* the shutdown of the runtime waits for it.                               *)
(***************************************************************************)
EXTENDS Naturals

CONSTANTS
  Conn,          \* the connections, one command each
  Main,          \* the main task of the daemon
  Nobody,
  Domain,        \* the domains
  SuffixKey,     \* those that begin with a dot
  Default,       \* DEFAULT_BLOCKLIST
  Shown,         \* the list a terminal interface begins with
  Command,       \* the commands that clients send
  Line,          \* lines of /etc/hosts outside the block
  Before,        \* those that are in it from the first
  MaxFailures,   \* bound on failed reads and writes of /etc/hosts
  MaxEdits,      \* bound on lines that others add to it
  MaxStops,      \* bound on the daemon's ends
  MaxChanges     \* bound on starts and changes of the terminal interface

Agent == Conn \cup {Main}
Mutex == {"pf", "dynamic", "focus", "apps"}
Op == {"block", "unblock", "sync", "focus_on", "focus_off", "block_app", "status"}

ASSUME AgentAssumption == Main \notin Conn /\ Nobody \notin Agent
ASSUME DomainAssumption ==
  /\ SuffixKey \subseteq Domain /\ Default \subseteq Domain \ SuffixKey
  /\ Shown \subseteq Domain \ SuffixKey
  /\ Command \subseteq [op : Op, domains : SUBSET Domain]
ASSUME LineAssumption == Before \subseteq Line
ASSUME BoundAssumption ==
  MaxFailures \in Nat /\ MaxEdits \in Nat /\ MaxStops \in Nat /\ MaxChanges \in Nat

VARIABLES
  blocked,       \* PfBlocker.blocked_domains
  listed,        \* dynamic_blocked
  focus,         \* focus_mode_active
  lock,          \* who holds each mutex
  own, lines,    \* /etc/hosts: the domains of the block, the other lines
  daemon,        \* "starting", "up", "stopping", "draining", "down"
  pc, command,
  removes, adds, \* domains of the command still to be removed and added
  current,       \* the domain whose change is being written
  seen,          \* the other lines as the rewrite has read them
  added, failed, \* the domains added, and whether one failed
  answer,        \* "none", "ok", "error", "lost"
  tui,           \* the terminal interface: "closed", "open", "read", "write"
  screen,        \* its PfBlocker.blocked_domains
  toShow,        \* what it has yet to add of its first list
  tuiSeen,       \* the other lines as its rewrite has read them
  torn,          \* the two may have shared the temporary file
  writer,        \* history: whose set the block was made from, if it still
                 \* is: "daemon", "terminal", "none"
  sound,         \* history: no rewrite of the daemon failed since its start
  settled,       \* history: the other lines, but those added during a rewrite,
                 \* or before one that could not read the file or shared its
                 \* temporary file
  failures, edits, stops, changes

memory == <<blocked, listed, focus>>
hosts == <<own, lines>>
work == <<removes, adds, current, seen, added, failed>>
terminal == <<tui, screen, toShow, tuiSeen>>
counters == <<failures, edits, stops, changes>>
history == <<writer, sound, settled>>
file == <<hosts, torn, history>>
vars == <<memory, lock, file, daemon, pc, command, work, answer, terminal, counters>>

NoCommand == [op |-> "status", domains |-> {}]
PC == {"idle", "start", "flag", "dynamic", "work", "read", "write", "list", "focus", "names",
       "apps", "disable", "done"}

TypeOK ==
  /\ blocked \subseteq Domain \ SuffixKey /\ listed \subseteq Domain /\ focus \in BOOLEAN
  /\ lock \in [Mutex -> Agent \cup {Nobody}]
  /\ own \subseteq Domain \ SuffixKey /\ lines \subseteq Line
  /\ daemon \in {"starting", "up", "stopping", "draining", "down"}
  /\ pc \in [Agent -> PC] /\ command \in [Conn -> Command \cup {NoCommand}]
  /\ removes \subseteq Domain /\ adds \subseteq Domain
  /\ current \in Domain \cup {Nobody}
  /\ seen \subseteq Line /\ added \subseteq Domain /\ failed \in BOOLEAN
  /\ answer \in [Conn -> {"none", "ok", "error", "lost"}]
  /\ tui \in {"closed", "open", "read", "write"} /\ screen \subseteq Domain \ SuffixKey
  /\ toShow \subseteq Shown /\ tuiSeen \subseteq Line /\ torn \in BOOLEAN
  /\ writer \in {"daemon", "terminal", "none"} /\ sound \in BOOLEAN /\ settled \subseteq Line
  /\ failures \in 0..MaxFailures /\ edits \in 0..MaxEdits /\ stops \in 0..MaxStops
  /\ changes \in 0..MaxChanges

Unlocked == [m \in Mutex |-> Nobody]

(* The daemon adds its default list under the lock before the first        *)
(* command; what a daemon before it left in /etc/hosts is still there.     *)
Starting ==
  /\ blocked' = {} /\ listed' = {} /\ focus' = FALSE
  /\ lock' = [Unlocked EXCEPT !["pf"] = Main] /\ daemon' = "starting" /\ sound' = TRUE
  /\ removes' = {} /\ adds' = Default /\ current' = Nobody
  /\ seen' = {} /\ added' = {} /\ failed' = FALSE

Init ==
  /\ blocked = {} /\ listed = {} /\ focus = FALSE
  /\ lock = [Unlocked EXCEPT !["pf"] = Main] /\ daemon = "starting" /\ sound = TRUE
  /\ removes = {} /\ adds = Default /\ current = Nobody
  /\ seen = {} /\ added = {} /\ failed = FALSE
  /\ own = {} /\ lines = Before /\ settled = Before
  /\ pc = [a \in Agent |-> IF a = Main THEN "work" ELSE "idle"]
  /\ command = [c \in Conn |-> NoCommand]
  /\ answer = [c \in Conn |-> "none"]
  /\ tui = "closed" /\ screen = {} /\ toShow = {} /\ tuiSeen = {}
  /\ torn = FALSE /\ writer = "none"
  /\ failures = 0 /\ edits = 0 /\ stops = 0 /\ changes = 0

-------------------------------------------------------------------------------
Transition(a, from, to) == pc[a] = from /\ pc' = [pc EXCEPT ![a] = to]

(* std::sync::Mutex: lock(), and what remains when a handler returns. *)
Take(a, m) == lock[m] = Nobody /\ lock' = [lock EXCEPT ![m] = a]
Released(a) == [m \in Mutex |-> IF lock[m] = a THEN Nobody ELSE lock[m]]

-------------------------------------------------------------------------------
(***************************************************************************)
(* /etc/hosts, rewritten by the daemon and by the terminal interface       *)
(***************************************************************************)
DaemonWrites == pc[Main] = "disable" \/ \E a \in Agent : pc[a] = "write"
TuiWrites == tui = "write"
Rewriting == DaemonWrites \/ TuiWrites

(* Whoever loses its set's place in the file, or replaces it, by a failure *)
(* or a start.                                                             *)
NoLonger(w) == writer' = IF writer = w THEN "none" ELSE writer

Replace(w, domains, others) ==
  own' = domains /\ lines' = others /\ writer' = w /\ UNCHANGED settled

(* Two writers of one temporary file: what the rename brings in may be the *)
(* other's text, parts of both or nothing yet, and the file may have been  *)
(* renamed by the other, who may have had this one's text in it.           *)
ReplaceTorn ==
  /\ \/ own' \in SUBSET (blocked \cup screen) /\ lines' \in SUBSET (seen \cup tuiSeen)
     \/ UNCHANGED hosts
  /\ writer' = "none" /\ settled' = {}

(***************************************************************************)
(* PfBlocker, in the hands of the agent that holds its lock                *)
(***************************************************************************)
(* remove_domain: an unknown domain is no change. *)
Remove(a) ==
  /\ pc[a] = "work" /\ \E d \in removes :
       /\ removes' = removes \ {d} /\ blocked' = blocked \ {d}
       /\ IF d \in blocked
            THEN current' = d /\ pc' = [pc EXCEPT ![a] = "read"]
            ELSE UNCHANGED <<current, pc>>
  /\ UNCHANGED <<listed, focus, lock, file, daemon, command, adds, seen, added, failed,
                 answer, terminal, counters>>

(* add_domain: a suffix key or a known domain is a success without change. *)
AddKnown(a) ==
  /\ pc[a] = "work" /\ removes = {}
  /\ \E d \in adds \cap (SuffixKey \cup blocked) :
       adds' = adds \ {d} /\ added' = added \cup {d}
  /\ UNCHANGED <<memory, lock, file, daemon, pc, command, removes, current, seen, failed,
                 answer, terminal, counters>>

Add(a) ==
  /\ Transition(a, "work", "read") /\ removes = {}
  /\ \E d \in adds \ (SuffixKey \cup blocked) :
       /\ adds' = adds \ {d} /\ blocked' = blocked \cup {d} /\ current' = d
       /\ added' = added \cup {d}
  /\ UNCHANGED <<listed, focus, lock, file, daemon, command, removes, seen, failed,
                 answer, terminal, counters>>

(* Mutant of ReadHosts: what was there at first is taken again.       *)
ReadOnce(a) ==
  /\ Transition(a, "read", "write")
  /\ seen' = lines \cap Before
  /\ UNCHANGED <<memory, lock, file, daemon, command, removes, adds, current, added,
                 failed, answer, terminal, counters>>

(* update_hosts_file: the file without the block... *)
ReadHosts(a) ==
  /\ Transition(a, "read", "write")
  /\ seen' = lines
  /\ UNCHANGED <<memory, lock, file, daemon, command, removes, adds, current, added,
                 failed, answer, terminal, counters>>

(* Mutant of WriteHosts: the domains are added to the block as it is. *)
WriteMore(a) ==
  /\ Transition(a, "write", "work") /\ ~TuiWrites /\ ~torn
  /\ Replace("daemon", own \cup blocked, seen)
  /\ seen' = {} /\ current' = Nobody
  /\ UNCHANGED <<memory, lock, torn, sound, daemon, command, removes, adds, added, failed,
                 answer, terminal, counters>>

(* Mutant of WriteHosts: the block is made before the set is changed. *)
WriteBefore(a) ==
  /\ Transition(a, "write", "work") /\ ~TuiWrites /\ ~torn
  /\ Replace("daemon", blocked \ {current}, seen)
  /\ seen' = {} /\ current' = Nobody
  /\ UNCHANGED <<memory, lock, torn, sound, daemon, command, removes, adds, added, failed,
                 answer, terminal, counters>>

(* ... and a new block of all domains. *)
WriteHosts(a) ==
  /\ Transition(a, "write", "work") /\ ~TuiWrites /\ ~torn
  /\ Replace("daemon", blocked, seen)
  /\ seen' = {} /\ current' = Nobody
  /\ UNCHANGED <<memory, lock, torn, sound, daemon, command, removes, adds, added, failed,
                 answer, terminal, counters>>

WriteTorn(a) ==
  /\ Transition(a, "write", "work") /\ (TuiWrites \/ torn) /\ torn' = TuiWrites
  /\ ReplaceTorn
  /\ seen' = {} /\ current' = Nobody
  /\ UNCHANGED <<memory, lock, sound, daemon, command, removes, adds, added, failed,
                 answer, terminal, counters>>

(* A failed read or write is an error of the domain, which only unblock    *)
(* reports of a removal; the set keeps its change, and the next domain     *)
(* has its turn.                                                           *)
ChangeFails(a) ==
  /\ failed' = (failed \/ current \in blocked \/ (a # Main /\ command[a].op = "unblock"))
  /\ sound' = FALSE
  /\ added' = added \ {current} /\ seen' = {} /\ current' = Nobody
  /\ UNCHANGED <<memory, lock, daemon, command, removes, adds, answer, terminal>>

HostsFail(a) ==
  /\ failures < MaxFailures /\ failures' = failures + 1
  /\ pc[a] \in {"read", "write"} /\ pc' = [pc EXCEPT ![a] = "work"]
  /\ torn' = IF pc[a] = "write" THEN TuiWrites ELSE torn
  /\ NoLonger("daemon") /\ ChangeFails(a)
  /\ UNCHANGED <<hosts, settled, edits, stops, changes>>

(* The other has renamed the temporary file of both. *)
RenameFails(a) ==
  /\ Transition(a, "write", "work") /\ (TuiWrites \/ torn) /\ torn' = TuiWrites
  /\ ReplaceTorn /\ ChangeFails(a)
  /\ UNCHANGED counters

-------------------------------------------------------------------------------
(***************************************************************************)
(* The control server                                                      *)
(***************************************************************************)
Accept(c) ==
  /\ daemon \in {"up", "stopping"}
  /\ Transition(c, "idle", "start")
  /\ \E r \in Command : command' = [command EXCEPT ![c] = r]
  /\ UNCHANGED <<memory, lock, file, daemon, work, answer, terminal, counters>>

(* Which domains the command removes and adds, as the list is now. *)
ToRemove(r) ==
  IF r.op = "unblock" THEN r.domains
  ELSE IF r.op \in {"sync", "focus_off"} THEN listed ELSE {}
ToAdd(r) == IF r.op \in {"block", "sync", "focus_on"} THEN r.domains ELSE {}

(* The loop over the domains begins. *)
Begin(c) ==
  /\ removes' = ToRemove(command[c]) /\ adds' = ToAdd(command[c])
  /\ added' = {} /\ failed' = FALSE
  /\ UNCHANGED <<current, seen>>

(* block and unblock work under the lock of PfBlocker alone, sync takes    *)
(* the list's before, focus_mode the flag's and then the list's.           *)
TakePf(c) ==
  /\ pc[c] = "start" /\ Take(c, "pf")
  /\ \/ /\ command[c].op \in {"block", "unblock"}
        /\ pc' = [pc EXCEPT ![c] = "work"] /\ Begin(c)
     \/ /\ command[c].op = "sync"
        /\ pc' = [pc EXCEPT ![c] = "dynamic"] /\ UNCHANGED work
     \/ /\ command[c].op \in {"focus_on", "focus_off"}
        /\ pc' = [pc EXCEPT ![c] = "flag"] /\ UNCHANGED work
  /\ UNCHANGED <<memory, file, daemon, command, answer, terminal, counters>>

TakeFlag(c) ==
  /\ Transition(c, "flag", "dynamic") /\ Take(c, "focus")
  /\ UNCHANGED <<memory, file, daemon, command, work, answer, terminal, counters>>

TakeDynamic(c) ==
  /\ Transition(c, "dynamic", "work") /\ Take(c, "dynamic") /\ Begin(c)
  /\ UNCHANGED <<memory, file, daemon, command, answer, terminal, counters>>

(* The set of applications: of block_app alone, of sync when its domains   *)
(* are done, of status at its end.  Its content is not modelled here.      *)
Worked(c) == pc[c] = "work" /\ removes = {} /\ adds = {}

TakeApps(c) ==
  /\ \/ command[c].op = "block_app" /\ pc[c] = "start"
     \/ command[c].op = "sync" /\ Worked(c)
     \/ command[c].op = "status" /\ pc[c] = "names"
  /\ pc' = [pc EXCEPT ![c] = "apps"] /\ Take(c, "apps")
  /\ UNCHANGED <<memory, file, daemon, command, work, answer, terminal, counters>>

(* Mutant of Relist: unblock leaves the list as it is. *)
RelistKept(r) ==
  IF r.op \in {"sync", "focus_off"} THEN added ELSE listed \cup added

(* Mutant of Relist: sync goes on with the list as it was. *)
RelistNothing(r) ==
  IF r.op = "unblock" THEN listed \ r.domains
  ELSE IF r.op \in {"sync", "focus_off"} THEN listed \cap added ELSE listed \cup added

(* The list of dynamic domains after the command. *)
Relist(r) ==
  IF r.op = "unblock" THEN listed \ r.domains
  ELSE IF r.op \in {"sync", "focus_off"} THEN added ELSE listed \cup added

(* block and unblock take the list's lock now, for one statement. *)
Finish(c) ==
  /\ \/ command[c].op \in {"block", "unblock"} /\ Worked(c) /\ lock["dynamic"] = Nobody
     \/ command[c].op \in {"focus_on", "focus_off"} /\ Worked(c)
     \/ command[c].op = "sync" /\ pc[c] = "apps"
  /\ pc' = [pc EXCEPT ![c] = "done"] /\ lock' = Released(c)
  /\ listed' = Relist(command[c])
  /\ focus' = IF command[c].op \in {"focus_on", "focus_off"}
                THEN command[c].op = "focus_on" ELSE focus
  /\ answer' = [answer EXCEPT ![c] =
                  IF failed /\ command[c].op \in {"block", "unblock", "sync"}
                    THEN "error" ELSE "ok"]
  /\ UNCHANGED <<blocked, file, daemon, command, work, terminal, counters>>

(* Mutant of StatusList: the guard of the list lives as long as its name. *)
StatusListHeld(c) ==
  /\ command[c].op = "status" /\ Take(c, "dynamic")
  /\ Transition(c, "start", "list")
  /\ UNCHANGED <<memory, file, daemon, command, work, answer, terminal, counters>>

(* status reads under one lock after the other: the list, the flag, the    *)
(* set of PfBlocker...                                                     *)
StatusList(c) ==
  /\ command[c].op = "status" /\ lock["dynamic"] = Nobody
  /\ Transition(c, "start", "list")
  /\ UNCHANGED <<memory, lock, file, daemon, command, work, answer, terminal, counters>>

StatusFocus(c) ==
  /\ lock["focus"] = Nobody
  /\ Transition(c, "list", "focus")
  /\ UNCHANGED <<memory, lock, file, daemon, command, work, answer, terminal, counters>>

StatusSet(c) ==
  /\ lock["pf"] = Nobody
  /\ Transition(c, "focus", "names")
  /\ UNCHANGED <<memory, lock, file, daemon, command, work, answer, terminal, counters>>

(* ... and the applications.  block_app, too, ends with them. *)
Reply(c) ==
  /\ command[c].op \in {"block_app", "status"}
  /\ Transition(c, "apps", "done") /\ lock' = Released(c)
  /\ answer' = [answer EXCEPT ![c] = "ok"]
  /\ UNCHANGED <<memory, file, daemon, command, work, terminal, counters>>

-------------------------------------------------------------------------------
(***************************************************************************)
(* The daemon's life                                                       *)
(***************************************************************************)
(* The default list is done, the control server starts. *)
Up ==
  /\ daemon = "starting" /\ daemon' = "up"
  /\ removes = {} /\ adds = {}
  /\ Transition(Main, "work", "idle") /\ lock' = Released(Main)
  /\ UNCHANGED <<memory, file, command, work, answer, terminal, counters>>

(* ctrl-c: the main task takes the lock as soon as it is free. *)
Interrupt ==
  /\ daemon = "up" /\ stops < MaxStops
  /\ daemon' = "stopping" /\ stops' = stops + 1
  /\ UNCHANGED <<memory, lock, file, pc, command, work, answer, terminal, failures, edits,
                 changes>>

(* disable: a file that cannot be read counts as an empty one... *)
DisableRead ==
  /\ daemon = "stopping" /\ Take(Main, "pf")
  /\ Transition(Main, "idle", "disable")
  /\ blocked' = {}
  /\ \/ seen' = lines /\ UNCHANGED <<failures, sound, settled>>
     \/ /\ failures < MaxFailures /\ failures' = failures + 1 /\ sound' = FALSE
        /\ seen' = {} /\ settled' = {}
  /\ UNCHANGED <<listed, focus, hosts, torn, writer, daemon, command, removes, adds, current,
                 added, failed, answer, terminal, edits, stops, changes>>

(* ... and one that cannot be written is left as it is. *)
DisableWrite ==
  /\ Transition(Main, "disable", "done")
  /\ daemon' = "draining" /\ lock' = Released(Main)
  /\ seen' = {} /\ torn' = TuiWrites
  /\ \/ ~TuiWrites /\ ~torn /\ Replace("daemon", {}, seen) /\ UNCHANGED <<failures, sound>>
     \/ (TuiWrites \/ torn) /\ ReplaceTorn /\ UNCHANGED <<failures, sound>>
     \/ /\ failures < MaxFailures /\ failures' = failures + 1 /\ sound' = FALSE
        /\ NoLonger("daemon") /\ UNCHANGED <<hosts, settled>>
  /\ UNCHANGED <<memory, command, removes, adds, current, added, failed, answer, terminal,
                 edits, stops, changes>>

Quiet(c) == pc[c] \in {"idle", "done"}

Exit ==
  /\ daemon = "draining" /\ \A c \in Conn : Quiet(c)
  /\ daemon' = "down"
  /\ UNCHANGED <<memory, lock, file, pc, command, work, answer, terminal, counters>>

(* SIGTERM has no handler: it ends the daemon like SIGKILL. *)
Kill ==
  /\ daemon # "down" /\ stops < MaxStops
  /\ daemon' = "down" /\ stops' = stops + 1
  /\ pc' = [a \in Agent |-> IF a \in Conn /\ ~Quiet(a) THEN "done"
                             ELSE IF a = Main THEN "idle" ELSE pc[a]]
  /\ answer' = [c \in Conn |-> IF Quiet(c) THEN answer[c] ELSE "lost"]
  /\ lock' = Unlocked
  /\ torn' = IF DaemonWrites THEN TuiWrites ELSE torn
  /\ UNCHANGED <<memory, hosts, command, work, terminal, history, failures, edits, changes>>

(* launchd starts it again. *)
Start ==
  /\ daemon = "down" /\ Starting
  /\ pc' = [pc EXCEPT ![Main] = "work"]
  /\ NoLonger("daemon")
  /\ UNCHANGED <<hosts, torn, command, answer, settled, terminal, counters>>

-------------------------------------------------------------------------------
(***************************************************************************)
(* The other writers of /etc/hosts                                         *)
(***************************************************************************)
daemonVars == <<memory, lock, daemon, pc, command, work, answer>>

(* Someone adds a line of his own. *)
Edit ==
  /\ edits < MaxEdits /\ edits' = edits + 1
  /\ \E l \in Line \ lines :
       /\ lines' = lines \cup {l}
       /\ settled' = IF Rewriting THEN settled ELSE settled \cup {l}
  /\ UNCHANGED <<daemonVars, own, torn, writer, sound, terminal, failures, stops, changes>>

(* The terminal interface begins with an empty set and adds its first list *)
(* to it...                                                                *)
TuiStart ==
  /\ tui = "closed" /\ tui' = "open"
  /\ changes < MaxChanges /\ changes' = changes + 1
  /\ screen' = {} /\ toShow' = Shown
  /\ NoLonger("terminal")
  /\ UNCHANGED <<daemonVars, hosts, torn, sound, settled, tuiSeen, failures, edits, stops>>

TuiShow ==
  /\ tui = "open" /\ tui' = "read"
  /\ \E d \in toShow : toShow' = toShow \ {d} /\ screen' = screen \cup {d}
  /\ UNCHANGED <<daemonVars, file, tuiSeen, counters>>

(* ... then what the user adds, and takes away what he removes. *)
TuiChange ==
  /\ tui = "open" /\ toShow = {} /\ tui' = "read"
  /\ changes < MaxChanges /\ changes' = changes + 1
  /\ \/ \E d \in Domain \ (SuffixKey \cup screen) : screen' = screen \cup {d}
     \/ \E d \in screen : screen' = screen \ {d}
  /\ UNCHANGED <<daemonVars, file, toShow, tuiSeen, failures, edits, stops>>

TuiRead ==
  /\ tui = "read" /\ tui' = "write"
  /\ tuiSeen' = lines
  /\ UNCHANGED <<daemonVars, file, screen, toShow, counters>>

TuiWrite ==
  /\ tui = "write" /\ tui' = "open" /\ tuiSeen' = {}
  /\ torn' = DaemonWrites
  /\ \/ ~DaemonWrites /\ ~torn /\ Replace("terminal", screen, tuiSeen)
     \/ (DaemonWrites \/ torn) /\ ReplaceTorn
  /\ UNCHANGED <<daemonVars, sound, screen, toShow, counters>>

TuiFails ==
  /\ tui \in {"read", "write"} /\ tui' = "open" /\ tuiSeen' = {}
  /\ failures < MaxFailures /\ failures' = failures + 1
  /\ torn' = IF TuiWrites THEN DaemonWrites ELSE torn
  /\ NoLonger("terminal")
  /\ UNCHANGED <<daemonVars, hosts, sound, settled, screen, toShow, edits, stops, changes>>

(* Its end, at any step, leaves /etc/hosts as it is. *)
TuiEnd ==
  /\ tui # "closed" /\ tui' = "closed" /\ toShow' = {} /\ tuiSeen' = {}
  /\ torn' = IF TuiWrites THEN DaemonWrites ELSE torn
  /\ UNCHANGED <<daemonVars, hosts, history, screen, counters>>

-------------------------------------------------------------------------------
Rewrite(a) ==
  \/ Remove(a) \/ AddKnown(a) \/ Add(a)
  \/ ReadHosts(a) \/ WriteHosts(a) \/ WriteTorn(a) \/ HostsFail(a) \/ RenameFails(a)

Handle(c) ==
  \/ TakePf(c) \/ TakeFlag(c) \/ TakeDynamic(c) \/ TakeApps(c)
  \/ Rewrite(c) \/ Finish(c)
  \/ StatusList(c) \/ StatusFocus(c) \/ StatusSet(c) \/ Reply(c)

MainStep == (daemon = "starting" /\ Rewrite(Main)) \/ Up \/ DisableRead \/ DisableWrite

Others == Edit \/ TuiStart \/ TuiShow \/ TuiChange \/ TuiRead \/ TuiWrite \/ TuiFails \/ TuiEnd

Next ==
  \/ \E c \in Conn : Accept(c) \/ Handle(c)
  \/ MainStep \/ Interrupt \/ Exit \/ Kill \/ Start
  \/ Others

Spec == Init /\ [][Next]_vars

(* Handlers and the main task run on: std::sync::Mutex promises no turn,   *)
(* but each holder lets it go, and the commands are finitely many.         *)
FairSpec == Spec /\ WF_vars(MainStep) /\ \A c \in Conn : WF_vars(Handle(c))

-------------------------------------------------------------------------------
(***************************************************************************)
(* Properties                                                              *)
(***************************************************************************)
(* The block of /etc/hosts says what the set of its last writer says: that *)
(* of the daemon whenever no command is at work, that of the terminal      *)
(* interface between its changes.  A failed rewrite suspends this until    *)
(* the next one succeeds, through kills in the middle of a rewrite and     *)
(* what an earlier daemon left there; so do two rewrites that share the    *)
(* temporary file.                                                         *)
HostsFollowSet ==
  /\ writer = "daemon" /\ daemon = "up" /\ lock["pf"] = Nobody => own = blocked
  /\ writer = "terminal" /\ tui = "open" => own = screen

(* What status lists, but for suffix keys, is in the set, even after       *)
(* rewrites that failed.                                                   *)
ListedAreBlocked ==
  daemon = "up" /\ lock["pf"] = Nobody => listed \ SuffixKey \subseteq blocked

(* What is blocked is on the default list, or listed so that sync and      *)
(* focus_off will find it, as long as every rewrite succeeded.             *)
NothingLeaks ==
  daemon = "up" /\ lock["pf"] = Nobody /\ sound => blocked \subseteq Default \cup listed

(* "Add a domain. Updates /etc/hosts immediately.": block answers ok only  *)
(* when its domains are in the file.                                       *)
Blocking(c) == pc[c] = "work" /\ command[c].op = "block"
BlockTakesEffect ==
  [][\A c \in Conn : Blocking(c) /\ pc'[c] = "done" /\ answer'[c] = "ok"
       => command[c].domains \ SuffixKey \subseteq own]_vars

(* It does while the daemon was the last to rewrite the file, without an   *)
(* error, be it for this command or for one after a failure; not if the    *)
(* terminal interface has replaced the block meanwhile.                    *)
SoundBlockTakesEffect ==
  [][\A c \in Conn : Blocking(c) /\ pc'[c] = "done" /\ answer'[c] = "ok" /\ writer = "daemon"
       => command[c].domains \ SuffixKey \subseteq own]_vars

(* The daemon and the terminal interface do not affect the other lines: no *)
(* rewrite loses a line that was added while none was at work, unless      *)
(* disable could not read, or both wrote the temporary file at once.       *)
OtherLinesKept == settled \subseteq lines

(* Every command is answered: no order of the four mutexes keeps one       *)
(* waiting, nor the main task that disables.                               *)
EveryCommandAnswered == \A c \in Conn : pc[c] = "start" ~> pc[c] = "done"
===============================================================================
