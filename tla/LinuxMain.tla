------------------------------- MODULE LinuxMain -------------------------------
(***************************************************************************)
(* The Linux program as a process on its interfaces: main.rs starts it as  *)
(* a daemon or as a terminal interface (ui.rs), both load the classifier   *)
(* and attach it (ebpf.rs), the daemon looks for new TUN interfaces every  *)
(* ten seconds, systemd and the guard start it again.  Both may run at the *)
(* same time, and interfaces come and go.                                  *)
(*                                                                         *)
(* Of the kernel: through netlink a program stays attached when its        *)
(* process is killed, and one is found and removed by its name, of which   *)
(* both processes use the same; with TCX (Linux 6.6) it is a link of the   *)
(* process and others are left alone.  aya takes what the kernel has.  A   *)
(* process that ends removes its own programs; with netlink it finds them  *)
(* by their place, where another's may be by then.                         *)
(***************************************************************************)
EXTENDS Naturals, Sequences, SequencesExt, FiniteSets

CONSTANTS
  Iface,         \* the interfaces
  Lo,            \* the loopback, always up
  Tun,           \* those that `ip link show type tun` lists
  Domain,        \* domains that the user types
  Initial,       \* what App::new blocks
  MaxChanges,    \* bound on interfaces that come or go
  MaxEnds,       \* bound on ends of a process
  MaxFailures,   \* bound on attachments that fail on an interface that is up
  MaxList        \* bound on the list on screen

Process == {"daemon", "tui"}
Fixed == Iface \ Tun

ASSUME InterfaceAssumption == Lo \in Iface \ Tun /\ Tun \subseteq Iface
ASSUME ScreenAssumption ==
  /\ Initial \in Seq(Domain) /\ Len(Initial) <= MaxList
  /\ \A i, j \in 1..Len(Initial) : i # j => Initial[i] # Initial[j]
ASSUME LimitAssumption ==
  MaxChanges \in Nat /\ MaxEnds \in Nat /\ MaxFailures \in Nat /\ MaxList \in Nat

VARIABLES
  kernel,        \* "netlink" or "tcx"
  up,            \* the interfaces that there are
  filters,       \* whose programs each one has: a process's, or an "orphan"
  phase,         \* of each process: "off", "load", "run", "poll"
  todo,          \* interfaces it has found and not yet turned to
  known,         \* attached (run_daemon): those it takes for attached
  got,           \* attached_count > 0
  screen,        \* App.blocklist
  map,           \* BLOCKLIST of the terminal interface
  lost,          \* history: attachments that failed at load, or were taken away
  doubled,       \* history: domains that have been on the screen twice
  changes, ends, failures

system == <<kernel, up, filters>>
process == <<phase, todo, known, got, lost>>
terminal == <<screen, map, doubled>>
counters == <<changes, ends, failures>>
vars == <<system, process, terminal, counters>>

TypeOK ==
  /\ kernel \in {"netlink", "tcx"}
  /\ up \in SUBSET Iface /\ Lo \in up
  /\ filters \in [Iface -> SUBSET (Process \cup {"orphan"})]
  /\ phase \in [Process -> {"off", "load", "run", "poll"}]
  /\ todo \in [Process -> SUBSET Iface] /\ known \in [Process -> SUBSET Iface]
  /\ lost \in [Process -> SUBSET Iface] /\ got \in [Process -> BOOLEAN]
  /\ screen \in Seq(Domain)
  /\ map \in SUBSET Domain /\ doubled \in SUBSET Domain
  /\ changes \in 0..MaxChanges /\ ends \in 0..MaxEnds /\ failures \in 0..MaxFailures

Init ==
  /\ kernel \in {"netlink", "tcx"} /\ up \in SUBSET Iface /\ Lo \in up
  /\ filters = [i \in Iface |-> {}]
  /\ phase = [p \in Process |-> "off"] /\ got = [p \in Process |-> FALSE]
  /\ todo = [p \in Process |-> {}] /\ known = [p \in Process |-> {}]
  /\ lost = [p \in Process |-> {}]
  /\ screen = <<>> /\ map = {} /\ doubled = {}
  /\ changes = 0 /\ ends = 0 /\ failures = 0

-------------------------------------------------------------------------------
(***************************************************************************)
(* Interfaces                                                              *)
(***************************************************************************)
Appear(i) ==
  /\ i \notin up /\ changes < MaxChanges /\ changes' = changes + 1
  /\ up' = up \cup {i}
  /\ UNCHANGED <<kernel, filters, process, terminal, ends, failures>>

(* An interface takes its programs with it. *)
Disappear(i) ==
  /\ i \in up \ {Lo} /\ changes < MaxChanges /\ changes' = changes + 1
  /\ up' = up \ {i} /\ filters' = [filters EXCEPT ![i] = {}]
  /\ lost' = [p \in Process |-> IF i \in known[p] THEN lost[p] \cup {i} ELSE lost[p]]
  /\ UNCHANGED <<kernel, phase, todo, known, got, terminal, ends, failures>>

-------------------------------------------------------------------------------
(***************************************************************************)
(* Loading and attaching                                                   *)
(***************************************************************************)
(* main: the interfaces are listed, those of the proxies with the others.  *)
Start(p) ==
  /\ phase[p] = "off"
  /\ phase' = [phase EXCEPT ![p] = "load"] /\ got' = [got EXCEPT ![p] = FALSE]
  /\ todo' = [todo EXCEPT ![p] = Fixed \cup (up \cap Tun)]
  /\ known' = [known EXCEPT ![p] = Fixed \cup (up \cap Tun)]
  /\ UNCHANGED <<system, lost, terminal, counters>>

StartDaemon == Start("daemon")
StartTui == Start("tui")

(* The program of the same name is detached, and then the own attached;    *)
(* that may fail, always so where the interface is gone.                   *)
Remaining(i) == IF kernel = "netlink" THEN {} ELSE filters[i]
Overtaken(p, i) == {q \in Process \ {p} : q \in filters[i] \ Remaining(i)}
Outcome(i, ok) ==
  IF i \notin up THEN ~ok /\ UNCHANGED failures
  ELSE IF ok THEN UNCHANGED failures
  ELSE failures < MaxFailures /\ failures' = failures + 1
Attach(p, i, ok) ==
  /\ i \in todo[p] /\ Outcome(i, ok)
  /\ todo' = [todo EXCEPT ![p] = @ \ {i}]
  /\ filters' = [filters EXCEPT ![i] = Remaining(i) \cup (IF ok THEN {p} ELSE {})]
  /\ UNCHANGED <<kernel, up, phase, terminal, changes, ends>>

(* Mutant of LoadAttach: the last interface decides. *)
LoadAttachLast(p, i, ok) ==
  /\ phase[p] = "load" /\ Attach(p, i, ok)
  /\ got' = [got EXCEPT ![p] = ok]
  /\ lost' = [q \in Process |->
                IF q \in Overtaken(p, i) \/ (q = p /\ ~ok) THEN lost[q] \cup {i} ELSE lost[q]]
  /\ UNCHANGED known

(* EbpfManager::load: a failure is a warning. *)
LoadAttach(p, i, ok) ==
  /\ phase[p] = "load" /\ Attach(p, i, ok)
  /\ got' = [got EXCEPT ![p] = @ \/ ok]
  /\ lost' = [q \in Process |->
                IF q \in Overtaken(p, i) \/ (q = p /\ ~ok) THEN lost[q] \cup {i} ELSE lost[q]]
  /\ UNCHANGED known

Off(p) ==
  /\ phase' = [phase EXCEPT ![p] = "off"] /\ got' = [got EXCEPT ![p] = FALSE]
  /\ todo' = [todo EXCEPT ![p] = {}] /\ known' = [known EXCEPT ![p] = {}]
DaemonLoaded ==
  /\ phase["daemon"] = "load" /\ todo["daemon"] = {}
  /\ IF got["daemon"]
       THEN phase' = [phase EXCEPT !["daemon"] = "run"] /\ UNCHANGED <<todo, known, got, lost>>
       ELSE Off("daemon") /\ lost' = [lost EXCEPT !["daemon"] = {}]
  /\ UNCHANGED <<system, terminal, counters>>

-------------------------------------------------------------------------------
(***************************************************************************)
(* The daemon's loop                                                       *)
(***************************************************************************)
(* Mutant of Tick: what is found is taken for attached at once. *)
TickKnows ==
  /\ phase["daemon"] = "run" /\ phase' = [phase EXCEPT !["daemon"] = "poll"]
  /\ todo' = [todo EXCEPT !["daemon"] = (up \cap Tun) \ known["daemon"]]
  /\ known' = [known EXCEPT !["daemon"] = @ \cup (up \cap Tun)]
  /\ UNCHANGED <<system, got, lost, terminal, counters>>

Tick ==
  /\ phase["daemon"] = "run" /\ phase' = [phase EXCEPT !["daemon"] = "poll"]
  /\ todo' = [todo EXCEPT !["daemon"] = (up \cap Tun) \ known["daemon"]]
  /\ UNCHANGED <<system, known, got, lost, terminal, counters>>

PollAttaches(i, ok, add) ==
  /\ phase["daemon"] = "poll" /\ Attach("daemon", i, ok)
  /\ known' = IF add THEN [known EXCEPT !["daemon"] = @ \cup {i}] ELSE known
  /\ lost' = [q \in Process |->
                IF q \in Overtaken("daemon", i) THEN lost[q] \cup {i} ELSE lost[q]]
  /\ UNCHANGED got

(* Mutant of PollAttach: where attaching has failed it is not tried again. *)
PollAttachOnce(i, ok) == PollAttaches(i, ok, TRUE)

(* attach_interface: what has failed is tried again at the next tick. *)
PollAttach(i, ok) == PollAttaches(i, ok, ok)

Polled ==
  /\ phase["daemon"] = "poll" /\ todo["daemon"] = {}
  /\ phase' = [phase EXCEPT !["daemon"] = "run"]
  /\ UNCHANGED <<system, todo, known, got, lost, terminal, counters>>

-------------------------------------------------------------------------------
(***************************************************************************)
(* The terminal interface                                                  *)
(***************************************************************************)
(* App::new: without a backend the list is shown all the same. *)
TuiLoaded ==
  /\ phase["tui"] = "load" /\ todo["tui"] = {}
  /\ phase' = [phase EXCEPT !["tui"] = "run"]
  /\ screen' = Initial /\ map' = IF got["tui"] THEN ToSet(Initial) ELSE {}
  /\ UNCHANGED <<system, todo, known, got, lost, doubled, counters>>

Typed(d) ==
  /\ phase["tui"] = "run" /\ Len(screen) < MaxList
  /\ UNCHANGED <<system, process, counters>>

(* Mutant of AddDomain: the list does not wait for the backend's answer. *)
AddDomainFirst(d) ==
  /\ Typed(d) /\ got["tui"]
  /\ screen' = Append(screen, d) /\ map' \in {map, map \cup {d}}
  /\ doubled' = IF d \in ToSet(screen) THEN doubled \cup {d} ELSE doubled

(* Enter: the domain is on the list if the backend has taken it, else the  *)
(* error is shown and nothing changes.                                     *)
AddDomain(d) ==
  /\ Typed(d) /\ got["tui"]
  /\ screen' = Append(screen, d) /\ map' = map \cup {d}
  /\ doubled' = IF d \in ToSet(screen) THEN doubled \cup {d} ELSE doubled

(* The last one leaves the list, whether the map has it or not. *)
RemoveDomain ==
  /\ phase["tui"] = "run" /\ screen # <<>>
  /\ screen' = Front(screen) /\ map' = map \ {Last(screen)}
  /\ UNCHANGED <<system, process, doubled, counters>>

-------------------------------------------------------------------------------
(***************************************************************************)
(* Ends                                                                    *)
(***************************************************************************)
Ended(p) ==
  /\ ends < MaxEnds /\ ends' = ends + 1
  /\ Off(p)
  /\ IF p = "tui" THEN screen' = <<>> /\ map' = {} /\ doubled' = {} ELSE UNCHANGED terminal
  /\ UNCHANGED <<kernel, up, changes, failures>>

(* An interrupt between two ticks, or 'q': the programs are dropped, each  *)
(* with its attachment or what has its place.                              *)
Finish(p) ==
  /\ phase[p] = "run" /\ Ended(p)
  /\ \E taken \in SUBSET {i \in known[p] : kernel = "netlink" /\ p \notin filters[i]} :
       /\ filters' = [i \in Iface |-> IF i \in taken THEN {} ELSE filters[i] \ {p}]
       /\ lost' = [q \in Process |->
                     IF q = p THEN {} ELSE lost[q] \cup {i \in taken : q \in filters[i]}]

(* A termination signal, which is not handled, or an interrupt while it    *)
(* loads: nothing is dropped.                                              *)
Kill(p) ==
  /\ phase[p] # "off" /\ Ended(p)
  /\ filters' = [i \in Iface |->
                  IF p \notin filters[i] THEN filters[i]
                  ELSE (filters[i] \ {p}) \cup (IF kernel = "tcx" THEN {} ELSE {"orphan"})]
  /\ lost' = [lost EXCEPT ![p] = {}]

-------------------------------------------------------------------------------
Loading(p) == \E i \in Iface, ok \in BOOLEAN : LoadAttach(p, i, ok)
Polling == \E i \in Iface, ok \in BOOLEAN : PollAttach(i, ok)

Next ==
  \/ \E i \in Iface : Appear(i) \/ Disappear(i)
  \/ StartDaemon \/ DaemonLoaded \/ Tick \/ Polled
  \/ \E p \in Process, i \in Iface, ok \in BOOLEAN : LoadAttach(p, i, ok)
  \/ \E i \in Iface, ok \in BOOLEAN : PollAttach(i, ok)
  \/ StartTui \/ TuiLoaded \/ RemoveDomain
  \/ \E d \in Domain : AddDomain(d)
  \/ \E p \in Process : Finish(p) \/ Kill(p)

Spec == Init /\ [][Next]_vars

(* The daemon's thread runs on, its timer ticks, and systemd (on failure)  *)
(* or the guard (every ten seconds) starts it when it is not running.      *)
FairSpec ==
  /\ Spec /\ WF_vars(StartDaemon) /\ WF_vars(Loading("daemon")) /\ WF_vars(DaemonLoaded)
  /\ WF_vars(Tick) /\ WF_vars(Polling) /\ WF_vars(Polled)

-------------------------------------------------------------------------------
(***************************************************************************)
(* Properties                                                              *)
(***************************************************************************)
(* What a process takes for attached has its program, but for attachments  *)
(* that failed when it loaded, and those that went with their interface or *)
(* with the start or end of the other process: the set never shrinks, and  *)
(* the daemon does not turn to these interfaces again (main.rs:249).       *)
KnownAreFiltered ==
  \A p \in Process : phase[p] \in {"run", "poll"} =>
    \A i \in (known[p] \cap up) \ lost[p] : p \in filters[i]

(* "New TUN interfaces: scanned every ten seconds, attached": one that     *)
(* appears while the daemon runs is filtered in the end, unless it goes    *)
(* away, the daemon ends, or the terminal interface takes it over.         *)
TunIsFiltered ==
  \A i \in Tun :
    phase["daemon"] = "run" /\ i \in up \ known["daemon"]
      ~> \/ "daemon" \in filters[i] \/ i \notin up
         \/ phase["daemon"] \in {"off", "load"} \/ i \in lost["daemon"]

(* Whatever ends the daemon, it filters the loopback again in the end, or  *)
(* has lost it as it loaded or to the terminal interface.                  *)
DaemonReturns ==
  phase["daemon"] = "off"
    ~> phase["daemon"] = "run" /\ (Lo \in lost["daemon"] \/ "daemon" \in filters[Lo])

(* What the list on screen shows is in the map, and the map holds nothing  *)
(* else, as long as no domain was listed twice, and there is a map.        *)
ScreenMatchesMap ==
  phase["tui"] = "run" /\ got["tui"] =>
    ToSet(screen) \ doubled = map \ doubled
===============================================================================
