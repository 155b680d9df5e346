------------------------------- MODULE Freezer --------------------------------
(***************************************************************************)
(* freeze_app and thaw_app (antidistractor/src/process_freezer.rs): the    *)
(* daemon suspends all processes of a name, and their descendants, with    *)
(* SIGSTOP and resumes them with SIGCONT.  The table of frozen names is    *)
(* behind a mutex, but a freeze looks the name up, lets the mutex go,      *)
(* signals one process after the other while the system runs on, and only  *)
(* then takes the mutex again to record what it stopped.                   *)
(*                                                                         *)
(* A command here carries one name; the handler runs a list of names one   *)
(* after the other, as a client sending single names would.  A scan of     *)
(* /proc is taken at one instant.  Processes fork, change their name, exit *)
(* and are killed at any time; the pid of a dead one may be used again.    *)
(***************************************************************************)
EXTENDS Naturals, FiniteSets

CONSTANTS
  Conn,          \* the client connections, one command each
  App,           \* the names that commands freeze and thaw
  Other,         \* the name of every other process
  Pid,           \* process ids
  Root,          \* the process that orphans fall to; no member of Pid
  Parents,       \* the process trees the system may start from
  Names,         \* and the names of their processes
  MaxForks,      \* bound on the processes started later
  MaxDeaths,     \* bound on the processes that exit or are killed
  MaxRestarts    \* bound on the restarts of the daemon

ASSUME PidAssumption == IsFiniteSet(Pid) /\ Root \notin Pid
ASSUME NameAssumption == Other \notin App
ASSUME TreeAssumption ==
  Parents \subseteq [Pid -> Pid \cup {Root}] /\ Names \subseteq [Pid -> App \cup {Other}]
ASSUME BoundAssumption ==
  MaxForks \in Nat /\ MaxDeaths \in Nat /\ MaxRestarts \in Nat

VARIABLES
  alive,         \* the running and the stopped processes
  stopped,       \* the stopped ones
  parent,        \* their parents
  name,          \* their names, as /proc/<pid>/comm or exe shows them
  listed,        \* the keys of FreezerState.frozen
  captured,      \* its values: the pids recorded under each name
  pc, command,   \* each connection's handler and its command
  roots,         \* matching pids whose tree is still to be signalled
  tree, above,   \* pids left in the current tree, and their parents in its scan
  signaled,      \* freeze: all_signaled; thaw: the pids it took from the table
  resume,        \* thaw: pids still to be continued
  answer,        \* "none", "ok", "already" (also ok), "error", "lost"
  forks,         \* processes started so far
  deaths,        \* and ended so far
  restarts,      \* restarts of the daemon so far
  overlapped     \* history: whether a command came while another one ran

system == <<alive, stopped, parent, name, forks, deaths>>
table == <<listed, captured>>
locals == <<pc, command, roots, tree, above, signaled, resume, answer>>
history == <<restarts, overlapped>>
vars == <<system, table, locals, history>>

Command == [op : {"freeze", "thaw"}, app : App]
NoScan == [p \in Pid |-> Root]
NoCommand == [op |-> "none", app |-> Other]
PC == {"idle", "start", "scan", "trees", "stopping", "record", "continuing",
       "again", "done"}

TypeOK ==
  /\ alive \subseteq Pid /\ stopped \subseteq alive
  /\ parent \in [Pid -> Pid \cup {Root}]
  /\ name \in [Pid -> App \cup {Other}]
  /\ listed \subseteq App
  /\ captured \in [App -> SUBSET Pid]
  /\ pc \in [Conn -> PC]
  /\ command \in [Conn -> Command \cup {NoCommand}]
  /\ \A c \in Conn : pc[c] # "idle" => command[c] \in Command
  /\ roots \in [Conn -> SUBSET Pid] /\ tree \in [Conn -> SUBSET Pid]
  /\ above \in [Conn -> [Pid -> Pid \cup {Root}]]
  /\ signaled \in [Conn -> SUBSET Pid] /\ resume \in [Conn -> SUBSET Pid]
  /\ answer \in [Conn -> {"none", "ok", "already", "error", "lost"}]
  /\ forks \in 0..MaxForks /\ deaths \in 0..MaxDeaths /\ restarts \in 0..MaxRestarts
  /\ overlapped \in BOOLEAN

(* A free pid is its own parent. *)
Unused(p) == parent[p] = p

Init ==
  /\ parent \in Parents /\ name \in Names
  /\ alive = {p \in Pid : ~Unused(p)} /\ stopped = {}
  /\ listed = {} /\ captured = [a \in App |-> {}]
  /\ pc = [c \in Conn |-> "idle"]
  /\ command = [c \in Conn |-> NoCommand]
  /\ roots = [c \in Conn |-> {}] /\ tree = [c \in Conn |-> {}]
  /\ above = [c \in Conn |-> NoScan]
  /\ signaled = [c \in Conn |-> {}] /\ resume = [c \in Conn |-> {}]
  /\ answer = [c \in Conn |-> "none"]
  /\ forks = 0 /\ deaths = 0 /\ restarts = 0
  /\ overlapped = FALSE

-------------------------------------------------------------------------------
(***************************************************************************)
(* The rest of the system                                                  *)
(***************************************************************************)
Running == alive \ stopped

(* A running process starts a child under its own name or another one. *)
Fork(p) ==
  /\ p \in Running /\ forks < MaxForks
  /\ \E q \in Pid \ alive, n \in App \cup {Other} :
       /\ alive' = alive \cup {q}
       /\ parent' = [parent EXCEPT ![q] = p]
       /\ name' = [name EXCEPT ![q] = n]
  /\ forks' = forks + 1
  /\ UNCHANGED <<stopped, deaths, table, locals, history>>

(* A running process exits, or any process is killed; its children fall to *)
(* the root.                                                               *)
Die(p) ==
  /\ p \in alive /\ deaths < MaxDeaths
  /\ deaths' = deaths + 1
  /\ alive' = alive \ {p} /\ stopped' = stopped \ {p}
  /\ parent' = [q \in Pid |-> IF q = p THEN p
                               ELSE IF parent[q] = p THEN Root ELSE parent[q]]
  /\ name' = [name EXCEPT ![p] = Other]
  /\ UNCHANGED <<forks, table, locals, history>>

-------------------------------------------------------------------------------
(***************************************************************************)
(* The daemon                                                              *)
(***************************************************************************)
Transition(c, from, to) == pc[c] = from /\ pc' = [pc EXCEPT ![c] = to]

Idle(c) == pc[c] \in {"idle", "done"}

Accept(c) ==
  /\ Transition(c, "idle", "start")
  /\ overlapped' = (overlapped \/ \E d \in Conn : ~Idle(d))
  /\ \E r \in Command : command' = [command EXCEPT ![c] = r]
  /\ UNCHANGED <<system, table, roots, tree, above, signaled, resume, answer,
                 restarts>>

(* The handler returns; its local variables are gone. *)
Reply(c, from, what) ==
  /\ Transition(c, from, "done")
  /\ answer' = [answer EXCEPT ![c] = what]
  /\ roots' = [roots EXCEPT ![c] = {}] /\ tree' = [tree EXCEPT ![c] = {}]
  /\ above' = [above EXCEPT ![c] = NoScan]
  /\ signaled' = [signaled EXCEPT ![c] = {}] /\ resume' = [resume EXCEPT ![c] = {}]

(* The pids that carry the name a. *)
Matching(a) == {p \in alive : name[p] = a}

(* Mutant of Subtree: the process alone. *)
RootOnly(r) == {r}

(* The process r and its descendants: whatever every set that holds r and  *)
(* the children of its members holds.                                      *)
Closed(S) == \A q \in alive : parent[q] \in S => q \in S
Subtree(r) == {p \in Pid : \A S \in SUBSET Pid : r \in S /\ Closed(S) => p \in S}

FreezeAlready(c) ==
  /\ command[c].op = "freeze" /\ command[c].app \in listed
  /\ Reply(c, "start", "already")
  /\ UNCHANGED <<system, table, command, history>>

(* The name is not in the table; the mutex is let go before the scan. *)
FreezeCheck(c) ==
  /\ command[c].op = "freeze" /\ command[c].app \notin listed
  /\ Transition(c, "start", "scan")
  /\ UNCHANGED <<system, table, command, roots, tree, above, signaled, resume,
                 answer, history>>

FreezeScan(c) ==
  /\ command[c].op = "freeze"
  /\ LET found == Matching(command[c].app)
     IN  \/ found = {} /\ Reply(c, "scan", "error")
         \/ /\ found # {} /\ Transition(c, "scan", "trees")
            /\ roots' = [roots EXCEPT ![c] = found]
            /\ UNCHANGED <<answer, tree, above, signaled, resume>>
  /\ UNCHANGED <<system, table, command, history>>

(* The next matching process: its tree is read from /proc. *)
FreezeTree(c) ==
  /\ Transition(c, "trees", "stopping")
  /\ \E r \in roots[c] :
       /\ roots' = [roots EXCEPT ![c] = @ \ {r}]
       /\ tree' = [tree EXCEPT ![c] = Subtree(r)]
  /\ above' = [above EXCEPT ![c] = parent]
  /\ UNCHANGED <<system, table, command, signaled, resume, answer, history>>

(* One SIGSTOP: a pid all of whose children in the scan have had theirs.   *)
(* A pid that is gone is passed over.                                      *)
Stop(c) ==
  /\ pc[c] = "stopping"
  /\ \E p \in tree[c] :
       /\ \A q \in tree[c] \ {p} : above[c][q] # p
       /\ tree' = [tree EXCEPT ![c] = @ \ {p}]
       /\ IF p \in alive
            THEN /\ stopped' = stopped \cup {p}
                 /\ signaled' = [signaled EXCEPT ![c] = @ \cup {p}]
            ELSE UNCHANGED <<stopped, signaled>>
  /\ UNCHANGED <<alive, parent, name, forks, deaths, table, pc, command, roots, above,
                 resume, answer, history>>

(* The tree is done: on to the next one, or to the table. *)
TreeDone(c) ==
  /\ tree[c] = {}
  /\ Transition(c, "stopping", IF roots[c] = {} THEN "record" ELSE "trees")
  /\ above' = [above EXCEPT ![c] = NoScan]
  /\ UNCHANGED <<system, table, command, roots, tree, signaled, resume, answer,
                 history>>

(* Mutant of FreezeRecord: the matching processes are recorded, without    *)
(* their descendants.                                                      *)
FreezeRecordRoots(c) ==
  /\ Reply(c, "record", IF signaled[c] = {} THEN "error" ELSE "ok")
  /\ listed' = listed \cup {command[c].app}
  /\ captured' = [captured EXCEPT ![command[c].app] =
                    signaled[c] \cap Matching(command[c].app)]
  /\ UNCHANGED <<system, command, history>>

(* The name is recorded with the pids it stopped, in place of what the     *)
(* table held for it, and even if there are none.                          *)
FreezeRecord(c) ==
  /\ Reply(c, "record", IF signaled[c] = {} THEN "error" ELSE "ok")
  /\ listed' = listed \cup {command[c].app}
  /\ captured' = [captured EXCEPT ![command[c].app] = signaled[c]]
  /\ UNCHANGED <<system, command, history>>

ThawUnknown(c) ==
  /\ command[c].op = "thaw" /\ command[c].app \notin listed
  /\ Reply(c, "start", "error")
  /\ UNCHANGED <<system, table, command, history>>

(* Mutant of ThawTake: only the processes of the name are continued. *)
ThawTakeMatching(c) ==
  /\ command[c].op = "thaw" /\ command[c].app \in listed
  /\ Transition(c, "start", "continuing")
  /\ listed' = listed \ {command[c].app}
  /\ captured' = [captured EXCEPT ![command[c].app] = {}]
  /\ signaled' = [signaled EXCEPT ![c] = captured[command[c].app]]
  /\ resume' = [resume EXCEPT ![c] = Matching(command[c].app)]
  /\ UNCHANGED <<system, command, roots, tree, above, answer, history>>

ThawTake(c) ==
  /\ command[c].op = "thaw" /\ command[c].app \in listed
  /\ Transition(c, "start", "continuing")
  /\ listed' = listed \ {command[c].app}
  /\ captured' = [captured EXCEPT ![command[c].app] = {}]
  /\ signaled' = [signaled EXCEPT ![c] = captured[command[c].app]]
  /\ resume' = [resume EXCEPT ![c] = captured[command[c].app]]
  /\ UNCHANGED <<system, command, roots, tree, above, answer, history>>

(* One SIGCONT, which a process that runs or is gone does not notice. *)
Continue(c) ==
  /\ pc[c] \in {"continuing", "again"}
  /\ \E p \in resume[c] :
       /\ resume' = [resume EXCEPT ![c] = @ \ {p}]
       /\ stopped' = stopped \ {p}
  /\ UNCHANGED <<alive, parent, name, forks, deaths, table, pc, command, roots, tree,
                 above, signaled, answer, history>>

(* The name is looked up once more for processes the table did not hold. *)
ThawRescan(c) ==
  /\ resume[c] = {}
  /\ Transition(c, "continuing", "again")
  /\ resume' = [resume EXCEPT ![c] = Matching(command[c].app) \ signaled[c]]
  /\ UNCHANGED <<system, table, command, roots, tree, above, signaled, answer,
                 history>>

ThawReply(c) ==
  /\ resume[c] = {}
  /\ Reply(c, "again", "ok")
  /\ UNCHANGED <<system, table, command, history>>

(* The daemon stops and starts again: the table and the handlers are gone, *)
(* the processes stay as they are.                                         *)
Restart ==
  /\ restarts < MaxRestarts
  /\ restarts' = restarts + 1
  /\ listed' = {} /\ captured' = [a \in App |-> {}]
  /\ pc' = [c \in Conn |-> IF pc[c] = "idle" THEN "idle" ELSE "done"]
  /\ answer' = [c \in Conn |-> IF Idle(c) THEN answer[c] ELSE "lost"]
  /\ roots' = [c \in Conn |-> {}] /\ tree' = [c \in Conn |-> {}]
  /\ above' = [c \in Conn |-> NoScan]
  /\ signaled' = [c \in Conn |-> {}] /\ resume' = [c \in Conn |-> {}]
  /\ UNCHANGED <<system, command, overlapped>>

-------------------------------------------------------------------------------
Step(c) ==
  \/ Accept(c)
  \/ FreezeAlready(c) \/ FreezeCheck(c) \/ FreezeScan(c) \/ FreezeTree(c)
  \/ Stop(c) \/ TreeDone(c) \/ FreezeRecord(c)
  \/ ThawUnknown(c) \/ ThawTake(c) \/ Continue(c) \/ ThawRescan(c) \/ ThawReply(c)

Next ==
  \/ \E c \in Conn : Step(c)
  \/ \E p \in Pid : Fork(p) \/ Die(p)
  \/ Restart

Spec == Init /\ [][Next]_vars

(* The handlers run on; nothing obliges a client to send its line, nor the *)
(* processes to fork or die.                                               *)
FairSpec == Spec /\ \A c \in Conn : WF_vars(pc[c] # "idle" /\ Step(c))

-------------------------------------------------------------------------------
(***************************************************************************)
(* Properties                                                              *)
(***************************************************************************)
(* Some later thaw will continue p: it is in the table, or a handler has   *)
(* it in hand on its way into the table or out of it.                      *)
Accounted(p) ==
  \/ \E a \in App : p \in captured[a]
  \/ \E c \in Conn : pc[c] \in {"trees", "stopping", "record"} /\ p \in signaled[c]
  \/ \E c \in Conn : pc[c] \in {"continuing", "again"} /\ p \in resume[c]

(* Freezing is reversible where clients wait for each answer and the       *)
(* daemon runs on: no process is ever left stopped that neither the table  *)
(* nor a running command remembers.                                        *)
NothingStranded ==
  ~overlapped /\ restarts = 0 => \A p \in stopped : Accounted(p)

(* At its end a thaw has resumed every process recorded under its name,    *)
(* and every process that carries it now, if no other command overlapped.  *)
ThawLeavesNoneStopped ==
  ~overlapped =>
    \A c \in Conn :
      pc[c] = "again" /\ resume[c] = {}
        => stopped \cap (signaled[c] \cup Matching(command[c].app)) = {}

(* A freeze reaches the whole tree: when it records its name, no child of  *)
(* a process it stopped is still running.                                  *)
TreeReached(c) ==
  pc[c] = "record" => \A p \in alive : parent[p] \in signaled[c] \cap stopped => p \in stopped

(* It does, if nothing forks meanwhile, and whatever dies and is adopted.  *)
ChildrenStopped == forks = 0 /\ ~overlapped => \A c \in Conn : TreeReached(c)

(* Children are signalled before their parents, so that no child that a    *)
(* parent forks at the last moment is missed.                              *)
NoChildMissed == \A c \in Conn : TreeReached(c)

(* Every process that a thaw took out of the table runs again, or is gone, *)
(* unless the daemon stops in between.                                     *)
ThawResumes ==
  \A c \in Conn, p \in Pid :
    pc[c] = "continuing" /\ p \in signaled[c]
      ~> p \notin stopped \/ answer[c] = "lost"

-------------------------------------------------------------------------------
(* What keeps NothingStranded where commands come one after the other      *)
(* (FreezerProofs): only one handler runs, and a freeze under way does not *)
(* overwrite an entry of the table.                                        *)
Sequential ==
  /\ \A c, d \in Conn : ~Idle(c) /\ ~Idle(d) => c = d
  /\ \A a \in App \ listed : captured[a] = {}
  /\ \A c \in Conn :
       pc[c] \in {"scan", "trees", "stopping", "record"} => command[c].app \notin listed
SequentialInv == ~overlapped => Sequential
===============================================================================
