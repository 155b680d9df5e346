------------------------------- MODULE MacProofs -------------------------------
(***************************************************************************)
(* The macOS parts, for any connections, domains, commands, lines,         *)
(* processes, paths and patterns. MacHosts: /etc/hosts follows the set of  *)
(* PfBlocker, the list of dynamic domains and the set agree, other lines   *)
(* are kept. AppWatcher: the verdicts of the watcher fit the set as it was *)
(* under the lock. The two share no variable and are proved each from its  *)
(* own specification.                                                      *)
(***************************************************************************)
EXTENDS AppWatcher, MacHosts, TLAPS

-------------------------------------------------------------------------------
(***************************************************************************)
(* The domain blocker                                                      *)
(***************************************************************************)
Busy(a) == pc[a] \in {"work", "read", "write"}

(* A connection holds the lock of PfBlocker from the first mutex it takes  *)
(* for a domain command to the end of the command; waiting for more        *)
(* mutexes first, then working.                                            *)
Waiting(c) == pc[c] \in {"flag", "dynamic"}
Working(c) == Busy(c) \/ (pc[c] = "apps" /\ command[c].op = "sync")

(* The lock of PfBlocker: connections hold it as said, the main task while *)
(* it starts or disables; while the daemon starts, or is down, no command  *)
(* is open.                                                                *)
LockInv ==
  /\ \A c \in Conn : lock["pf"] = c <=> Waiting(c) \/ Working(c)
  /\ lock["pf"] = Main <=> daemon = "starting" \/ pc[Main] = "disable"
  /\ daemon = "starting" <=> Busy(Main)
  /\ pc[Main] = "disable" => daemon = "stopping"
  /\ pc[Main] \in {"work", "read", "write", "idle", "disable", "done"}
  /\ daemon = "up" => pc[Main] = "idle"
  /\ daemon \in {"starting", "down"} => \A c \in Conn : Quiet(c)
  /\ \A c \in Conn :
       /\ Busy(c) => command[c].op \in {"block", "unblock", "sync", "focus_on", "focus_off"}
       /\ Waiting(c) => command[c].op \in {"sync", "focus_on", "focus_off"}
       /\ pc[c] = "apps" => command[c].op \in {"sync", "block_app", "status"}

(* What is left of the work of its holder. *)
WorkInv ==
  /\ daemon = "starting" => removes = {} /\ adds \subseteq Default /\ listed = {}
  /\ \A c \in Conn : Working(c) =>
       /\ pc[c] = "apps" => removes = {} /\ adds = {}
       /\ removes # {} => added = {}
       /\ added \subseteq blocked \cup SuffixKey
       /\ command[c].op \in {"block", "focus_on"} => removes = {}
       /\ command[c].op = "unblock" => removes \subseteq command[c].domains
       /\ command[c].op \in {"unblock", "focus_off"} => adds = {}
       /\ command[c].op = "block" =>
            /\ command[c].domains \subseteq added \cup adds \/ failed
            /\ pc[c] \in {"read", "write"} => current \in blocked

(* The file says what the set of its last writer says whenever that one is *)
(* not between changing the set and writing it: also between two domains   *)
(* of one command, and for the main task until it disables.                *)
FollowInv ==
  /\ pc[Main] = "disable" => blocked = {}
  /\ (/\ writer = "daemon" /\ daemon # "down" /\ pc[Main] # "disable"
      /\ \A a \in Agent : pc[a] \notin {"read", "write"}) => own = blocked
  /\ writer = "terminal" /\ tui = "open" => own = screen

(* What is listed is in the set, at any time of a command that adds; a     *)
(* command that removes has taken its own domains from the set, or will,   *)
(* and takes them off the list at its end.                                 *)
ListInv ==
  daemon = "up" =>
    /\ lock["pf"] = Nobody => listed \ SuffixKey \subseteq blocked
    /\ \A c \in Conn : Waiting(c) => listed \ SuffixKey \subseteq blocked
    /\ \A c \in Conn : Working(c) =>
         /\ command[c].op \in {"block", "focus_on"} => listed \ SuffixKey \subseteq blocked
         /\ command[c].op = "unblock" =>
              (listed \ command[c].domains) \ SuffixKey \subseteq blocked

(* What is in the set is on the default list or listed, or will be: a      *)
(* command that adds lists what it has added, one that removes has yet to  *)
(* remove what its list no longer names.                                   *)
LeakInv ==
  sound =>
    /\ daemon = "starting" => blocked \subseteq Default
    /\ daemon = "up" /\ lock["pf"] = Nobody => blocked \subseteq Default \cup listed
    /\ daemon = "up" => \A c \in Conn : Waiting(c) => blocked \subseteq Default \cup listed
    /\ daemon = "up" => \A c \in Conn : Working(c) =>
         /\ command[c].op \in {"block", "focus_on"} =>
              blocked \subseteq Default \cup listed \cup added
         /\ command[c].op = "unblock" =>
              /\ blocked \subseteq Default \cup listed
              /\ blocked \cap command[c].domains \subseteq removes
         /\ command[c].op \in {"sync", "focus_off"} =>
              blocked \subseteq Default \cup removes \cup added

(* Whoever rewrites the file has read the other lines that must stay. *)
KeptInv ==
  /\ settled \subseteq lines
  /\ DaemonWrites => settled \subseteq seen
  /\ TuiWrites => settled \subseteq tuiSeen

(* The invariant; FollowInv, ListInv, LeakInv and KeptInv are each         *)
(* inductive together with the two before them.                            *)
HostsInv == TypeOK /\ LockInv /\ WorkInv /\ FollowInv /\ ListInv /\ LeakInv /\ KeptInv

(* The types are kept by every step. *)
LEMMA HostsTypeStep == TypeOK /\ [Next]_vars => TypeOK'
<1> SUFFICES ASSUME TypeOK, [Next]_vars PROVE TypeOK'
  OBVIOUS
<1> USE AgentAssumption, DomainAssumption, LineAssumption, BoundAssumption
    DEF TypeOK, memory, hosts, work, terminal, counters, history, file, daemonVars,
        Agent, PC, NoCommand, Mutex
<1>0. TuiWrites \in BOOLEAN /\ DaemonWrites \in BOOLEAN
  BY Zenon DEF TuiWrites, DaemonWrites
<1>1. ASSUME NEW c \in Conn, Accept(c)
      PROVE  TypeOK'
  BY <1>1 DEF Accept, Transition
<1>2. ASSUME NEW c \in Conn, TakePf(c)
      PROVE  TypeOK'
  <2>1. command[c].domains \subseteq Domain
    OBVIOUS
  <2>2. removes' \subseteq Domain /\ adds' \subseteq Domain /\ added' \subseteq Domain
        /\ failed' \in BOOLEAN
    BY <1>2, <2>1 DEF TakePf, Begin, ToRemove, ToAdd
  <2>3. current' = current /\ seen' = seen
    BY <1>2 DEF TakePf, Begin
  <2>4. lock' \in [Mutex -> Agent \cup {Nobody}] /\ pc' \in [Agent -> PC]
    BY <1>2 DEF TakePf, Take, Transition
  <2> QED
    BY <1>2, <2>2, <2>3, <2>4 DEF TakePf
<1>3. ASSUME NEW c \in Conn, TakeFlag(c)
      PROVE  TypeOK'
  BY <1>3 DEF TakeFlag, Take, Transition
<1>4. ASSUME NEW c \in Conn, TakeDynamic(c)
      PROVE  TypeOK'
  <2>1. command[c].domains \subseteq Domain
    OBVIOUS
  <2>2. removes' \subseteq Domain /\ adds' \subseteq Domain /\ added' \subseteq Domain
        /\ failed' \in BOOLEAN
    BY <1>4, <2>1 DEF TakeDynamic, Begin, ToRemove, ToAdd
  <2>3. current' = current /\ seen' = seen
    BY <1>4 DEF TakeDynamic, Begin
  <2>4. lock' \in [Mutex -> Agent \cup {Nobody}] /\ pc' \in [Agent -> PC]
    BY <1>4 DEF TakeDynamic, Take, Transition
  <2> QED
    BY <1>4, <2>2, <2>3, <2>4 DEF TakeDynamic
<1>5. ASSUME NEW c \in Conn, TakeApps(c)
      PROVE  TypeOK'
  BY <1>5 DEF TakeApps, Take, Worked
<1>6. ASSUME NEW a \in Agent, daemon = "starting" \/ a # Main, Remove(a)
      PROVE  TypeOK'
  BY <1>6 DEF Remove
<1>7. ASSUME NEW a \in Agent, daemon = "starting" \/ a # Main, AddKnown(a)
      PROVE  TypeOK'
  BY <1>7 DEF AddKnown
<1>8. ASSUME NEW a \in Agent, daemon = "starting" \/ a # Main, Add(a)
      PROVE  TypeOK'
  BY <1>8 DEF Add, Transition
<1>9. ASSUME NEW a \in Agent, daemon = "starting" \/ a # Main, ReadHosts(a)
      PROVE  TypeOK'
  BY <1>9 DEF ReadHosts, Transition
<1>10. ASSUME NEW a \in Agent, daemon = "starting" \/ a # Main, WriteHosts(a)
      PROVE  TypeOK'
  BY <1>10 DEF WriteHosts, Replace, Transition
<1>11. ASSUME NEW a \in Agent, daemon = "starting" \/ a # Main, WriteTorn(a)
      PROVE  TypeOK'
  <2>1. torn' \in BOOLEAN /\ UNCHANGED <<sound, failed, focus>>
    BY <1>11, <1>0, Zenon DEF WriteTorn
  <2>2. own' \subseteq Domain \ SuffixKey /\ lines' \subseteq Line /\ writer' = "none"
        /\ settled' = {}
    BY <1>11 DEF WriteTorn, ReplaceTorn
  <2> QED
    BY <1>11, <2>1, <2>2 DEF WriteTorn, Transition
<1>12. ASSUME NEW a \in Agent, daemon = "starting" \/ a # Main, HostsFail(a)
      PROVE  TypeOK'
  <2>1. failed' \in BOOLEAN /\ torn' \in BOOLEAN /\ sound' \in BOOLEAN
    BY <1>12, <1>0, Zenon DEF HostsFail, ChangeFails
  <2>2. added' = added \ {current} /\ seen' = {} /\ current' = Nobody
        /\ UNCHANGED <<memory, lock, daemon, command, removes, adds, answer, terminal>>
    BY <1>12, Zenon DEF HostsFail, ChangeFails
  <2>3. focus' \in BOOLEAN /\ added' \subseteq Domain /\ seen' \subseteq Line
        /\ current' \in Domain \cup {Nobody}
    BY <2>2
  <2>4. failures' \in 0..MaxFailures /\ UNCHANGED <<edits, stops, changes, own, lines, settled>>
        /\ writer' \in {"daemon", "terminal", "none"}
    BY <1>12 DEF HostsFail, NoLonger
  <2>5. pc' \in [Agent -> PC]
    BY <1>12 DEF HostsFail, Transition
  <2> QED
    BY <2>1, <2>2, <2>3, <2>4, <2>5
<1>13. ASSUME NEW a \in Agent, daemon = "starting" \/ a # Main, RenameFails(a)
      PROVE  TypeOK'
  <2>1. failed' \in BOOLEAN /\ torn' \in BOOLEAN /\ sound' \in BOOLEAN
    BY <1>13, <1>0, Zenon DEF RenameFails, ChangeFails
  <2>2. added' = added \ {current} /\ seen' = {} /\ current' = Nobody
        /\ UNCHANGED <<memory, lock, daemon, command, removes, adds, answer, terminal>>
    BY <1>13, Zenon DEF RenameFails, ChangeFails
  <2>3. focus' \in BOOLEAN /\ added' \subseteq Domain /\ seen' \subseteq Line
        /\ current' \in Domain \cup {Nobody}
    BY <2>2
  <2>4. own' \subseteq Domain \ SuffixKey /\ lines' \subseteq Line /\ writer' = "none"
        /\ settled' = {} /\ UNCHANGED counters
    BY <1>13 DEF RenameFails, ReplaceTorn
  <2>5. pc' \in [Agent -> PC]
    BY <1>13 DEF RenameFails, Transition
  <2> QED
    BY <2>1, <2>2, <2>3, <2>4, <2>5
<1>14. ASSUME NEW c \in Conn, Finish(c)
      PROVE  TypeOK'
  <2>1. focus' \in BOOLEAN /\ UNCHANGED <<failed, torn, sound>>
    BY <1>14, Zenon DEF Finish
  <2>2. lock' \in [Mutex -> Agent \cup {Nobody}]
    BY <1>14 DEF Finish, Released
  <2>3. listed' \subseteq Domain
    BY <1>14 DEF Finish, Relist
  <2>4. answer' \in [Conn -> {"none", "ok", "error", "lost"}] /\ pc' \in [Agent -> PC]
    BY <1>14 DEF Finish
  <2>5. UNCHANGED <<blocked, hosts, writer, settled, daemon, command, work, terminal, counters>>
    BY <1>14 DEF Finish
  <2> QED
    BY <2>1, <2>2, <2>3, <2>4, <2>5
<1>15. ASSUME NEW c \in Conn, StatusList(c) \/ StatusFocus(c) \/ StatusSet(c)
      PROVE  TypeOK'
  BY <1>15 DEF StatusList, StatusFocus, StatusSet, Transition
<1>16. ASSUME NEW c \in Conn, Reply(c)
      PROVE  TypeOK'
  BY <1>16 DEF Reply, Released, Transition
<1>17. CASE Up
  BY <1>17 DEF Up, Transition, Released
<1>18. CASE Interrupt \/ Exit
  BY <1>18 DEF Interrupt, Exit
<1>19. CASE DisableRead
  <2>1. failures' \in 0..MaxFailures
    BY <1>19 DEF DisableRead
  <2>2. sound' \in BOOLEAN
    BY <1>19, Zenon DEF DisableRead
  <2>3. settled' \subseteq Line /\ seen' \subseteq Line
    BY <1>19 DEF DisableRead
  <2>4. lock' \in [Mutex -> Agent \cup {Nobody}] /\ pc' \in [Agent -> PC] /\ blocked' = {}
    BY <1>19 DEF DisableRead, Take, Transition
  <2>5. UNCHANGED <<listed, focus, hosts, torn, writer, daemon, command, removes, adds, current,
                    added, failed, answer, terminal, edits, stops, changes>>
    BY <1>19, Zenon DEF DisableRead
  <2> QED
    BY <2>1, <2>2, <2>3, <2>4, <2>5
<1>20. CASE DisableWrite
  <2>1. failures' \in 0..MaxFailures
    BY <1>20 DEF DisableWrite
  <2>2. sound' \in BOOLEAN /\ torn' \in BOOLEAN
    BY <1>20, <1>0, Zenon DEF DisableWrite
  <2>3. settled' \subseteq Line /\ own' \subseteq Domain \ SuffixKey /\ lines' \subseteq Line
        /\ writer' \in {"daemon", "terminal", "none"}
    BY <1>20 DEF DisableWrite, Replace, ReplaceTorn, NoLonger
  <2>4. lock' \in [Mutex -> Agent \cup {Nobody}] /\ pc' \in [Agent -> PC]
        /\ daemon' = "draining" /\ seen' = {}
    BY <1>20 DEF DisableWrite, Released, Transition
  <2>5. UNCHANGED <<memory, command, removes, adds, current, added, failed, answer, terminal,
                    edits, stops, changes>>
    BY <1>20, Zenon DEF DisableWrite
  <2> QED
    BY <2>1, <2>2, <2>3, <2>4, <2>5
<1>21. CASE Kill
  <2>1. torn' \in BOOLEAN
    BY <1>21, <1>0, Zenon DEF Kill
  <2>2. lock' \in [Mutex -> Agent \cup {Nobody}] /\ pc' \in [Agent -> PC]
        /\ answer' \in [Conn -> {"none", "ok", "error", "lost"}]
        /\ daemon' = "down" /\ stops' \in 0..MaxStops
    BY <1>21 DEF Kill, Unlocked
  <2>3. UNCHANGED <<memory, hosts, command, work, terminal, history, failures, edits, changes>>
    BY <1>21, Zenon DEF Kill
  <2> QED
    BY <2>1, <2>2, <2>3
<1>22. CASE Start
  BY <1>22 DEF Start, Starting, Unlocked, NoLonger
<1>23. CASE Edit
  BY <1>23 DEF Edit
<1>24. CASE TuiStart \/ TuiShow \/ TuiChange \/ TuiRead
  BY <1>24 DEF TuiStart, TuiShow, TuiChange, TuiRead, NoLonger
<1>25. CASE TuiWrite
  <2>1. torn' \in BOOLEAN
    BY <1>25, <1>0, Zenon DEF TuiWrite
  <2>2. own' \subseteq Domain \ SuffixKey /\ lines' \subseteq Line /\ settled' \subseteq Line
        /\ writer' \in {"terminal", "none"}
    BY <1>25 DEF TuiWrite, Replace, ReplaceTorn
  <2>3. UNCHANGED <<daemonVars, sound, screen, toShow, counters>>
        /\ tui' = "open" /\ tuiSeen' = {}
    BY <1>25, Zenon DEF TuiWrite
  <2> QED
    BY <2>1, <2>2, <2>3
<1>26. CASE TuiFails \/ TuiEnd
  <2>1. torn' \in BOOLEAN
    BY <1>26, <1>0, Zenon DEF TuiFails, TuiEnd
  <2>2. failures' \in 0..MaxFailures /\ toShow' \subseteq Shown
        /\ writer' \in {"daemon", "terminal", "none"} /\ tui' \in {"open", "closed"}
    BY <1>26 DEF TuiFails, TuiEnd, NoLonger
  <2>3. UNCHANGED <<daemonVars, hosts, sound, settled, screen, edits, stops, changes>>
        /\ tuiSeen' = {}
    BY <1>26 DEF TuiFails, TuiEnd
  <2> QED
    BY <2>1, <2>2, <2>3
<1>27. CASE UNCHANGED vars
  BY <1>27 DEF vars
<1> QED
  BY <1>1, <1>2, <1>3, <1>4, <1>5, <1>6, <1>7, <1>8, <1>9, <1>10, <1>11, <1>12, <1>13,
     <1>14, <1>15, <1>16, <1>17, <1>18, <1>19, <1>20, <1>21, <1>22, <1>23, <1>24,
     <1>25, <1>26, <1>27
  DEF Next, Handle, Rewrite, MainStep, Others, Agent

(* The lock has one holder, whatever is killed or fails. *)
LEMMA LockStep == TypeOK /\ LockInv /\ [Next]_vars => LockInv'
<1> SUFFICES ASSUME TypeOK, LockInv, [Next]_vars PROVE LockInv'
  OBVIOUS
<1> USE AgentAssumption, DomainAssumption, LineAssumption, BoundAssumption
    DEF LockInv, TypeOK, Quiet, NoCommand, Op, PC, Mutex, memory, hosts, work, terminal, counters, history, file, daemonVars,
        Agent, Busy, Waiting, Working
<1>1. ASSUME NEW c \in Conn, Accept(c)
      PROVE  LockInv'
  BY <1>1 DEF Accept, Transition
<1>2. ASSUME NEW c \in Conn, TakePf(c)
      PROVE  LockInv'
  BY <1>2 DEF TakePf, Take, Begin, ToRemove, ToAdd
<1>3. ASSUME NEW c \in Conn, TakeFlag(c)
      PROVE  LockInv'
  BY <1>3 DEF TakeFlag, Take, Transition
<1>4. ASSUME NEW c \in Conn, TakeDynamic(c)
      PROVE  LockInv'
  BY <1>4 DEF TakeDynamic, Take, Transition, Begin, ToRemove, ToAdd
<1>5. ASSUME NEW c \in Conn, TakeApps(c)
      PROVE  LockInv'
  BY <1>5 DEF TakeApps, Take, Worked
<1>6. ASSUME NEW a \in Agent, daemon = "starting" \/ a # Main, Remove(a)
      PROVE  LockInv'
  BY <1>6 DEF Remove
<1>7. ASSUME NEW a \in Agent, daemon = "starting" \/ a # Main, AddKnown(a)
      PROVE  LockInv'
  BY <1>7 DEF AddKnown
<1>8. ASSUME NEW a \in Agent, daemon = "starting" \/ a # Main, Add(a)
      PROVE  LockInv'
  BY <1>8 DEF Add, Transition
<1>9. ASSUME NEW a \in Agent, daemon = "starting" \/ a # Main, ReadHosts(a)
      PROVE  LockInv'
  BY <1>9 DEF ReadHosts, Transition
<1>10. ASSUME NEW a \in Agent, daemon = "starting" \/ a # Main, WriteHosts(a)
      PROVE  LockInv'
  BY <1>10 DEF WriteHosts, Replace, Transition
<1>11. ASSUME NEW a \in Agent, daemon = "starting" \/ a # Main, WriteTorn(a)
      PROVE  LockInv'
  BY <1>11 DEF WriteTorn, ReplaceTorn, Transition
<1>12. ASSUME NEW a \in Agent, daemon = "starting" \/ a # Main, HostsFail(a)
      PROVE  LockInv'
  BY <1>12 DEF HostsFail, ChangeFails, NoLonger
<1>13. ASSUME NEW a \in Agent, daemon = "starting" \/ a # Main, RenameFails(a)
      PROVE  LockInv'
  BY <1>13 DEF RenameFails, ReplaceTorn, ChangeFails, Transition
<1>14. ASSUME NEW c \in Conn, Finish(c)
      PROVE  LockInv'
  BY <1>14 DEF Finish, Released, Worked, Relist
<1>15. ASSUME NEW c \in Conn, StatusList(c) \/ StatusFocus(c) \/ StatusSet(c)
      PROVE  LockInv'
  BY <1>15 DEF StatusList, StatusFocus, StatusSet, Transition
<1>16. ASSUME NEW c \in Conn, Reply(c)
      PROVE  LockInv'
  BY <1>16 DEF Reply, Released, Transition
<1>17. CASE Up
  BY <1>17 DEF Up, Transition, Released
<1>18. CASE Interrupt \/ Exit
  BY <1>18 DEF Interrupt, Exit
<1>19. CASE DisableRead
  BY <1>19 DEF DisableRead, Take, Transition
<1>20. CASE DisableWrite
  BY <1>20 DEF DisableWrite, Transition, Released, Replace, ReplaceTorn, NoLonger
<1>21. CASE Kill
  BY <1>21 DEF Kill, Unlocked
<1>22. CASE Start
  BY <1>22 DEF Start, Starting, Unlocked, NoLonger
<1>23. CASE Edit
  BY <1>23 DEF Edit
<1>24. CASE TuiStart \/ TuiShow \/ TuiChange \/ TuiRead
  BY <1>24 DEF TuiStart, TuiShow, TuiChange, TuiRead, NoLonger
<1>25. CASE TuiWrite
  BY <1>25 DEF TuiWrite, Replace, ReplaceTorn
<1>26. CASE TuiFails \/ TuiEnd
  BY <1>26 DEF TuiFails, TuiEnd, NoLonger
<1>27. CASE UNCHANGED vars
  BY <1>27 DEF vars
<1> QED
  BY <1>1, <1>2, <1>3, <1>4, <1>5, <1>6, <1>7, <1>8, <1>9, <1>10, <1>11, <1>12, <1>13,
     <1>14, <1>15, <1>16, <1>17, <1>18, <1>19, <1>20, <1>21, <1>22, <1>23, <1>24,
     <1>25, <1>26, <1>27
  DEF Next, Handle, Rewrite, MainStep, Others, Agent

(* What is left of a command's work keeps to its command. *)
LEMMA WorkStep == TypeOK /\ LockInv /\ WorkInv /\ [Next]_vars => WorkInv'
<1> SUFFICES ASSUME TypeOK, LockInv, WorkInv, [Next]_vars PROVE WorkInv'
  OBVIOUS
<1> USE AgentAssumption, DomainAssumption, LineAssumption, BoundAssumption
    DEF LockInv, WorkInv, TypeOK, Quiet, NoCommand, Op, PC, Mutex, memory, hosts, work, terminal, counters, history, file, daemonVars,
        Agent, Busy, Waiting, Working
<1>1. ASSUME NEW c \in Conn, Accept(c)
      PROVE  WorkInv'
  BY <1>1 DEF Accept, Transition
<1>2. ASSUME NEW c \in Conn, TakePf(c)
      PROVE  WorkInv'
  BY <1>2 DEF TakePf, Take, Begin, ToRemove, ToAdd
<1>3. ASSUME NEW c \in Conn, TakeFlag(c)
      PROVE  WorkInv'
  BY <1>3 DEF TakeFlag, Take, Transition
<1>4. ASSUME NEW c \in Conn, TakeDynamic(c)
      PROVE  WorkInv'
  BY <1>4 DEF TakeDynamic, Take, Transition, Begin, ToRemove, ToAdd
<1>5. ASSUME NEW c \in Conn, TakeApps(c)
      PROVE  WorkInv'
  BY <1>5 DEF TakeApps, Take, Worked
<1>6. ASSUME NEW a \in Agent, daemon = "starting" \/ a # Main, Remove(a)
      PROVE  WorkInv'
  BY <1>6 DEF Remove
<1>7. ASSUME NEW a \in Agent, daemon = "starting" \/ a # Main, AddKnown(a)
      PROVE  WorkInv'
  BY <1>7 DEF AddKnown
<1>8. ASSUME NEW a \in Agent, daemon = "starting" \/ a # Main, Add(a)
      PROVE  WorkInv'
  BY <1>8 DEF Add, Transition
<1>9. ASSUME NEW a \in Agent, daemon = "starting" \/ a # Main, ReadHosts(a)
      PROVE  WorkInv'
  BY <1>9 DEF ReadHosts, Transition
<1>10. ASSUME NEW a \in Agent, daemon = "starting" \/ a # Main, WriteHosts(a)
      PROVE  WorkInv'
  BY <1>10 DEF WriteHosts, Replace, Transition
<1>11. ASSUME NEW a \in Agent, daemon = "starting" \/ a # Main, WriteTorn(a)
      PROVE  WorkInv'
  BY <1>11 DEF WriteTorn, ReplaceTorn, Transition
<1>12. ASSUME NEW a \in Agent, daemon = "starting" \/ a # Main, HostsFail(a)
      PROVE  WorkInv'
  <2>1. failed \/ current \in blocked => failed'
    BY <1>12, Zenon DEF HostsFail, ChangeFails
  <2>2. added' = added \ {current} /\ pc' = [pc EXCEPT ![a] = "work"] /\ pc[a] \in {"read", "write"}
        /\ UNCHANGED <<memory, lock, daemon, command, removes, adds>>
    BY <1>12, Zenon DEF HostsFail, ChangeFails, Transition
  <2> QED
    BY <2>1, <2>2
<1>13. ASSUME NEW a \in Agent, daemon = "starting" \/ a # Main, RenameFails(a)
      PROVE  WorkInv'
  <2>1. failed \/ current \in blocked => failed'
    BY <1>13, Zenon DEF RenameFails, ChangeFails
  <2>2. added' = added \ {current} /\ pc' = [pc EXCEPT ![a] = "work"] /\ pc[a] \in {"read", "write"}
        /\ UNCHANGED <<memory, lock, daemon, command, removes, adds>>
    BY <1>13, Zenon DEF RenameFails, ChangeFails, Transition
  <2> QED
    BY <2>1, <2>2
<1>14. ASSUME NEW c \in Conn, Finish(c)
      PROVE  WorkInv'
  BY <1>14 DEF Finish, Released, Worked, Relist
<1>15. ASSUME NEW c \in Conn, StatusList(c) \/ StatusFocus(c) \/ StatusSet(c)
      PROVE  WorkInv'
  BY <1>15 DEF StatusList, StatusFocus, StatusSet, Transition
<1>16. ASSUME NEW c \in Conn, Reply(c)
      PROVE  WorkInv'
  BY <1>16 DEF Reply, Released, Transition
<1>17. CASE Up
  BY <1>17 DEF Up, Transition, Released
<1>18. CASE Interrupt \/ Exit
  BY <1>18 DEF Interrupt, Exit
<1>19. CASE DisableRead
  BY <1>19 DEF DisableRead, Take, Transition
<1>20. CASE DisableWrite
  BY <1>20 DEF DisableWrite, Transition, Released, Replace, ReplaceTorn, NoLonger
<1>21. CASE Kill
  BY <1>21 DEF Kill, Unlocked
<1>22. CASE Start
  BY <1>22 DEF Start, Starting, Unlocked, NoLonger
<1>23. CASE Edit
  BY <1>23 DEF Edit
<1>24. CASE TuiStart \/ TuiShow \/ TuiChange \/ TuiRead
  BY <1>24 DEF TuiStart, TuiShow, TuiChange, TuiRead, NoLonger
<1>25. CASE TuiWrite
  BY <1>25 DEF TuiWrite, Replace, ReplaceTorn
<1>26. CASE TuiFails \/ TuiEnd
  BY <1>26 DEF TuiFails, TuiEnd, NoLonger
<1>27. CASE UNCHANGED vars
  BY <1>27 DEF vars
<1> QED
  BY <1>1, <1>2, <1>3, <1>4, <1>5, <1>6, <1>7, <1>8, <1>9, <1>10, <1>11, <1>12, <1>13,
     <1>14, <1>15, <1>16, <1>17, <1>18, <1>19, <1>20, <1>21, <1>22, <1>23, <1>24,
     <1>25, <1>26, <1>27
  DEF Next, Handle, Rewrite, MainStep, Others, Agent

(* The file follows the set of its last writer through every step. *)
LEMMA FollowStep == TypeOK /\ LockInv /\ WorkInv /\ FollowInv /\ [Next]_vars => FollowInv'
<1> SUFFICES ASSUME TypeOK, LockInv, WorkInv, FollowInv, [Next]_vars PROVE FollowInv'
  OBVIOUS
<1> USE AgentAssumption, DomainAssumption, LineAssumption, BoundAssumption
    DEF LockInv, WorkInv, FollowInv, TypeOK, Quiet, PC, Mutex, memory, hosts, work, terminal, counters, history, file, daemonVars,
        Agent, Busy, Waiting, Working, DaemonWrites, TuiWrites
<1>1. ASSUME NEW c \in Conn, Accept(c)
      PROVE  FollowInv'
  BY <1>1 DEF Accept, Transition
<1>2. ASSUME NEW c \in Conn, TakePf(c)
      PROVE  FollowInv'
  BY <1>2 DEF TakePf, Take, Begin, ToRemove, ToAdd
<1>3. ASSUME NEW c \in Conn, TakeFlag(c)
      PROVE  FollowInv'
  BY <1>3 DEF TakeFlag, Take, Transition
<1>4. ASSUME NEW c \in Conn, TakeDynamic(c)
      PROVE  FollowInv'
  BY <1>4 DEF TakeDynamic, Take, Transition, Begin, ToRemove, ToAdd
<1>5. ASSUME NEW c \in Conn, TakeApps(c)
      PROVE  FollowInv'
  BY <1>5 DEF TakeApps, Take, Worked
<1>6. ASSUME NEW a \in Agent, daemon = "starting" \/ a # Main, Remove(a)
      PROVE  FollowInv'
  BY <1>6 DEF Remove
<1>7. ASSUME NEW a \in Agent, daemon = "starting" \/ a # Main, AddKnown(a)
      PROVE  FollowInv'
  BY <1>7 DEF AddKnown
<1>8. ASSUME NEW a \in Agent, daemon = "starting" \/ a # Main, Add(a)
      PROVE  FollowInv'
  BY <1>8 DEF Add, Transition
<1>9. ASSUME NEW a \in Agent, daemon = "starting" \/ a # Main, ReadHosts(a)
      PROVE  FollowInv'
  BY <1>9 DEF ReadHosts, Transition
<1>10. ASSUME NEW a \in Agent, daemon = "starting" \/ a # Main, WriteHosts(a)
      PROVE  FollowInv'
  BY <1>10 DEF WriteHosts, Replace, Transition
<1>11. ASSUME NEW a \in Agent, daemon = "starting" \/ a # Main, WriteTorn(a)
      PROVE  FollowInv'
  BY <1>11 DEF WriteTorn, ReplaceTorn, Transition
<1>12. ASSUME NEW a \in Agent, daemon = "starting" \/ a # Main, HostsFail(a)
      PROVE  FollowInv'
  BY <1>12 DEF HostsFail, ChangeFails, NoLonger
<1>13. ASSUME NEW a \in Agent, daemon = "starting" \/ a # Main, RenameFails(a)
      PROVE  FollowInv'
  BY <1>13 DEF RenameFails, ReplaceTorn, ChangeFails, Transition
<1>14. ASSUME NEW c \in Conn, Finish(c)
      PROVE  FollowInv'
  BY <1>14 DEF Finish, Released, Worked, Relist
<1>15. ASSUME NEW c \in Conn, StatusList(c) \/ StatusFocus(c) \/ StatusSet(c)
      PROVE  FollowInv'
  BY <1>15 DEF StatusList, StatusFocus, StatusSet, Transition
<1>16. ASSUME NEW c \in Conn, Reply(c)
      PROVE  FollowInv'
  BY <1>16 DEF Reply, Released, Transition
<1>17. CASE Up
  BY <1>17 DEF Up, Transition, Released
<1>18. CASE Interrupt \/ Exit
  BY <1>18 DEF Interrupt, Exit
<1>19. CASE DisableRead
  BY <1>19 DEF DisableRead, Take, Transition
<1>20. CASE DisableWrite
  BY <1>20 DEF DisableWrite, Transition, Released, Replace, ReplaceTorn, NoLonger
<1>21. CASE Kill
  BY <1>21 DEF Kill, Unlocked
<1>22. CASE Start
  BY <1>22 DEF Start, Starting, Unlocked, NoLonger
<1>23. CASE Edit
  BY <1>23 DEF Edit
<1>24. CASE TuiStart \/ TuiShow \/ TuiChange \/ TuiRead
  BY <1>24 DEF TuiStart, TuiShow, TuiChange, TuiRead, NoLonger
<1>25. CASE TuiWrite
  BY <1>25 DEF TuiWrite, Replace, ReplaceTorn
<1>26. CASE TuiFails \/ TuiEnd
  BY <1>26 DEF TuiFails, TuiEnd, NoLonger
<1>27. CASE UNCHANGED vars
  BY <1>27 DEF vars
<1> QED
  BY <1>1, <1>2, <1>3, <1>4, <1>5, <1>6, <1>7, <1>8, <1>9, <1>10, <1>11, <1>12, <1>13,
     <1>14, <1>15, <1>16, <1>17, <1>18, <1>19, <1>20, <1>21, <1>22, <1>23, <1>24,
     <1>25, <1>26, <1>27
  DEF Next, Handle, Rewrite, MainStep, Others, Agent

(* Nothing is listed that has left the set. *)
LEMMA ListStep == TypeOK /\ LockInv /\ WorkInv /\ ListInv /\ [Next]_vars => ListInv'
<1> SUFFICES ASSUME TypeOK, LockInv, WorkInv, ListInv, [Next]_vars PROVE ListInv'
  OBVIOUS
<1> USE AgentAssumption, DomainAssumption, LineAssumption, BoundAssumption
    DEF LockInv, WorkInv, ListInv, TypeOK, Quiet, Op, PC, Mutex, memory, hosts, work, terminal, counters, history, file, daemonVars,
        Agent, Busy, Waiting, Working
<1>1. ASSUME NEW c \in Conn, Accept(c)
      PROVE  ListInv'
  BY <1>1 DEF Accept, Transition
<1>2. ASSUME NEW c \in Conn, TakePf(c)
      PROVE  ListInv'
  BY <1>2 DEF TakePf, Take, Begin, ToRemove, ToAdd
<1>3. ASSUME NEW c \in Conn, TakeFlag(c)
      PROVE  ListInv'
  BY <1>3 DEF TakeFlag, Take, Transition
<1>4. ASSUME NEW c \in Conn, TakeDynamic(c)
      PROVE  ListInv'
  BY <1>4 DEF TakeDynamic, Take, Transition, Begin, ToRemove, ToAdd
<1>5. ASSUME NEW c \in Conn, TakeApps(c)
      PROVE  ListInv'
  BY <1>5 DEF TakeApps, Take, Worked
<1>6. ASSUME NEW a \in Agent, daemon = "starting" \/ a # Main, Remove(a)
      PROVE  ListInv'
  BY <1>6 DEF Remove
<1>7. ASSUME NEW a \in Agent, daemon = "starting" \/ a # Main, AddKnown(a)
      PROVE  ListInv'
  BY <1>7 DEF AddKnown
<1>8. ASSUME NEW a \in Agent, daemon = "starting" \/ a # Main, Add(a)
      PROVE  ListInv'
  BY <1>8 DEF Add, Transition
<1>9. ASSUME NEW a \in Agent, daemon = "starting" \/ a # Main, ReadHosts(a)
      PROVE  ListInv'
  BY <1>9 DEF ReadHosts, Transition
<1>10. ASSUME NEW a \in Agent, daemon = "starting" \/ a # Main, WriteHosts(a)
      PROVE  ListInv'
  BY <1>10 DEF WriteHosts, Replace, Transition
<1>11. ASSUME NEW a \in Agent, daemon = "starting" \/ a # Main, WriteTorn(a)
      PROVE  ListInv'
  BY <1>11 DEF WriteTorn, ReplaceTorn, Transition
<1>12. ASSUME NEW a \in Agent, daemon = "starting" \/ a # Main, HostsFail(a)
      PROVE  ListInv'
  BY <1>12 DEF HostsFail, ChangeFails, NoLonger
<1>13. ASSUME NEW a \in Agent, daemon = "starting" \/ a # Main, RenameFails(a)
      PROVE  ListInv'
  BY <1>13 DEF RenameFails, ReplaceTorn, ChangeFails, Transition
<1>14. ASSUME NEW c \in Conn, Finish(c)
      PROVE  ListInv'
  BY <1>14 DEF Finish, Released, Worked, Relist
<1>15. ASSUME NEW c \in Conn, StatusList(c) \/ StatusFocus(c) \/ StatusSet(c)
      PROVE  ListInv'
  BY <1>15 DEF StatusList, StatusFocus, StatusSet, Transition
<1>16. ASSUME NEW c \in Conn, Reply(c)
      PROVE  ListInv'
  BY <1>16 DEF Reply, Released, Transition
<1>17. CASE Up
  BY <1>17 DEF Up, Transition, Released
<1>18. CASE Interrupt \/ Exit
  BY <1>18 DEF Interrupt, Exit
<1>19. CASE DisableRead
  BY <1>19 DEF DisableRead, Take, Transition
<1>20. CASE DisableWrite
  BY <1>20 DEF DisableWrite, Transition, Released, Replace, ReplaceTorn, NoLonger
<1>21. CASE Kill
  BY <1>21 DEF Kill, Unlocked
<1>22. CASE Start
  BY <1>22 DEF Start, Starting, Unlocked, NoLonger
<1>23. CASE Edit
  BY <1>23 DEF Edit
<1>24. CASE TuiStart \/ TuiShow \/ TuiChange \/ TuiRead
  BY <1>24 DEF TuiStart, TuiShow, TuiChange, TuiRead, NoLonger
<1>25. CASE TuiWrite
  BY <1>25 DEF TuiWrite, Replace, ReplaceTorn
<1>26. CASE TuiFails \/ TuiEnd
  BY <1>26 DEF TuiFails, TuiEnd, NoLonger
<1>27. CASE UNCHANGED vars
  BY <1>27 DEF vars
<1> QED
  BY <1>1, <1>2, <1>3, <1>4, <1>5, <1>6, <1>7, <1>8, <1>9, <1>10, <1>11, <1>12, <1>13,
     <1>14, <1>15, <1>16, <1>17, <1>18, <1>19, <1>20, <1>21, <1>22, <1>23, <1>24,
     <1>25, <1>26, <1>27
  DEF Next, Handle, Rewrite, MainStep, Others, Agent

(* Nothing stays in the set that no list will name. *)
LEMMA LeakStep == TypeOK /\ LockInv /\ WorkInv /\ LeakInv /\ [Next]_vars => LeakInv'
<1> SUFFICES ASSUME TypeOK, LockInv, WorkInv, LeakInv, [Next]_vars PROVE LeakInv'
  OBVIOUS
<1> USE AgentAssumption, DomainAssumption, LineAssumption, BoundAssumption
    DEF LockInv, WorkInv, LeakInv, TypeOK, Quiet, Op, PC, Mutex, memory, hosts, work, terminal, counters, history, file, daemonVars,
        Agent, Busy, Waiting, Working
<1>1. ASSUME NEW c \in Conn, Accept(c)
      PROVE  LeakInv'
  BY <1>1 DEF Accept, Transition
<1>2. ASSUME NEW c \in Conn, TakePf(c)
      PROVE  LeakInv'
  BY <1>2 DEF TakePf, Take, Begin, ToRemove, ToAdd
<1>3. ASSUME NEW c \in Conn, TakeFlag(c)
      PROVE  LeakInv'
  BY <1>3 DEF TakeFlag, Take, Transition
<1>4. ASSUME NEW c \in Conn, TakeDynamic(c)
      PROVE  LeakInv'
  BY <1>4 DEF TakeDynamic, Take, Transition, Begin, ToRemove, ToAdd
<1>5. ASSUME NEW c \in Conn, TakeApps(c)
      PROVE  LeakInv'
  BY <1>5 DEF TakeApps, Take, Worked
<1>6. ASSUME NEW a \in Agent, daemon = "starting" \/ a # Main, Remove(a)
      PROVE  LeakInv'
  BY <1>6 DEF Remove
<1>7. ASSUME NEW a \in Agent, daemon = "starting" \/ a # Main, AddKnown(a)
      PROVE  LeakInv'
  BY <1>7 DEF AddKnown
<1>8. ASSUME NEW a \in Agent, daemon = "starting" \/ a # Main, Add(a)
      PROVE  LeakInv'
  BY <1>8 DEF Add, Transition
<1>9. ASSUME NEW a \in Agent, daemon = "starting" \/ a # Main, ReadHosts(a)
      PROVE  LeakInv'
  BY <1>9 DEF ReadHosts, Transition
<1>10. ASSUME NEW a \in Agent, daemon = "starting" \/ a # Main, WriteHosts(a)
      PROVE  LeakInv'
  BY <1>10 DEF WriteHosts, Replace, Transition
<1>11. ASSUME NEW a \in Agent, daemon = "starting" \/ a # Main, WriteTorn(a)
      PROVE  LeakInv'
  BY <1>11 DEF WriteTorn, ReplaceTorn, Transition
<1>12. ASSUME NEW a \in Agent, daemon = "starting" \/ a # Main, HostsFail(a)
      PROVE  LeakInv'
  BY <1>12 DEF HostsFail, ChangeFails, NoLonger
<1>13. ASSUME NEW a \in Agent, daemon = "starting" \/ a # Main, RenameFails(a)
      PROVE  LeakInv'
  BY <1>13 DEF RenameFails, ReplaceTorn, ChangeFails, Transition
<1>14. ASSUME NEW c \in Conn, Finish(c)
      PROVE  LeakInv'
  BY <1>14 DEF Finish, Released, Worked, Relist
<1>15. ASSUME NEW c \in Conn, StatusList(c) \/ StatusFocus(c) \/ StatusSet(c)
      PROVE  LeakInv'
  <2>1. UNCHANGED <<memory, lock, daemon, command, removes, added, sound>>
    BY <1>15 DEF StatusList, StatusFocus, StatusSet
  <2>2. \A b \in Conn : pc'[b] = pc[b] \/ pc'[b] \in {"list", "focus", "names"}
    BY <1>15 DEF StatusList, StatusFocus, StatusSet, Transition
  <2> QED
    BY <2>1, <2>2
<1>16. ASSUME NEW c \in Conn, Reply(c)
      PROVE  LeakInv'
  BY <1>16 DEF Reply, Released, Transition
<1>17. CASE Up
  BY <1>17 DEF Up, Transition, Released
<1>18. CASE Interrupt \/ Exit
  BY <1>18 DEF Interrupt, Exit
<1>19. CASE DisableRead
  BY <1>19 DEF DisableRead, Take, Transition
<1>20. CASE DisableWrite
  BY <1>20 DEF DisableWrite, Transition, Released, Replace, ReplaceTorn, NoLonger
<1>21. CASE Kill
  BY <1>21 DEF Kill, Unlocked
<1>22. CASE Start
  BY <1>22 DEF Start, Starting, Unlocked, NoLonger
<1>23. CASE Edit
  BY <1>23 DEF Edit
<1>24. CASE TuiStart \/ TuiShow \/ TuiChange \/ TuiRead
  BY <1>24 DEF TuiStart, TuiShow, TuiChange, TuiRead, NoLonger
<1>25. CASE TuiWrite
  BY <1>25 DEF TuiWrite, Replace, ReplaceTorn
<1>26. CASE TuiFails \/ TuiEnd
  BY <1>26 DEF TuiFails, TuiEnd, NoLonger
<1>27. CASE UNCHANGED vars
  BY <1>27 DEF vars
<1> QED
  BY <1>1, <1>2, <1>3, <1>4, <1>5, <1>6, <1>7, <1>8, <1>9, <1>10, <1>11, <1>12, <1>13,
     <1>14, <1>15, <1>16, <1>17, <1>18, <1>19, <1>20, <1>21, <1>22, <1>23, <1>24,
     <1>25, <1>26, <1>27
  DEF Next, Handle, Rewrite, MainStep, Others, Agent

(* A rewrite writes back the lines that it has read. *)
LEMMA KeptStep == TypeOK /\ LockInv /\ KeptInv /\ [Next]_vars => KeptInv'
<1> SUFFICES ASSUME TypeOK, LockInv, KeptInv, [Next]_vars PROVE KeptInv'
  OBVIOUS
<1> USE AgentAssumption, DomainAssumption, LineAssumption, BoundAssumption
    DEF LockInv, KeptInv, Rewriting, DaemonWrites, TuiWrites, Quiet, TypeOK, PC, Mutex, memory, hosts, work, terminal, counters, history, file, daemonVars,
        Agent, Busy, Waiting, Working
<1>1. ASSUME NEW c \in Conn, Accept(c)
      PROVE  KeptInv'
  BY <1>1 DEF Accept, Transition
<1>2. ASSUME NEW c \in Conn, TakePf(c)
      PROVE  KeptInv'
  BY <1>2 DEF TakePf, Take, Begin, ToRemove, ToAdd
<1>3. ASSUME NEW c \in Conn, TakeFlag(c)
      PROVE  KeptInv'
  BY <1>3 DEF TakeFlag, Take, Transition
<1>4. ASSUME NEW c \in Conn, TakeDynamic(c)
      PROVE  KeptInv'
  BY <1>4 DEF TakeDynamic, Take, Transition, Begin, ToRemove, ToAdd
<1>5. ASSUME NEW c \in Conn, TakeApps(c)
      PROVE  KeptInv'
  BY <1>5 DEF TakeApps, Take, Worked
<1>6. ASSUME NEW a \in Agent, daemon = "starting" \/ a # Main, Remove(a)
      PROVE  KeptInv'
  BY <1>6 DEF Remove
<1>7. ASSUME NEW a \in Agent, daemon = "starting" \/ a # Main, AddKnown(a)
      PROVE  KeptInv'
  BY <1>7 DEF AddKnown
<1>8. ASSUME NEW a \in Agent, daemon = "starting" \/ a # Main, Add(a)
      PROVE  KeptInv'
  BY <1>8 DEF Add, Transition
<1>9. ASSUME NEW a \in Agent, daemon = "starting" \/ a # Main, ReadHosts(a)
      PROVE  KeptInv'
  BY <1>9 DEF ReadHosts, Transition
<1>10. ASSUME NEW a \in Agent, daemon = "starting" \/ a # Main, WriteHosts(a)
      PROVE  KeptInv'
  BY <1>10 DEF WriteHosts, Replace, Transition
<1>11. ASSUME NEW a \in Agent, daemon = "starting" \/ a # Main, WriteTorn(a)
      PROVE  KeptInv'
  BY <1>11 DEF WriteTorn, ReplaceTorn, Transition
<1>12. ASSUME NEW a \in Agent, daemon = "starting" \/ a # Main, HostsFail(a)
      PROVE  KeptInv'
  BY <1>12 DEF HostsFail, ChangeFails, NoLonger
<1>13. ASSUME NEW a \in Agent, daemon = "starting" \/ a # Main, RenameFails(a)
      PROVE  KeptInv'
  BY <1>13 DEF RenameFails, ReplaceTorn, ChangeFails, Transition
<1>14. ASSUME NEW c \in Conn, Finish(c)
      PROVE  KeptInv'
  BY <1>14 DEF Finish, Released, Worked, Relist
<1>15. ASSUME NEW c \in Conn, StatusList(c) \/ StatusFocus(c) \/ StatusSet(c)
      PROVE  KeptInv'
  BY <1>15 DEF StatusList, StatusFocus, StatusSet, Transition
<1>16. ASSUME NEW c \in Conn, Reply(c)
      PROVE  KeptInv'
  BY <1>16 DEF Reply, Released, Transition
<1>17. CASE Up
  BY <1>17 DEF Up, Transition, Released
<1>18. CASE Interrupt \/ Exit
  BY <1>18 DEF Interrupt, Exit
<1>19. CASE DisableRead
  BY <1>19 DEF DisableRead, Take, Transition
<1>20. CASE DisableWrite
  BY <1>20 DEF DisableWrite, Transition, Released, Replace, ReplaceTorn, NoLonger
<1>21. CASE Kill
  BY <1>21 DEF Kill, Unlocked
<1>22. CASE Start
  BY <1>22 DEF Start, Starting, Unlocked, NoLonger
<1>23. CASE Edit
  BY <1>23 DEF Edit
<1>24. CASE TuiStart \/ TuiShow \/ TuiChange \/ TuiRead
  BY <1>24 DEF TuiStart, TuiShow, TuiChange, TuiRead, NoLonger
<1>25. CASE TuiWrite
  BY <1>25 DEF TuiWrite, Replace, ReplaceTorn
<1>26. CASE TuiFails \/ TuiEnd
  BY <1>26 DEF TuiFails, TuiEnd, NoLonger
<1>27. CASE UNCHANGED vars
  BY <1>27 DEF vars
<1> QED
  BY <1>1, <1>2, <1>3, <1>4, <1>5, <1>6, <1>7, <1>8, <1>9, <1>10, <1>11, <1>12, <1>13,
     <1>14, <1>15, <1>16, <1>17, <1>18, <1>19, <1>20, <1>21, <1>22, <1>23, <1>24,
     <1>25, <1>26, <1>27
  DEF Next, Handle, Rewrite, MainStep, Others, Agent

(* The first start satisfies the invariant. *)
LEMMA HostsInvInit == Init => HostsInv
<1> SUFFICES ASSUME Init PROVE HostsInv
  OBVIOUS
<1> USE AgentAssumption, DomainAssumption, LineAssumption, BoundAssumption
    DEF Init, Agent, Busy, Waiting, Working, Unlocked, Mutex
<1>1. TypeOK
  <2>1. pc \in [Agent -> PC] /\ command \in [Conn -> Command \cup {NoCommand}]
        /\ answer \in [Conn -> {"none", "ok", "error", "lost"}]
    BY DEF PC
  <2>2. failures \in 0..MaxFailures /\ edits \in 0..MaxEdits /\ stops \in 0..MaxStops
        /\ changes \in 0..MaxChanges
    OBVIOUS
  <2>3. lock \in [Mutex -> Agent \cup {Nobody}]
    OBVIOUS
  <2> QED
    BY <2>1, <2>2, <2>3, Zenon DEF TypeOK
<1>2. LockInv /\ WorkInv /\ FollowInv
  BY DEF LockInv, WorkInv, FollowInv, Quiet
<1>3. ListInv /\ LeakInv /\ KeptInv
  BY DEF ListInv, LeakInv, KeptInv, DaemonWrites, TuiWrites
<1> QED
  BY <1>1, <1>2, <1>3 DEF HostsInv

(* The invariant holds throughout. *)
LEMMA HostsInvCorrect == Spec => []HostsInv
<1>1. HostsInv /\ [Next]_vars => HostsInv'
  BY HostsTypeStep, LockStep, WorkStep, FollowStep, ListStep, LeakStep, KeptStep DEF HostsInv
<1> QED
  BY <1>1, HostsInvInit, PTL DEF Spec

(* The variables of the domain blocker keep their types. *)
THEOREM HostsTypeCorrect == Spec => []TypeOK
BY HostsInvCorrect, PTL DEF HostsInv

(* The block of /etc/hosts says what the set of its last writer says, the  *)
(* daemon's whenever no command is at work, the terminal interface's       *)
(* between its changes, beside each other, as long as that one's last      *)
(* rewrite succeeded and shared no temporary file: through kills in the    *)
(* middle of a rewrite and what an earlier daemon left there               *)
(* (pf_blocker.rs, update_hosts_file).                                     *)
THEOREM HostsFollow == Spec => []HostsFollowSet
<1>1. ASSUME HostsInv PROVE HostsFollowSet
  <2>1. ASSUME writer = "daemon", daemon = "up", lock["pf"] = Nobody PROVE own = blocked
    <3>1. pc[Main] = "idle"
      BY <1>1, <2>1 DEF HostsInv, LockInv
    <3>2. \A c \in Conn : ~Busy(c)
      BY <1>1, <2>1, AgentAssumption DEF HostsInv, LockInv, Working, Agent
    <3> QED
      BY <1>1, <2>1, <3>1, <3>2 DEF HostsInv, FollowInv, Busy, Agent
  <2>2. writer = "terminal" /\ tui = "open" => own = screen
    BY <1>1 DEF HostsInv, FollowInv
  <2> QED
    BY <2>1, <2>2 DEF HostsFollowSet
<1> QED
  BY <1>1, HostsInvCorrect, PTL

(* What status lists is in the set, but for suffix keys, even after        *)
(* rewrites that failed: the handlers list what was added, and no more.    *)
THEOREM ListBlocked == Spec => []ListedAreBlocked
<1>1. HostsInv => ListedAreBlocked
  BY DEF HostsInv, ListInv, ListedAreBlocked
<1> QED
  BY <1>1, HostsInvCorrect, PTL

(* What is blocked is on the default list or listed, so that sync and      *)
(* focus_off find it, as long as every rewrite succeeded.                  *)
THEOREM NoLeaks == Spec => []NothingLeaks
<1>1. HostsInv => NothingLeaks
  BY DEF HostsInv, LeakInv, NothingLeaks
<1> QED
  BY <1>1, HostsInvCorrect, PTL

(* No rewrite of /etc/hosts, by the daemon or the terminal interface,      *)
(* loses a line of others that was there while none was at work, unless    *)
(* disable could not read or both wrote their temporary file at once.      *)
THEOREM OthersKept == Spec => []OtherLinesKept
<1>1. HostsInv => OtherLinesKept
  BY DEF HostsInv, KeptInv, OtherLinesKept
<1> QED
  BY <1>1, HostsInvCorrect, PTL

(* Only the end of a block command answers it, and its domains are then    *)
(* all added and written.                                                  *)
LEMMA EffectStep ==
  ASSUME HostsInv, [Next]_vars, NEW c \in Conn, Blocking(c),
         pc'[c] = "done", answer'[c] = "ok", writer = "daemon"
  PROVE  command[c].domains \ SuffixKey \subseteq own
<1> USE AgentAssumption DEF HostsInv, TypeOK, Agent, PC, Blocking
<1>1. CASE Finish(c)
  <2>1. Busy(c) /\ Working(c) /\ lock["pf"] = c
    BY DEF LockInv, Busy, Working
  <2>2. removes = {} /\ adds = {} /\ ~failed
    BY <1>1 DEF Finish, Worked
  <2>3. command[c].domains \subseteq added /\ added \subseteq blocked \cup SuffixKey
    BY <2>1, <2>2 DEF WorkInv
  <2>4. \A b \in Conn : b # c => ~Busy(b)
    BY <2>1 DEF LockInv, Working
  <2>5. daemon # "down" /\ pc[Main] # "disable" /\ pc[Main] \notin {"read", "write"}
    BY <2>1 DEF LockInv, Quiet, Busy
  <2>6. \A a \in Agent : pc[a] \notin {"read", "write"}
    BY <2>4, <2>5 DEF Busy
  <2>7. own = blocked
    BY <2>5, <2>6 DEF FollowInv
  <2> QED
    BY <2>3, <2>7
<1>2. pc[c] = "work" /\ ~Quiet(c)
  BY DEF Quiet
<1>3. ~Kill
  BY <1>2 DEF Kill
<1>4. ASSUME ~Finish(c) PROVE FALSE
  <2>1. ASSUME NEW b \in Conn, Accept(b) PROVE FALSE
    BY <2>1 DEF Accept, Transition
  <2>2. ASSUME NEW a \in Agent, Rewrite(a) PROVE FALSE
    BY <2>2 DEF Rewrite, Remove, AddKnown, Add, ReadHosts, WriteHosts, WriteTorn, HostsFail,
                RenameFails, Transition
  <2>3. ASSUME NEW b \in Conn, TakePf(b) \/ TakeFlag(b) \/ TakeDynamic(b) \/ TakeApps(b)
        PROVE  FALSE
    BY <2>3 DEF TakePf, TakeFlag, TakeDynamic, TakeApps, Transition
  <2>4. ASSUME NEW b \in Conn, StatusList(b) \/ StatusFocus(b) \/ StatusSet(b) \/ Reply(b)
        PROVE  FALSE
    BY <2>4 DEF StatusList, StatusFocus, StatusSet, Reply, Transition
  <2>5. ASSUME NEW b \in Conn, Finish(b) PROVE FALSE
    BY <1>4, <2>5 DEF Finish
  <2>6. ~(Up \/ DisableRead \/ DisableWrite)
    BY DEF Up, DisableRead, DisableWrite, Transition
  <2>7. ~(Interrupt \/ Exit \/ Start \/ UNCHANGED vars)
    BY DEF Interrupt, Exit, Start, vars
  <2>8. ~Others
    BY DEF Others, Edit, TuiStart, TuiShow, TuiChange, TuiRead, TuiWrite, TuiFails, TuiEnd,
           daemonVars
  <2> QED
    BY <1>3, <2>1, <2>2, <2>3, <2>4, <2>5, <2>6, <2>7, <2>8 DEF Next, Handle, MainStep
<1> QED
  BY <1>1, <1>4

(* A block command is answered ok only when its domains are in the file,   *)
(* if the daemon was the last to rewrite it and that rewrite succeeded:    *)
(* also a command tried again after a failure that another one has mended. *)
THEOREM BlockSound == Spec => SoundBlockTakesEffect
<1>1. HostsInv /\ [Next]_vars =>
        [\A c \in Conn : Blocking(c) /\ pc'[c] = "done" /\ answer'[c] = "ok"
                          /\ writer = "daemon"
           => command[c].domains \ SuffixKey \subseteq own]_vars
  BY EffectStep
<1> QED
  BY <1>1, HostsInvCorrect, PTL DEF Spec, SoundBlockTakesEffect

-------------------------------------------------------------------------------
(***************************************************************************)
(* The application watcher                                                 *)
(***************************************************************************)
LEMMA WatcherTypeStep == WatcherTypeOK /\ [WatcherNext]_watcherVars => WatcherTypeOK'
<1> SUFFICES ASSUME WatcherTypeOK, [WatcherNext]_watcherVars PROVE WatcherTypeOK'
  OBVIOUS
<1> USE PathAssumption, LimitAssumption DEF WatcherTypeOK, watcher, Sets, NoSet
<1>1. ASSUME NEW p \in Pid, NEW exe \in Path, BeginProcess(p, exe) PROVE WatcherTypeOK'
  BY <1>1 DEF BeginProcess, Becomes
<1>2. ASSUME NEW p \in Pid, EndProcess(p) PROVE WatcherTypeOK'
  BY <1>2 DEF EndProcess, Becomes
<1>3. ASSUME NEW p \in Pid, Notify(p) PROVE WatcherTypeOK'
  BY <1>3 DEF Notify, Becomes
<1>4. ASSUME NEW p \in Pid, ReadExe(p) PROVE WatcherTypeOK'
  BY <1>4 DEF ReadExe
<1>5. ASSUME NEW p \in Pid, Judge(p) PROVE WatcherTypeOK'
  BY <1>5 DEF Judge, Judges
<1>6. ASSUME NEW p \in Pid, KillPid(p) PROVE WatcherTypeOK'
  BY <1>6 DEF KillPid, Becomes
<1>7. ASSUME NEW entry \in Entries, BlockApp(entry) \/ UnblockApp(entry) PROVE WatcherTypeOK'
  <2>1. entry \in Sets
    BY DEF Entries
  <2>2. blockedSet' \in Sets
    BY <1>7, <2>1 DEF BlockApp, UnblockApp
  <2> QED
    BY <1>7, <2>2 DEF BlockApp, UnblockApp, SetCommand
<1>8. ASSUME NEW names \in SUBSET Name, NEW patterns \in SUBSET Pattern, Sync(names, patterns)
      PROVE  WatcherTypeOK'
  <2>1. blockedSet' = [paths |-> blockedSet.paths, names |-> names, patterns |-> patterns]
    BY <1>8 DEF Sync
  <2> QED
    BY <1>8, <2>1 DEF Sync, SetCommand
<1>9. CASE ListPids
  BY <1>9 DEF ListPids
<1>10. CASE Lock
  BY <1>10 DEF Lock
<1>11. CASE Unlock
  BY <1>11 DEF Unlock
<1>12. CASE Sleep
  BY <1>12 DEF Sleep
<1>13. CASE UNCHANGED watcherVars
  BY <1>13 DEF watcherVars
<1> QED
  BY <1>1, <1>2, <1>3, <1>4, <1>5, <1>6, <1>7, <1>8, <1>9, <1>10, <1>11, <1>12, <1>13 DEF WatcherNext

LEMMA WatcherTypeInit == WatcherInit => WatcherTypeOK
BY PathAssumption, LimitAssumption DEF WatcherInit, WatcherTypeOK, Sets, NoSet

(* The variables of the watcher keep their types. *)
THEOREM WatcherTypeCorrect == WatcherSpec => []WatcherTypeOK
BY WatcherTypeInit, WatcherTypeStep, PTL DEF WatcherSpec

-------------------------------------------------------------------------------
(* The strengthening: what was read of a process that has not changed is   *)
(* still true; while the set is locked the processes judged are those that *)
(* have left todo, and their verdicts fit the set.                         *)
Guilty(p) == IsBlocked(sentence, image[p], BaseOf(image[p]))
Watching(p) ==
  /\ phase \in {"sleep", "list"} => p \notin condemned
  /\ phase = "list" /\ p \in todo => exePath[p] = None
  /\ phase = "judge" /\ p \in todo => p \notin condemned
  /\ exePath[p] # None /\ p \notin swapped =>
       /\ image[p] = exePath[p]
       /\ phase = "kill" \/ (phase = "judge" /\ p \notin todo)
            => (p \in condemned <=> Guilty(p))

WatcherInv ==
  /\ WatcherTypeOK
  /\ phase = "judge" => sentence = blockedSet
  /\ \A p \in Pid : Watching(p)

(* What happens to a process does not disturb what is known of it, because *)
(* its pid is noted.                                                       *)
LEMMA BecomesStep ==
  ASSUME WatcherInv, NEW p \in Pid, NEW exe \in Path \cup {None}, Becomes(p, exe),
         UNCHANGED <<blockedSet, phase, todo, exePath, sentence>>,
         condemned' \in {condemned, condemned \ {p}}, phase # "kill" => condemned' = condemned
  PROVE  WatcherTypeOK' => WatcherInv'
<1>1. ASSUME NEW q \in Pid PROVE Watching(q)'
  <2>1. CASE q = p
    BY <1>1, <2>1 DEF WatcherInv, WatcherTypeOK, Watching, Becomes
  <2>2. CASE q # p
    <3>1. image'[q] = image[q] /\ (q \in swapped' <=> q \in swapped)
          /\ (q \in condemned' <=> q \in condemned)
      BY <2>2 DEF WatcherInv, WatcherTypeOK, Becomes
    <3> QED
      BY <1>1, <3>1 DEF WatcherInv, Watching, Guilty
  <2> QED
    BY <2>1, <2>2
<1> QED
  BY <1>1 DEF WatcherInv

LEMMA WatchingStep == WatcherInv /\ [WatcherNext]_watcherVars => WatcherInv'
<1> SUFFICES ASSUME WatcherInv, [WatcherNext]_watcherVars PROVE WatcherInv'
  OBVIOUS
<1>0. WatcherTypeOK /\ WatcherTypeOK'
  BY WatcherTypeStep DEF WatcherInv
<1> USE DEF watcher
<1>1. ASSUME NEW p \in Pid, NEW exe \in Path, BeginProcess(p, exe) PROVE WatcherInv'
  <2>1. Becomes(p, exe) /\ UNCHANGED <<blockedSet, phase, todo, exePath, sentence, condemned>>
    BY <1>1 DEF BeginProcess
  <2> QED
    BY <1>0, <2>1, BecomesStep
<1>2. ASSUME NEW p \in Pid, EndProcess(p) PROVE WatcherInv'
  <2>1. Becomes(p, None) /\ UNCHANGED <<blockedSet, phase, todo, exePath, sentence, condemned>>
    BY <1>2 DEF EndProcess
  <2> QED
    BY <1>0, <2>1, BecomesStep
<1>3. ASSUME NEW p \in Pid, Notify(p) PROVE WatcherInv'
  <2>1. Becomes(p, Osascript) /\ UNCHANGED <<blockedSet, phase, todo, exePath, sentence, condemned>>
        /\ Osascript \in Path
    BY <1>3, PathAssumption DEF Notify
  <2> QED
    BY <1>0, <2>1, BecomesStep
<1>4. ASSUME NEW p \in Pid, ReadExe(p) PROVE WatcherInv'
  <2>1. ASSUME NEW q \in Pid PROVE Watching(q)'
    BY <1>0, <1>4, <2>1 DEF ReadExe, WatcherInv, WatcherTypeOK, Watching
  <2> QED
    BY <1>0, <1>4, <2>1 DEF ReadExe, WatcherInv
<1>5. ASSUME NEW p \in Pid, Judge(p) PROVE WatcherInv'
  <2>1. PICK exe \in {image[p], exePath[p]} : Judges(p, exe)
    BY <1>5 DEF Judge
  <2>2. ASSUME NEW q \in Pid PROVE Watching(q)'
    <3>1. CASE q = p
      <4>1. exePath[p] # None /\ p \notin swapped => exe = image[p] /\ exePath[p] = image[p]
        BY <2>1 DEF WatcherInv, Watching
      <4>2. exePath[p] # None /\ p \notin swapped => (p \in condemned' <=> Guilty(p))
        BY <2>1, <4>1 DEF Judges, WatcherInv, Watching, Guilty
      <4>3. Guilty(p)' <=> Guilty(p)
        BY <2>1 DEF Judges, Guilty
      <4>4. p \notin todo'
        BY <2>1 DEF Judges
      <4> QED
        BY <2>1, <3>1, <4>1, <4>2, <4>3, <4>4 DEF Judges, Watching
    <3>2. CASE q # p
      <4>1. (q \in condemned' <=> q \in condemned) /\ (q \in todo' <=> q \in todo)
            /\ UNCHANGED <<phase, image, exePath, swapped, sentence>>
        BY <2>1, <3>2 DEF Judges
      <4> QED
        BY <2>2, <4>1 DEF WatcherInv, Watching, Guilty
    <3> QED
      BY <3>1, <3>2
  <2> QED
    BY <1>0, <2>1, <2>2 DEF Judges, WatcherInv
<1>6. ASSUME NEW p \in Pid, KillPid(p) PROVE WatcherInv'
  <2>1. CASE image[p] = None
    <3>1. ASSUME NEW q \in Pid PROVE Watching(q)'
      BY <1>0, <1>6, <2>1, <3>1 DEF KillPid, WatcherInv, Watching, Guilty
    <3> QED
      BY <1>0, <1>6, <2>1, <3>1 DEF KillPid, WatcherInv
  <2>2. CASE image[p] # None
    <3>1. Becomes(p, None) /\ UNCHANGED <<blockedSet, phase, todo, exePath, sentence>>
          /\ phase = "kill" /\ condemned' = condemned \ {p}
      BY <1>6, <2>2 DEF KillPid
    <3> QED
      BY <1>0, <3>1, BecomesStep
  <2> QED
    BY <2>1, <2>2
<1>7. ASSUME SetCommand PROVE WatcherInv'
  <2>1. ASSUME NEW q \in Pid PROVE Watching(q)'
    BY <1>7, <2>1 DEF SetCommand, WatcherInv, Watching, Guilty
  <2> QED
    BY <1>0, <1>7, <2>1 DEF SetCommand, WatcherInv
<1>8. CASE ListPids
  <2>1. ASSUME NEW q \in Pid PROVE Watching(q)'
    BY <1>8, <2>1 DEF ListPids, WatcherInv, Watching
  <2> QED
    BY <1>0, <1>8, <2>1 DEF ListPids, WatcherInv
<1>9. CASE Lock
  <2>1. ASSUME NEW q \in Pid PROVE Watching(q)'
    BY <1>9, <2>1 DEF Lock, WatcherInv, Watching
  <2> QED
    BY <1>0, <1>9, <2>1 DEF Lock, WatcherInv
<1>10. CASE Unlock
  <2>1. ASSUME NEW q \in Pid PROVE Watching(q)'
    BY <1>10, <2>1 DEF Unlock, WatcherInv, Watching, Guilty
  <2> QED
    BY <1>0, <1>10, <2>1 DEF Unlock, WatcherInv
<1>11. CASE Sleep
  <2>1. ASSUME NEW q \in Pid PROVE Watching(q)'
    BY <1>11, <2>1 DEF Sleep, WatcherInv, Watching
  <2> QED
    BY <1>0, <1>11, <2>1 DEF Sleep, WatcherInv
<1>12. CASE UNCHANGED watcherVars
  <2>1. ASSUME NEW q \in Pid PROVE Watching(q)'
    BY <1>12, <2>1 DEF watcherVars, WatcherInv, Watching, Guilty
  <2> QED
    BY <1>0, <1>12, <2>1 DEF watcherVars, WatcherInv
<1> QED
  BY <1>1, <1>2, <1>3, <1>4, <1>5, <1>6, <1>7, <1>8, <1>9, <1>10, <1>11, <1>12
     DEF WatcherNext, BlockApp, UnblockApp, Sync

(* Those about to be killed are those that the set blocked when it was     *)
(* locked, among the processes that have not changed since they were read. *)
THEOREM VerdictFitsHolds == WatcherSpec => []VerdictFits
<1>1. WatcherInit => WatcherInv
  <2>1. ASSUME WatcherInit, NEW p \in Pid PROVE Watching(p)
    BY <2>1 DEF WatcherInit, Watching
  <2> QED
    BY <2>1, WatcherTypeInit DEF WatcherInit, WatcherInv
<1>2. WatcherInv => VerdictFits
  BY DEF WatcherInv, Watching, Guilty, VerdictFits
<1> QED
  BY <1>1, <1>2, WatchingStep, PTL DEF WatcherSpec
===============================================================================
