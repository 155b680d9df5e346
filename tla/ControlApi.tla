------------------------------ MODULE ControlApi ------------------------------
(***************************************************************************)
(* What the control socket of the Linux daemon promises its clients: every *)
(* command that edits the lists takes effect at one instant, and Status    *)
(* reads the domain list, the focus flag and the application list at three *)
(* instants in that order.  ControlServer is the locking that implements   *)
(* it.                                                                     *)
(***************************************************************************)
CONSTANTS
  Conn,      \* the client connections, one command each
  Command,   \* the commands a client may send
  None       \* "no command yet"

VARIABLES
  listed,    \* the domains blocked on request, as Status shows them
  focus,     \* the focus-mode flag
  paths,     \* the blocked executable paths
  names,     \* the blocked executable names and name patterns
  request,   \* the command of each connection, None before it arrives
  answer,    \* "none", then "ok" or "error"
  report     \* what Status has collected for each connection so far

vars == <<listed, focus, paths, names, request, answer, report>>

EmptyReport == [stage |-> 0, listed |-> {}, focus |-> FALSE,
                paths |-> {}, names |-> {}]

Init ==
  /\ listed = {} /\ focus = FALSE /\ paths = {} /\ names = {}
  /\ request = [c \in Conn |-> None]
  /\ answer = [c \in Conn |-> "none"]
  /\ report = [c \in Conn |-> EmptyReport]

Accept(c) ==
  /\ request[c] = None
  /\ \E r \in Command : request' = [request EXCEPT ![c] = r]
  /\ UNCHANGED <<listed, focus, paths, names, answer, report>>

(* The command of c has the given name and waits for its answer. *)
Pending(c, op) == request[c] # None /\ request[c].op = op /\ answer[c] = "none"

Answer(c, ok) ==
  /\ answer' = [answer EXCEPT ![c] = IF ok THEN "ok" ELSE "error"]
  /\ UNCHANGED <<request, report>>

Block(c) ==
  /\ Pending(c, "block")
  /\ \E added \in SUBSET request[c].domains :
       /\ listed' = listed \cup added
       /\ Answer(c, added = request[c].domains)
  /\ UNCHANGED <<focus, paths, names>>

(* An error only says that some domain was not blocked to begin with. *)
Unblock(c) ==
  /\ Pending(c, "unblock")
  /\ listed' = listed \ request[c].domains
  /\ \E ok \in BOOLEAN : Answer(c, ok)
  /\ UNCHANGED <<focus, paths, names>>

Sync(c) ==
  /\ Pending(c, "sync")
  /\ \E kept \in SUBSET request[c].domains :
       /\ listed' = kept
       /\ Answer(c, kept = request[c].domains)
  /\ names' = request[c].names
  /\ UNCHANGED <<focus, paths>>

FocusOn(c) ==
  /\ Pending(c, "focus_on")
  /\ \E added \in SUBSET request[c].domains : listed' = listed \cup added
  /\ focus' = TRUE
  /\ Answer(c, TRUE)
  /\ UNCHANGED <<paths, names>>

FocusOff(c) ==
  /\ Pending(c, "focus_off")
  /\ listed' = {} /\ focus' = FALSE
  /\ Answer(c, TRUE)
  /\ UNCHANGED <<paths, names>>

BlockApp(c) ==
  /\ Pending(c, "block_app")
  /\ paths' = paths \cup request[c].paths
  /\ names' = names \cup request[c].names
  /\ Answer(c, TRUE)
  /\ UNCHANGED <<listed, focus>>

UnblockApp(c) ==
  /\ Pending(c, "unblock_app")
  /\ paths' = paths \ request[c].paths
  /\ names' = names \ request[c].names
  /\ Answer(c, TRUE)
  /\ UNCHANGED <<listed, focus>>

ReadListed(c) ==
  /\ Pending(c, "status") /\ report[c].stage = 0
  /\ report' = [report EXCEPT ![c].stage = 1, ![c].listed = listed]
  /\ UNCHANGED <<listed, focus, paths, names, request, answer>>

ReadFocus(c) ==
  /\ Pending(c, "status") /\ report[c].stage = 1
  /\ report' = [report EXCEPT ![c].stage = 2, ![c].focus = focus]
  /\ UNCHANGED <<listed, focus, paths, names, request, answer>>

ReadApps(c) ==
  /\ Pending(c, "status") /\ report[c].stage = 2
  /\ report' = [report EXCEPT ![c].stage = 3,
                              ![c].paths = paths, ![c].names = names]
  /\ answer' = [answer EXCEPT ![c] = "ok"]
  /\ UNCHANGED <<listed, focus, paths, names, request>>

Step(c) ==
  \/ Accept(c) \/ Block(c) \/ Unblock(c) \/ Sync(c) \/ FocusOn(c) \/ FocusOff(c)
  \/ BlockApp(c) \/ UnblockApp(c)
  \/ ReadListed(c) \/ ReadFocus(c) \/ ReadApps(c)

Next == \E c \in Conn : Step(c)

Spec == Init /\ [][Next]_vars
===============================================================================
