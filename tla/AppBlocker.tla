------------------------------ MODULE AppBlocker ------------------------------
(***************************************************************************)
(* The Linux application blocker (antidistractor/src/app_blocker.rs): the  *)
(* kernel holds every exec of the system until the blocker thread has      *)
(* read the event and answered it.  The thread reads events in batches,    *)
(* looks each one up in the set that commands change meanwhile, answers,   *)
(* and after a denial starts notify-send in a process of its own, whose    *)
(* exec is an event like any other.                                        *)
(*                                                                         *)
(* From fanotify(7): a full queue lets an exec through and delivers an     *)
(* event without a descriptor, which the thread skips; closing the         *)
(* descriptor lets all waiting execs through.  No event ever carries the   *)
(* daemon's own pid, which does not exec: that branch, and the one for     *)
(* other kinds of events than the mark asks for, are left out.             *)
(***************************************************************************)
EXTENDS Naturals, Sequences, SequencesExt, FiniteSets

CONSTANTS
  Proc,          \* processes that may call exec, in any order
  Program,       \* executable files, by their paths
  NotifySend,    \* the one that shows a notification
  Unknown,       \* what stands for a path that cannot be read, "<unknown>"
  AppName,       \* their names
  Pattern,       \* the prefix patterns that commands block
  Base,          \* the name of each program
  Matches,       \* the names that each pattern matches
  Blockable,     \* the paths, names and patterns that commands block
  QueueLimit,    \* events the kernel queues
  BatchLimit,    \* events that fit the read buffer
  MaxExecs,      \* bound on the execs of the user
  MaxRestarts    \* bound on the restarts of the daemon

ASSUME ProgramAssumption ==
  /\ NotifySend \in Program
  /\ Base \in [Program \cup {Unknown} -> AppName] /\ Matches \in [Pattern -> SUBSET AppName]
  /\ Blockable \subseteq Program \cup AppName \cup Pattern
ASSUME BoundAssumption ==
  /\ QueueLimit \in Nat \ {0} /\ BatchLimit \in Nat \ {0}
  /\ MaxExecs \in Nat /\ MaxRestarts \in Nat

VARIABLES
  blocked,       \* BlockedSet: its paths, names and patterns in one set
  thread,        \* "start", "read", "batch", "answer", "ended"
  queue,         \* the processes whose events wait in the kernel
  batch,         \* those whose events the thread has read
  deny,          \* what is_blocked said of the first one of the batch
  state,         \* of each process: "none", "asked", "running", "denied"
  program,       \* what it executes
  notifier,      \* the processes started to show a notification
  notices,       \* notifications still to be started
  due,           \* history: blocked all the time since the exec was asked for,
                 \* but for those whose path could not be read
  execs,         \* execs of the user so far
  restarts       \* restarts so far

vars == <<blocked, thread, queue, batch, deny, state, program, notifier, notices,
          due, execs, restarts>>

TypeOK ==
  /\ blocked \subseteq Blockable
  /\ thread \in {"start", "read", "batch", "answer", "ended"}
  /\ queue \in Seq(Proc) /\ Len(queue) <= QueueLimit
  /\ batch \in Seq(Proc) /\ Len(batch) <= BatchLimit
  /\ (thread \in {"batch", "answer"}) = (batch # <<>>)
  /\ deny \in BOOLEAN
  /\ state \in [Proc -> {"none", "asked", "running", "denied"}]
  /\ program \in [Proc -> Program]
  /\ notifier \subseteq Proc /\ due \subseteq Proc
  /\ notices \in Nat
  /\ execs \in 0..MaxExecs /\ restarts \in 0..MaxRestarts

Init ==
  /\ blocked = {} /\ thread = "start" /\ queue = <<>> /\ batch = <<>> /\ deny = FALSE
  /\ state = [p \in Proc |-> "none"] /\ program = [p \in Proc |-> NotifySend]
  /\ notifier = {} /\ notices = 0 /\ due = {} /\ execs = 0 /\ restarts = 0

-------------------------------------------------------------------------------
(* BlockedSet::is_blocked *)
IsBlocked(g, set) ==
  \/ g \in set
  \/ Base[g] \in set
  \/ \E t \in Pattern \cap set : Base[g] \in Matches[t]

-------------------------------------------------------------------------------
(***************************************************************************)
(* Commands (control_server.rs): one insertion or removal under the lock   *)
(***************************************************************************)
Change(set) ==
  /\ blocked' = set
  /\ due' = {p \in due : IsBlocked(program[p], set)}
  /\ UNCHANGED <<thread, queue, batch, deny, state, program, notifier, notices,
                 execs, restarts>>

BlockApp(b) == Change(blocked \cup {b})
UnblockApp(b) == Change(blocked \ {b})

-------------------------------------------------------------------------------
(***************************************************************************)
(* Processes and the kernel                                                *)
(***************************************************************************)
Marked == thread \in {"read", "batch", "answer"}

(* Without the mark, or with a full queue, the exec goes on at once. *)
Exec(p, g) ==
  /\ state[p] = "none"
  /\ program' = [program EXCEPT ![p] = g]
  /\ IF Marked /\ Len(queue) < QueueLimit
       THEN state' = [state EXCEPT ![p] = "asked"] /\ queue' = Append(queue, p)
       ELSE state' = [state EXCEPT ![p] = "running"] /\ UNCHANGED queue
  /\ due' = IF state'[p] = "asked" /\ IsBlocked(g, blocked) THEN due \cup {p} ELSE due
  /\ UNCHANGED <<blocked, thread, batch, deny, restarts>>

UserExec(p, g) ==
  /\ execs < MaxExecs /\ execs' = execs + 1
  /\ Exec(p, g)
  /\ UNCHANGED <<notifier, notices>>

(* A notification thread starts notify-send. *)
Notify(p) ==
  /\ notices > 0 /\ notices' = notices - 1
  /\ notifier' = notifier \cup {p}
  /\ Exec(p, NotifySend)
  /\ UNCHANGED execs

(* The program ends, or the process gives up after a denial. *)
Exit(p) ==
  /\ state[p] \in {"running", "denied"}
  /\ state' = [state EXCEPT ![p] = "none"]
  /\ notifier' = notifier \ {p} /\ due' = due \ {p}
  /\ UNCHANGED <<blocked, thread, queue, batch, deny, program, notices, execs, restarts>>

-------------------------------------------------------------------------------
(***************************************************************************)
(* The blocker thread                                                      *)
(***************************************************************************)
Mark ==
  /\ thread = "start" /\ thread' = "read"
  /\ UNCHANGED <<blocked, queue, batch, deny, state, program, notifier, notices, due,
                 execs, restarts>>

(* fanotify_mark fails: the thread returns, the daemon runs on. *)
MarkFails ==
  /\ thread = "start" /\ thread' = "ended"
  /\ UNCHANGED <<blocked, queue, batch, deny, state, program, notifier, notices, due,
                 execs, restarts>>

(* A read returns as many events as wait and fit. *)
Read ==
  /\ thread = "read" /\ queue # <<>>
  /\ thread' = "batch"
  /\ LET n == IF Len(queue) < BatchLimit THEN Len(queue) ELSE BatchLimit
     IN  batch' = SubSeq(queue, 1, n) /\ queue' = SubSeq(queue, n + 1, Len(queue))
  /\ UNCHANGED <<blocked, deny, state, program, notifier, notices, due, execs, restarts>>

(* Mutant of Check: the patterns are not looked at. *)
CheckExact ==
  /\ thread = "batch" /\ thread' = "answer"
  /\ deny' = (program[Head(batch)] \in blocked \/ Base[program[Head(batch)]] \in blocked)
  /\ UNCHANGED <<blocked, queue, batch, state, program, notifier, notices, due,
                 execs, restarts>>

(* The lookup, under the lock of the set. *)
Check ==
  /\ thread = "batch" /\ thread' = "answer"
  /\ deny' = IsBlocked(program[Head(batch)], blocked)
  /\ UNCHANGED <<blocked, queue, batch, state, program, notifier, notices, due,
                 execs, restarts>>

(* The path behind the event's descriptor cannot be read: the lookup is    *)
(* about another one.                                                      *)
CheckUnread ==
  /\ thread = "batch" /\ thread' = "answer"
  /\ deny' = IsBlocked(Unknown, blocked)
  /\ due' = due \ {Head(batch)}
  /\ UNCHANGED <<blocked, queue, batch, state, program, notifier, notices, execs, restarts>>

(* Mutant of Respond: the rest of the batch is not looked at. *)
RespondFirst ==
  /\ thread = "answer" /\ thread' = "read" /\ batch' = <<>>
  /\ state' = [state EXCEPT ![Head(batch)] = IF deny THEN "denied" ELSE "running"]
  /\ notices' = IF deny THEN notices + 1 ELSE notices
  /\ UNCHANGED <<blocked, queue, deny, program, notifier, due, execs, restarts>>

(* Mutant of Respond: an allowed exec is not answered. *)
RespondDenials ==
  /\ thread = "answer" /\ batch' = Tail(batch)
  /\ thread' = IF Len(batch) = 1 THEN "read" ELSE "batch"
  /\ state' = IF deny THEN [state EXCEPT ![Head(batch)] = "denied"] ELSE state
  /\ notices' = IF deny THEN notices + 1 ELSE notices
  /\ UNCHANGED <<blocked, queue, deny, program, notifier, due, execs, restarts>>

(* Mutant of Respond: every answer starts a notification. *)
RespondNotifies ==
  /\ thread = "answer" /\ batch' = Tail(batch)
  /\ thread' = IF Len(batch) = 1 THEN "read" ELSE "batch"
  /\ state' = [state EXCEPT ![Head(batch)] = IF deny THEN "denied" ELSE "running"]
  /\ notices' = IF notices < MaxExecs THEN notices + 1 ELSE notices
  /\ UNCHANGED <<blocked, queue, deny, program, notifier, due, execs, restarts>>

(* The answer; after a denial a thread is spawned for the notification. *)
Respond ==
  /\ thread = "answer" /\ batch' = Tail(batch)
  /\ thread' = IF Len(batch) = 1 THEN "read" ELSE "batch"
  /\ state' = [state EXCEPT ![Head(batch)] = IF deny THEN "denied" ELSE "running"]
  /\ notices' = IF deny THEN notices + 1 ELSE notices
  /\ UNCHANGED <<blocked, queue, deny, program, notifier, due, execs, restarts>>

(* The daemon ends and is started again with an empty set. *)
Restart ==
  /\ restarts < MaxRestarts /\ restarts' = restarts + 1
  /\ thread' = "start" /\ queue' = <<>> /\ batch' = <<>> /\ deny' = FALSE
  /\ state' = [p \in Proc |-> IF state[p] = "asked" THEN "running" ELSE state[p]]
  /\ blocked' = {} /\ notices' = 0 /\ due' = {}
  /\ UNCHANGED <<program, notifier, execs>>

-------------------------------------------------------------------------------
Thread == Mark \/ MarkFails \/ Read \/ Check \/ CheckUnread \/ Respond

Next ==
  \/ \E b \in Blockable : BlockApp(b) \/ UnblockApp(b)
  \/ \E p \in Proc :
       \/ \E g \in Program : UserExec(p, g)
       \/ Notify(p)
       \/ Exit(p)
  \/ Thread
  \/ Restart

Spec == Init /\ [][Next]_vars

(* The threads run on, and notify-send comes to its end; a program of the  *)
(* user need not.                                                          *)
FairSpec ==
  /\ Spec /\ WF_vars(Thread) /\ WF_vars(\E p \in Proc : Notify(p))
  /\ \A p \in Proc : WF_vars(p \in notifier /\ Exit(p))

-------------------------------------------------------------------------------
(***************************************************************************)
(* Properties                                                              *)
(***************************************************************************)
(* The kernel keeps a blocked application from starting at all: an exec    *)
(* that is asked for while its program is blocked never goes through as    *)
(* long as the block stands, whatever else is read, answered or changed.   *)
(* Only one that a full queue lets through is not asked for, and only one  *)
(* whose path cannot be read is taken for another program.                 *)
BlockedNeverStarts == \A p \in due : state[p] # "running"

(* No exec of the system hangs on an event the thread lost: those that     *)
(* wait are, once each, in the queue or in the batch.                      *)
NoExecForgotten ==
  /\ {p \in Proc : state[p] = "asked"} = ToSet(queue \o batch)
  /\ IsInjective(queue \o batch)

(* Every exec that the kernel holds is answered. *)
EveryExecAnswered == \A p \in Proc : state[p] = "asked" ~> state[p] # "asked"

(* Once the user starts no more programs and notify-send is not blocked    *)
(* any more, by its path, its name or a pattern, the notifications end,    *)
(* those too that its own denials have led to before; unless there is no   *)
(* process left to show them.                                              *)
NoticesEnd ==
  /\ <>[]~IsBlocked(NotifySend, blocked)
  /\ []<>(\E p \in Proc : state[p] = "none")
  => <>[](notices = 0 /\ notifier = {})

(* The comment on the event loop says that the exec of notify-send is      *)
(* always allowed.  It is an exec of another process than the daemon, and  *)
(* denied like any other; each denial starts the next one, without end.    *)
NotifySendAllowed == \A p \in notifier : state[p] # "denied"
===============================================================================
