------------------------------ MODULE AppWatcher ------------------------------
(***************************************************************************)
(* The macOS application watcher (app_watcher.rs run_shared): a thread     *)
(* that lists the pids, reads the executable of each, looks each up in the *)
(* blocked set under its lock, and kills what it has condemned, pid by     *)
(* pid, while processes begin, exec and end, pids are used again, and the  *)
(* control server changes the set.                                         *)
(*                                                                         *)
(* An executable is its path; Base gives the last component.  Left out are *)
(* launchd and the daemon, which the scan skips, the room for 32 more pids *)
(* than were counted, and the pattern without a prefix.                    *)
(***************************************************************************)
EXTENDS Naturals, FiniteSets

CONSTANTS
  Pid, Path, Name, Pattern,
  None,          \* no process, or no executable
  Base,          \* the last component of each path
  Covers,        \* which pattern has a prefix of which name
  Osascript,     \* the program that shows a notification
  MaxStarts,     \* bound on processes that begin or exec
  MaxCommands    \* bound on commands

ASSUME PathAssumption ==
  /\ None \notin Path /\ None \notin Name /\ Osascript \in Path
  /\ Base \in [Path -> Name] /\ Covers \subseteq Pattern \X Name
ASSUME LimitAssumption == MaxStarts \in Nat /\ MaxCommands \in Nat

VARIABLES
  image,         \* the executable of each process
  blockedSet,    \* BlockedSet
  phase,         \* of the watcher: "sleep", "list", "judge", "kill"
  todo,          \* pids it has yet to read, or to judge
  exePath,       \* exe_path of each ProcessInfo
  condemned,     \* to_kill
  notices,       \* threads about to start osascript
  sentence,      \* history: the set as it was when the lock was taken
  swapped,       \* history: pids whose process began, changed or ended since it was read
  starts, commands

watcher == <<phase, todo, exePath, condemned, sentence>>
watcherVars == <<image, blockedSet, watcher, notices, swapped, starts, commands>>

Sets == [paths : SUBSET Path, names : SUBSET Name, patterns : SUBSET Pattern]
NoSet == [paths |-> {}, names |-> {}, patterns |-> {}]

WatcherTypeOK ==
  /\ image \in [Pid -> Path \cup {None}] /\ exePath \in [Pid -> Path \cup {None}]
  /\ blockedSet \in Sets /\ sentence \in Sets
  /\ phase \in {"sleep", "list", "judge", "kill"}
  /\ todo \in SUBSET Pid /\ condemned \in SUBSET Pid /\ swapped \in SUBSET Pid
  /\ notices \in Nat /\ starts \in 0..MaxStarts /\ commands \in 0..MaxCommands

WatcherInit ==
  /\ image \in [Pid -> Path \cup {None}] /\ exePath = [p \in Pid |-> None]
  /\ blockedSet = NoSet /\ sentence = NoSet
  /\ phase = "sleep" /\ todo = {} /\ condemned = {} /\ swapped = {}
  /\ notices = 0 /\ starts = 0 /\ commands = 0

-------------------------------------------------------------------------------
(***************************************************************************)
(* Processes                                                               *)
(***************************************************************************)
Becomes(p, exe) ==
  /\ image' = [image EXCEPT ![p] = exe] /\ swapped' = swapped \cup {p}

(* A process begins, on a pid that may have been another's, or execs. *)
BeginProcess(p, exe) ==
  /\ starts < MaxStarts /\ starts' = starts + 1
  /\ image[p] # exe /\ Becomes(p, exe)
  /\ UNCHANGED <<blockedSet, watcher, notices, commands>>

EndProcess(p) ==
  /\ image[p] # None /\ Becomes(p, None)
  /\ UNCHANGED <<blockedSet, watcher, notices, starts, commands>>

(* send_app_blocked_notification starts a process, which is one to watch. *)
Notify(p) ==
  /\ notices > 0 /\ notices' = notices - 1
  /\ starts < MaxStarts /\ starts' = starts + 1
  /\ image[p] = None /\ Becomes(p, Osascript)
  /\ UNCHANGED <<blockedSet, watcher, commands>>

-------------------------------------------------------------------------------
(***************************************************************************)
(* The commands, of the control server, on the set under its lock          *)
(***************************************************************************)
(* Mutant of SetCommand: the set is free while the watcher judges. *)
SetCommandUnlocked ==
  /\ commands < MaxCommands /\ commands' = commands + 1
  /\ UNCHANGED <<image, watcher, notices, swapped, starts>>

SetCommand ==
  /\ phase # "judge" /\ commands < MaxCommands /\ commands' = commands + 1
  /\ UNCHANGED <<image, watcher, notices, swapped, starts>>

BlockApp(entry) ==
  /\ SetCommand /\ blockedSet' = [part \in DOMAIN NoSet |-> blockedSet[part] \cup entry[part]]

UnblockApp(entry) ==
  /\ SetCommand /\ blockedSet' = [part \in DOMAIN NoSet |-> blockedSet[part] \ entry[part]]

(* Sync replaces the names and the patterns; the paths stay. *)
Sync(names, patterns) ==
  /\ SetCommand
  /\ blockedSet' = [blockedSet EXCEPT !.names = names, !.patterns = patterns]

-------------------------------------------------------------------------------
(***************************************************************************)
(* The watcher                                                             *)
(***************************************************************************)
NameBlocked(set, name) ==
  name \in set.names \/ \E q \in set.patterns : <<q, name>> \in Covers
BaseOf(exe) == IF exe = None THEN None ELSE Base[exe]

IsBlocked(set, exe, comm) ==
  exe \in set.paths \/ NameBlocked(set, BaseOf(exe)) \/ NameBlocked(set, comm)

ListPids ==
  /\ phase = "sleep" /\ phase' = "list"
  /\ todo' = {p \in Pid : image[p] # None} /\ exePath' = [p \in Pid |-> None]
  /\ UNCHANGED <<image, blockedSet, condemned, sentence, notices, swapped, starts, commands>>

ReadExe(p) ==
  /\ phase = "list" /\ p \in todo /\ todo' = todo \ {p}
  /\ exePath' = [exePath EXCEPT ![p] = image[p]] /\ swapped' = swapped \ {p}
  /\ UNCHANGED <<image, blockedSet, phase, condemned, sentence, notices, starts, commands>>

Lock ==
  /\ phase = "list" /\ todo = {} /\ phase' = "judge"
  /\ todo' = {p \in Pid : exePath[p] # None} /\ sentence' = blockedSet
  /\ UNCHANGED <<image, blockedSet, exePath, condemned, notices, swapped, starts, commands>>

Judges(p, exe) ==
  /\ phase = "judge" /\ p \in todo /\ todo' = todo \ {p}
  /\ condemned' = IF IsBlocked(blockedSet, exe, BaseOf(exePath[p]))
                    THEN condemned \cup {p} ELSE condemned
  /\ UNCHANGED <<image, blockedSet, phase, exePath, sentence, notices, swapped, starts, commands>>

(* Mutant of Judge: the executable is read for a blocked name only. *)
JudgeByName(p) ==
  Judges(p, IF BaseOf(exePath[p]) \in blockedSet.names THEN image[p] ELSE None)

(* The executable is read again if its name, or the name of a path, is     *)
(* blocked; a process that has ended has none, but its name still counts.  *)
Judge(p) ==
  LET comm == BaseOf(exePath[p])
      again == comm \in blockedSet.names \cup {Base[path] : path \in blockedSet.paths}
  IN Judges(p, IF again THEN image[p] ELSE exePath[p])

Unlock ==
  /\ phase = "judge" /\ todo = {} /\ phase' = "kill"
  /\ UNCHANGED <<image, blockedSet, todo, exePath, condemned, sentence, notices, swapped>>
  /\ UNCHANGED <<starts, commands>>

(* SIGKILL goes to whoever has the pid; if it has one, a notice follows. *)
KillPid(p) ==
  /\ phase = "kill" /\ p \in condemned /\ condemned' = condemned \ {p}
  /\ IF image[p] = None THEN UNCHANGED <<image, notices, swapped>>
                        ELSE Becomes(p, None) /\ notices' = notices + 1
  /\ UNCHANGED <<blockedSet, phase, todo, exePath, sentence, starts, commands>>

Sleep ==
  /\ phase = "kill" /\ condemned = {} /\ phase' = "sleep"
  /\ exePath' = [p \in Pid |-> None] /\ sentence' = NoSet
  /\ UNCHANGED <<image, blockedSet, todo, condemned, notices, swapped, starts, commands>>

-------------------------------------------------------------------------------
(* A command names one entry; those of more are as many commands in a row. *)
Entries ==
  {[NoSet EXCEPT !.paths = {path}] : path \in Path}
    \cup {[NoSet EXCEPT !.names = {name}] : name \in Name}
    \cup {[NoSet EXCEPT !.patterns = {q}] : q \in Pattern}

WatcherNext ==
  \/ \E p \in Pid, exe \in Path : BeginProcess(p, exe)
  \/ \E p \in Pid : EndProcess(p) \/ Notify(p) \/ ReadExe(p) \/ Judge(p) \/ KillPid(p)
  \/ \E entry \in Entries : BlockApp(entry) \/ UnblockApp(entry)
  \/ \E names \in SUBSET Name, patterns \in SUBSET Pattern : Sync(names, patterns)
  \/ ListPids \/ Lock \/ Unlock \/ Sleep

WatcherSpec == WatcherInit /\ [][WatcherNext]_watcherVars

(* The thread is scheduled, and sleeps half a second. *)
WatcherFairSpec ==
  /\ WatcherSpec /\ WF_watcherVars(ListPids) /\ WF_watcherVars(Lock)
  /\ WF_watcherVars(Unlock) /\ WF_watcherVars(Sleep)
  /\ \A p \in Pid : /\ WF_watcherVars(ReadExe(p)) /\ WF_watcherVars(Judge(p))
                    /\ WF_watcherVars(KillPid(p))

-------------------------------------------------------------------------------
(***************************************************************************)
(* Properties                                                              *)
(***************************************************************************)
(* When the kills begin, those to kill are those that the set of the       *)
(* moment of the lock blocks, among the processes that are still the ones  *)
(* that were read; a pid whose process has changed since may be on the     *)
(* list or not, and a kill hits whoever has it (app_watcher.rs:161).       *)
VerdictFits ==
  phase = "kill" =>
    \A p \in Pid \ swapped : exePath[p] # None =>
      (p \in condemned <=> IsBlocked(sentence, image[p], BaseOf(image[p])))

(* "When a blocked app is found running, it receives SIGKILL": a process   *)
(* whose executable is blocked is gone in the end, or unblocked, or has    *)
(* become another.                                                         *)
BlockedIsKilled ==
  \A p \in Pid, exe \in Path :
    image[p] = exe /\ IsBlocked(blockedSet, exe, Base[exe])
      ~> image[p] # exe \/ ~IsBlocked(blockedSet, exe, Base[exe])
===============================================================================
