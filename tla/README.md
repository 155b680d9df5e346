# Antidistractor in TLA+

Antidistractor keeps a user from distracting sites and applications. A daemon (Linux, macOS)
or an app (Android, iOS) holds lists of what is blocked, takes commands that change them, and
has the operating system enforce them: an eBPF program on the network interfaces, fanotify
permission events, `/etc/hosts`, a DNS VPN, Screen Time. The lists are kept in several places,
changed by several threads or processes, and read by enforcement that waits for nobody. This
directory models that, checks it with TLC on small instances, and proves the central results
with TLAPS for every instance.

    tlc -config ControlServer_commands.cfg MCControlServer    # a run; PROJECT.json lists them
    tlapm ControlServerProofs.tla                             # a module of proofs

Paths below are relative to the repository; `core/` stands for `antidistractor/src/`, `android/`
for `antidistractor-android/app/src/main/java/com/antidistractor/`, `ios/` for
`antidistractor-ios/`. `PROJECT.json` maps each definition to its lines.

## 1. The system

| part | code | state | operations | interacts by |
|---|---|---|---|---|
| Linux control server | `core/control_server.rs` | `dynamic_blocked`, `focus_mode_active`, `BlockedSet`, each behind a mutex | block, unblock, sync, focus_mode, block_app, unblock_app, freeze_app, thaw_app, status | a Unix socket, one task per connection; calls into the next two and shares `BlockedSet` with the application blocker |
| eBPF manager | `core/ebpf.rs` | the program, the `BLOCKLIST` map | load, attach_interface, add_domain, remove_domain | behind the mutex `ebpf`; the map is shared with the kernel |
| TC classifier | `antidistractor-ebpf/src/main.rs` | the map, a buffer per CPU | one packet at a time: parse, look up, pass or drop | reads the map with no lock |
| process freezer | `core/process_freezer.rs` | name -> pids it stopped | freeze, thaw | SIGSTOP/SIGCONT to a system that runs on |
| application blocker | `core/app_blocker.rs` | `BlockedSet`, the fanotify queue | read events, look up, answer, notify | the kernel holds each exec until it is answered |
| macOS domain blocker | `core/macos/pf_blocker.rs` | a set of domains, a block in `/etc/hosts` | enable, add, remove, disable | one in the daemon, behind a mutex, and one in each terminal interface, a process of its own: both replace the same block through the same temporary file; the file has other writers, too |
| macOS application watcher | `core/macos/app_watcher.rs`, `process_utils.rs` | `BlockedSet` | scan, look up, kill | polls the process table |
| screen lock | `core/macos/screen_lock.rs`, `scripts/enforce-lock*` | the last hour locked | poll, lock | polls the clock and the screen |
| daemon | `core/main.rs`, its units in `scripts/` | attached interfaces, start and stop | start, attach new TUNs, end | owns all of the above; shares the interfaces, or `/etc/hosts`, with a terminal interface that runs beside it |
| terminal interface | `core/ui.rs` | the list on screen | add, remove | a backend trait over blockers of its own |
| Android app | `android/server`, `model`, `vpn`, `blocker`, `ui` | preferences and their file, a copy in each service | HTTP block, unblock, clear, sync, status; services on and off | broadcasts; the main thread runs starts, stops and deliveries |
| Android DNS VPN | `android/vpn` | `blockedDomains`, the query in hand, the socket | read a query, look it up, answer or forward it, write | a loop on a thread of its own beside the main thread; the TUN interface; upstream DNS |
| Android shield | `android/blocker`, `ui/ShieldActivity.kt` | `blockedPackages`, `lastForegroundPackage` | poll the app in front, start the shield | usage statistics that lag, an activity that comes later |
| iOS library | `ios/Sources` | saved list, flag, tokens, restrictions | HTTP requests, picker, authorization, launch | main thread; shared defaults and settings store |
| iOS monitor | `ios/DeviceActivityMonitorExtension` | the same defaults and restrictions | start and end of a window | a process of its own, no lock |
| guard | `scripts/antidistractor-guard.sh` | none | repairs hosts, override, service every 10 s | edits files others write |
| clients, shield screen, tests | `scripts/antidistractor-ctl*`, `ios/ShieldConfigurationExtension`, `core/test_ebpf.rs` | none | | |

What is hard in it, and the property each part owes:

- **Several copies of one list.** Map and Vec on Linux, set and file on macOS, preferences and
  service copies on Android, saved list and restrictions on iOS. They change one after the other,
  an insertion, a write or a save may fail, and a crash may come in between. They must agree
  whenever nothing is at work.
- **Check, let go, act.** The freezer looks its table up, signals, and records later. The
  Android handlers load, change and save. The iOS picker reads the list and applies it later.
- **Readers without a lock.** The classifier looks up to eleven keys up while the map changes;
  Status reads under other mutexes than the writers.
- **A system that does not stand still.** Processes fork and die while their tree is read and
  signalled; others write `/etc/hosts`, the terminal interface even the same block of it; the user starts programs faster than events are read.
- **Polls over a moving world.** The macOS watcher lists, looks up and kills by pid, the Android
  shield asks for the app in front, the daemon looks for new interfaces: what was read is old when
  it is used, and what is remembered from one poll to the next may no longer be so.
- **Late answers.** DNS answers come after their time, to ports that are used again, to loops that
  were cancelled.
- **Bounds and numeric edges.** 1024 keys, 64 extensions, 1024 bytes, ten dots, a length that is
  made odd, a link type guessed from a half-byte.
- **Progress.** Every command and every held exec is answered, in whatever order mutexes are taken;
  notifications end, unless notify-send itself is blocked.
- **Ends and restarts.** State in memory is lost, what was done to the system is not.

`PROJECT.json` lists these as hazards, each at its line with the properties that cover it.

## 2. The modules

| module | of | state in the model | steps |
|---|---|---|---|
| `ControlServer` | the Linux server with the map | `map`, `dynamic`, `focus`, `paths`, `names`, `lock`, a pc and locals per connection | one per mutex taken, per insertion or removal, per reply |
| `ControlApi` | what its clients may rely on | `listed`, `focus`, `paths`, `names`, requests and answers | one per command, one per part of Status |
| `Freezer` | freezer and processes | the process tree, who is stopped, the table, handlers | one per signal, scan and look at the table; forks, deaths, restarts |
| `SniFilter` | classifier and map | the packet with the bytes behind its names, the loop counters, the verdict, the map | one per extension and lookup; keys come and go in between |
| `AppBlocker` | fanotify thread and kernel queue | queue, batch, blocked set, each process's exec, notifiers | exec, read, check, the path that cannot be read, respond, notify, commands, restart |
| `MacHosts` | macOS blocker, the server's commands on it, the daemon's life, the terminal interface beside it | set, list, the file's block and other lines, whether its temporary file is torn, who holds each of the four mutexes, a pc per handler, the daemon's phase, the terminal interface's set | one per mutex taken, per read and rename of the file by either process, failures, edits, interrupt, kill, start |
| `AndroidServices` | Android server and services | preferences and file, handlers, services, intents, broadcasts, copies | load, save, notify, each main-thread callback, flush, crash, boot |
| `IosBlocking` | iOS library and monitor | saved state, restrictions, cache, and for each process the calls it has still to make | each call to the defaults or the settings store is one step |
| `LinuxMain` | the Linux program on its interfaces, as daemon and as terminal interface | the interfaces that are up, whose programs each has, each process's phase, findings and attached set, the list on screen and its map | interfaces come and go; start, one per attachment, tick, poll, end, kill; add, remove |
| `AppWatcher` | the macOS watcher and the processes it watches | each pid's executable, the blocked set, the watcher's phase, what it has read and condemned | one per pid listed, looked up, killed; processes begin, exec, end; commands |
| `AndroidDns` | the packet path of the VPN | the list, the queue on the interface, the loops with query, port and answer, answers on their way | read, look up, send, receive, time out, write; a read or an answer that throws; start, stop, update |
| `DnsResolver` | what its clients may rely on | the list, each query's name and fate, what went upstream | ask, judge, forward, refuse, answer, drop; update |
| `AndroidShield` | the shield | the app in front and the one reported, list, running, the one shielded last | poll, report, show; open, home; start, stop, update, destroy |

`MC<module>` gives the constants their values for TLC. Eight modules, `<module>Proofs` or, for a
platform, `MacProofs`, `AndroidProofs` and `IosProofs`, hold the proofs (section 4). Operators named "Mutant of ..." in a comment are deliberate
mistakes next to the definition they vary; no specification uses them. With one of them in that
definition's place a property fails, which shows that the property says something about that code.

**How state and steps correspond to the code.** A variable has the name of the field or local it
stands for, or a comment that gives it. A mutex is a holder (`lock[m]`) that an action waits for; a
handler keeps what the Rust guard keeps, and drops it where the guard goes out of scope. Between
two steps of a handler anything else may happen, exactly where the code holds no lock that forbids
it. Where steps of the code are made under a lock that every reader takes, they are one action
(the last assignments of a handler and its reply). Domains in a command are a set taken in any
order, a Vec of which only membership matters is a set. Names, domains and processes are model
values; the names the classifier reads are sequences of labels with their lengths in bytes, and
`Joined` says which labels a label and the byte behind it spell, because its faults are about lengths,
dots and that byte. JSON, sockets, wording and logging are left out.
History variables, marked as such, exist for properties only.

**Code outside the repository** is modelled from how it is used: the kernel's hash map is full at
its capacity; fanotify queues events, lets an exec through when the queue is full and when the
descriptor is closed; SIGKILL reaches stopped processes and orphans are adopted; `apply()` writes the
file later; a broadcast reaches the receivers registered when it is sent, on the main thread; Screen
Time keeps restrictions across processes; a TC program attached through netlink stays when its
process is killed and is found by name, one attached as a TCX link does not; an interface takes its
programs with it; a write to a closed TUN interface throws; the system gives a socket a port that no
open socket has; usage statistics name the app in front with a delay.

## 3. What is checked

Each module but `ControlApi` and `DnsResolver` has one run that passes:

| run | shows |
|---|---|
| `ControlServer_commands` | Three overlapping commands of every kind on the four mutexes, in a map with room for two of three domains. List and map agree whenever the map's mutex is free; only a named default is lost; a Sync that asks for nothing new fits; Status never shows one Sync's domains with an earlier one's names; the handlers implement `ControlApi`; every command is answered. |
| `Freezer_commands` | Two commands, overlapping or not, a fork, a death and a restart. What a thaw took from the table runs again. While commands have come one after the other, no process is stopped that no later thaw would continue (until a restart), a thaw leaves none of its processes stopped, and without forks a freeze reaches the children of all it stops, also when processes die and are adopted meanwhile. |
| `SniFilter_lookup` | ClientHellos of many shapes at the source's own bounds (64, 1024, 128, 10), while keys come and go. Dropped only if covered, or if the name with the byte behind it is a key; passed only if no key that stood all the time covers the name within those bounds. |
| `AppBlocker_events` | Three execs, blocks changed at any moment, a queue and batches of two, a path that cannot be read, a restart; one of the blocks is a pattern that matches notify-send. A blocked program whose path can be read never starts, no held exec is lost, each is answered, and the notifications end, unless notify-send stays blocked. |
| `MacHosts_commands` | Any three of: commands of every kind, failed rewrites, another writer's line, ends or kills at any step with a new start, starts and changes of a terminal interface. The block is that of its last writer, set and list agree between commands while rewrites succeed, and a block answered ok is then in the file, unless the terminal interface has replaced it meanwhile; a line of others that a rewrite has read is there after it; no order of the four mutexes leaves a command unanswered. |
| `AndroidServices_requests` | Two overlapping requests, two services switched on and off, a start that fails, a crash. Running services block by the list as it is, unless a broadcast passed one by as it started; a changed list reaches them; each change is one command's effect on the list as it was, unless another request has replaced that list meanwhile. |
| `IosBlocking_requests` | Three requests, the picker, two windows that may overlap, authorization given and refused, a crash at any call. What is listed is filtered and nothing else is, after a launch again; domains leave by request; what an authorized block accepted is saved. |
| `LinuxMain_processes` | Daemon and terminal interface, on netlink and on TCX, with two changes of interfaces, two ends or kills and a failed attachment. What a process takes for attached has its program, unless the attachment failed at load, its interface went away, or the other process took it over; a new TUN interface is filtered in the end; the daemon comes back; the list on screen is what the map holds, where nothing was listed twice. |
| `AppWatcher_polls` | Two pids, three executables of which two have one name, a start or exec at any step, two commands of any kind. Those condemned are those the set blocked when it was locked, but for pids whose process has changed since; a blocked process that stays is killed. |
| `AndroidDns_queries` | Three queries, parsed or not, two ports, two starts with a stop and a loop that lingers, a change of the list, answers late, lost or out of order, a read or an answer that throws. An answer reaches another query only through a port used again; the loops implement `DnsResolver`; each query that has been read is answered, refused or dropped in the end, and each that waits is read or dropped, unless the loop of the interface has ended by a failed read. |
| `AndroidShield_polls` | Two apps, statistics and a shield that come late, list and service on and off at any moment. The app in front is the one marked as shielded only while its shield is on its way, or if it was as it came; any other blocked app in front is covered in the end. |

Several properties hold only as long as something has not happened that the code does not
exclude. That is never assumed away: the model takes the step, a history variable remembers it, and
the property says so: `overlapped` (Freezer), `writer`, `sound` and
`settled` (MacHosts), `stale` and `missed`
(AndroidServices), `tardy`, `lifted` and `mixed` (IosBlocking), `lost` and `doubled` (LinuxMain),
`swapped` (AppWatcher), `reused` (AndroidDns), `returned` (AndroidShield). Each names one way in
which the code gets out of step, at the action that records it.

One run is expected to end in a violation, `AndroidShield_again`: whoever comes back to a
blocked app from its shield, or by way of the home screen between two polls, meets no shield again,
for `lastForegroundPackage` is that app still (`AppBlockerService.kt:146`), where `:19` and `:28` say
that the shield comes at once and the app is seen for half a second. `BlockedIsShielded` is what
they say; `NewcomerIsShielded` is what is so.

Eight more properties state what the code does not keep; the configurations stay beside the others,
to be run by hand (`tlc -config <file>.cfg MC<module>`):

| configuration | property | what happens | what it is said to do |
|---|---|---|---|
| `ControlServer_defaults` | `DefaultsUntouched` | unblock, or block then sync, takes a default out of the map | `docs/features.md:375` |
| `Freezer_fork` | `NoChildMissed` | a parent forks after its tree was read, before its own signal | `core/process_freezer.rs:133` |
| `SniFilter_even` | `ExactNamesDropped` | an even-length name is looked up with the byte behind it | `antidistractor-ebpf/src/main.rs:209` |
| `SniFilter_joined` | `ShotOnlyIfCovered` | x.bi in front of a z is dropped for the listed x.biz | `antidistractor-ebpf/src/main.rs:209` |
| `AppBlocker_notify` | `NotifySendAllowed` | with a pattern that matches notify-send its exec is denied, which starts another one, without end | `core/app_blocker.rs:110` |
| `MacHosts_retry` | `BlockTakesEffect` | a block tried again after a failure is answered ok unwritten | `core/macos/pf_blocker.rs:65` |
| `MacHosts_terminal` | `BlockTakesEffect` | a terminal interface replaces the block between the daemon's rewrite and its answer | `core/macos/pf_blocker.rs:65` |
| `AndroidServices_lost` | `StoreChangesAtomically` | of two overlapping blocks one is lost | `docs/features.md:305` |

Two larger instances of `MacHosts`, `MacHosts_wide` (safety, three of nine commands with a failure and an
end) and `MacHosts_file` (two commands beside the terminal interface, with one of each
disturbance), are to be run by hand, too; they pass.

The models contain further behaviours that differ from what is written about them. No property is
kept for these; the conditions of the passing properties, or the actions, name them:

| where | what happens | what it is said to do |
|---|---|---|
| `core/control_server.rs:201` | during Sync a domain of both lists is out of the map for a moment | `control_server.rs:197`, "atomic replacement" |
| `core/process_freezer.rs:169` | of two overlapping freezes the later record replaces the earlier, and a child may stay stopped (`overlapped`) | `process_freezer.rs:14` |
| `core/process_freezer.rs:11` | after a restart nothing remembers the stopped processes (`restarts`) | `docs/features.md:185` |
| `core/process_freezer.rs:149` | a new process of a frozen name runs on (`FreezeAlready`) | `docs/unix-socket-control-interface.md:128` |
| `antidistractor-ebpf/src/main.rs:240` | suffixes behind the tenth dot are not looked up (`MaxSuffixes`) | `main.rs:218` |
| `antidistractor-ebpf/src/main.rs:88` | an Ethernet address that begins with 4 or 6 hides the packet (`Recognised`) | `docs/features.md:41` |
| `core/app_blocker.rs:196` | an exec whose path cannot be read is looked up as "<unknown>", and let through (`CheckUnread`) | `app_blocker.rs:5` |
| `core/macos/pf_blocker.rs:130`, `:140` | lines others add during a rewrite, or a file `disable` cannot read, are lost (`settled`) | `docs/features.md:62` |
| `core/main.rs:400`, `core/macos/pf_blocker.rs:104` | a terminal interface has a set of its own, that knows nothing of the daemon's, and replaces the daemon's block by it; the next change of the daemon replaces that one (`TuiWrite`, `writer`) | `pf_blocker.rs:65` |
| `core/macos/pf_blocker.rs:182` | two rewrites at once share one temporary file: either text, a mixture of both or an empty file may be what is renamed into place (`torn`, `ReplaceTorn`) | `docs/features.md:62` |
| `core/main.rs:346` | a handler that waits for the lock writes the block again after the clean-up | `main.rs:345` |
| `android/vpn/DnsVpnService.kt:111` | a change between a starting service's load and its registration is missed (`missed`) | `docs/features.md:84` |
| `android/ui/MainActivity.kt:122` | the flag stays on where the VPN was not established (`StartRegister`) | `MainActivity.kt:78` |
| `ios/.../AppPickerManager.swift:53` | the picker's task applies a list from before a request (`tardy`) | `AppPickerManager.swift:52` |
| `ios/.../BlockingManager.swift:194` | picked apps are cached under a key nobody looks up (`Tokens`) | `docs/features.md:125` |
| `ios/.../BlockingManager.swift:65` | without authorization block is answered ok and not saved | `docs/features.md:304` |
| `ios/DeviceActivityMonitorExtension/...:71` | the monitor applies a list after it was cleared (`mixed`) | `docs/features.md:308` |
| `ios/DeviceActivityMonitorExtension/...:48`, `:51` | the end of a window removes the restrictions of an overlapping one, and leaves the flag that says blocking is active (`lifted`) | `INTEGRATION.md:174`, `BlocklistStore.swift:80` |
| `core/ebpf.rs:53` | through netlink, a terminal interface takes the daemon's programs off as it starts and its own with it as it ends; the daemon filters nothing from then on (`lost`) | `docs/features.md:43` |
| `core/main.rs:249` | an interface whose attachment failed at load, or that comes back under its name, is not attached again (`lost`) | `docs/features.md:45` |
| `core/main.rs:266` | an interrupt that comes while an interface is attached finds no future that waits for it (no `Finish` in phase "poll") | |
| `core/main.rs:256` | the daemon waits for an interrupt only; SIGTERM kills it, and on netlink its programs stay (`Kill`) | `scripts/antidistractor.service:15` |
| `core/ui.rs:90` | without a backend the list is shown all the same (`TuiLoaded`) | |
| `core/ui.rs:124` | a domain listed twice is let through when one of the two is removed (`doubled`) | |
| `core/macos/app_watcher.rs:161` | SIGKILL goes to whoever has the pid by then (`swapped`) | |
| `core/control_server.rs:213`, `:479` | Sync replaces names and patterns and keeps paths (`AppWatcher!Sync`) | |
| `android/vpn/DnsVpnService.kt:250` | a stop while a reply is in hand ends the app: the write throws on the closed interface (`Write`) | |
| `android/vpn/DnsVpnService.kt:218`, `:108` | a read that fails on an open interface ends the loop and leaves `vpnInterface`, so that the next start returns early and all queries wait until a stop (`ReadFails`, `Deaf`) | |
| `android/vpn/DnsVpnService.kt:378` | a query of a blocked name that is cut short behind it has fewer bytes than are copied; the exception ends the app (`LookupThrows`) | `docs/features.md:78` |
| `android/vpn/DnsVpnService.kt:397` | a late answer to a port used again is taken for the answer of another query (`reused`) | |

Two more, in code that the models abstract from, were met while reading it. For a whole query, `DnsVpnService.kt:378`
returns the bytes of the query with an answer behind them, and not the header that `:351` to `:356` have
prepared, so that a blocked name gets a packet that says it is a query with no answers, where `:349`
and `docs/features.md:78` say that it resolves to 127.0.0.1; the models call the name refused. In
`scripts/antidistractor-guard.sh:93` the next `global:` line after the id may belong to the next
entry, and `:69` deletes from a marker on that `:66` has just not found.

**Bounds.** Every hazard above is between two, seldom three, actors. Three connections of the Linux
server give every pair of commands a third one to disturb it (the map's room taken by a third command, a
Status around two Syncs). Two of three domains fit the map, so it is full in many states and a command
may succeed in part. Three pids give a tree of two and one to fork or an unrelated process. A queue of two
overflows with three execs, and batches of two leave an event behind while another is answered.
Two requests are what it takes to lose an update, two windows to overlap. One failure, edit, stop or
crash at any step is enough to separate two copies, and each list has an entry on either side of every
distinction the code makes. The classifier's bounds are those of the source, with packets on both
sides of each. One TUN, the loopback and one more interface are the three kinds the program tells
apart; two changes let one go and come back, two ends let either process go before or after the other.
Two pids give one that is read and one that takes its place in the order; of three executables two
share a name, which is what the second reading is for. Three queries and two ports give a port used
again while an answer is late, two starts a loop that outlives its VPN. The shield has no bounds:
two apps, one blocked and one not, in every state. Counters (`MaxChanges`, `MaxEnds`, `MaxList`,
`MaxStarts`, `MaxCommands`, `MaxUpdates`, `MaxForks`, `MaxDeaths`, `MaxRestarts`, `MaxExecs`,
`MaxFailures`, `MaxEdits`,
`MaxStops`, `MaxToggles`, `MaxCrashes`, `MaxRequests`, `MaxPicks`, `MaxWindows`) stop the environment and
no step of the code. In `MacHosts_commands` they are bounded together (`MaxEvents` in `MCMacHosts`, an action
constraint): three connections, each with a command of any kind, are what a circle of more than two
handlers takes, two connections with one disturbance or one with two are what a copy of the list takes to
get out of step. The constraint hinders no handler: a step that fails counts, the same step
succeeding does not. The two larger instances lift it, for the safety properties. They use the
symmetry of connections, which Init, Next and those properties treat alike; no run that checks
liveness does. Deadlock is
not checked where the bounded system comes to its end.

**Fairness.** Weak, and only on the program: a handler that has its command
(`tokio` runs spawned tasks, Android gives each connection a thread), the fanotify thread, the threads that run
notify-send and the exit of notify-send, the main thread and the broadcasts Android delivers on it, the
main task on macOS, the start of the Android process after its end; the daemon's loop and timer, and its
start by systemd or the guard; the watcher's thread; the DNS loop's thread and its socket's timeout;
the shield's handler, the statistics that catch up and the activity that comes. The mutexes of the standard
library are not fair; a finite number of commands contends for each, and weak fairness of each
handler suffices. Clients, users, other processes, timers of the environment are under no obligation.

## 4. What is proved

For every set of connections, domains, processes and packets, and every value of the bounds:

- `ControlServerProofs`: `TypeCorrect`, `Invariance`, `ListMatchesMapHolds`,
  `DefaultsLostOnlyByNameHolds`, `StatusNeverAheadHolds`, `ShrinkingSyncSucceedsHolds`,
  `Implementation`.
  Agreement of list and map is true only while the mutex is free, so it is not inductive. `IInv`
  adds what holds in the middle of a command: which commands reach which point (`ControlInv`), who
  holds which mutex there (`LockInv`, from which at most one handler is in a loop over the map), how
  far list and map differ, in terms of what the loop has still to do (`MapInv`), that all a handler
  has in hand was named (`NamedInv`), that names lag behind domains only inside a Sync (`SyncNoInv`),
  and what the answer will tell (`AnswerInv`). Each is one lemma, a step of it per action. For
  `Implementation` the lists of `ControlApi` are those before the running command while it
  holds their mutex; the last step of a handler is the atomic command, the others stutter.
  `RoomInv`, for the Sync that asks for nothing new, bounds the size of the map together with the old
  list, not of the map alone: removals keep that union or shrink it, and putting an old entry back
  does not enlarge it. Assumptions: the defaults fit the map, commands are well-formed, domains are finite.
- `FreezerProofs`: `TypeCorrect`; `ReversibleFreezing` (`NothingStranded`), from no hypothesis: that
  no two commands have overlapped and the daemon has not restarted is part of the property.
  `SequentialInv` says that until an overlap one handler runs, and that a freeze under way has no
  entry of the table to overwrite; without it the record of a freeze could drop pids.
  `ThawIsComplete` (`ThawLeavesNoneStopped`), from `StillInHand`: what a thaw took and is stopped, it
  has still to continue. `FreezeReachesTree` (`ChildrenStopped`), for any tree: as long as nothing
  forks, the children of what is signalled are stopped (`Behind`) and those of what is left in the
  tree are stopped or in it, under the parent that the scan showed (`Ahead`).
- `SniFilterProofs`: `TypeCorrect`, `ListedNeverPassesHolds`, `ShotOnlyIfListedHolds`. `LookupInv`:
  the extensions passed over are no server names, and no key that stood since the packet came is
  among the names looked up so far. `ShotOnlyIfListedHolds` covers both ways to be dropped, by a key that
  covers the name and by one that is the name with the byte behind it; nothing is assumed of what
  `Joined` makes of the two. The length of a name is used as an uninterpreted number, so
  the proofs do not depend on how it is computed.

- `AppBlockerProofs`: `TypeCorrect`, `NoExecForgottenHolds`, `BlockedNeverStartsHolds`. `Held`: queue
  and batch hold each process that waits, once and in one of them, stated without their
  concatenation; `DueOK`: what stays blocked waits or is denied, and once it has been looked up the
  answer to come is a denial; an exec whose path could not be read is not due.
- `LinuxMainProofs`: `TypeCorrect`, `KnownAreFilteredHolds`, `ScreenMatchesMapHolds`. While a process
  loads, what it has not turned to yet is in its findings; every attachment records whom it overtakes.
  `ScreenInv`: a domain at two places of the list is among the doubled ones, so that removing one
  entry of any other leaves no second one behind.
- `MacProofs`, of `MacHosts` and `AppWatcher`. `HostsTypeCorrect`, `HostsFollow` (`HostsFollowSet`),
  `ListBlocked` (`ListedAreBlocked`), `NoLeaks` (`NothingLeaks`), `OthersKept` (`OtherLinesKept`),
  `BlockSound` (`SoundBlockTakesEffect`): none of them is inductive, for they speak of the moments when
  nobody holds the mutex. `LockInv` says who holds PfBlocker's mutex, while it waits for others and while it works, also while the
  daemon starts, disables or is down, and `WorkInv` that what is left of a command keeps to it. On these two rest four invariants,
  each kept by itself: `FollowInv` (the file follows the set of its last writer, the daemon's also between two domains of one
  command; the only step at which it is behind is that writer's rewrite), `ListInv` and `LeakInv` (what a command has still to
  remove or to list makes up for the difference of set and list), `KeptInv` (whoever rewrites, the
  daemon or the terminal interface, has read the lines that must stay). `EffectStep` says that only the end of a block command answers it.
  `WatcherTypeCorrect`, `VerdictFitsHolds` (`VerdictFits`): the verdict is about the set as it was
  locked, which cannot change until the lookups end; pids whose process has not changed have the
  executable that was read, so that reading it again makes no difference.
- `AndroidProofs`, of `AndroidServices`, `AndroidDns` and `AndroidShield`. `ServicesTypeCorrect`, which
  rests on `CountInv`: each done request has sent at most one broadcast to each receiver.
  `CachesFollow` (`CachesFollowStore`): `CacheInv` says it of every moment, also of a service in the
  middle of its start, and names the ways in which a copy is behind: a broadcast to be sent, one on its
  way, one missed. `UndisturbedAtomic` (`UndisturbedChangesAreAtomic`): `LocalInv`, a loaded list that nobody
  has replaced is what the command makes of the list as it still is.
  `DnsTypeCorrect`, `AnswerFitsHolds` (`AnswerFits`), `ResolverImplemented` (`ImplementsResolver`). `Hands`: each query is
  queued once or in one loop's hand, never both; types rest on it, for an empty hand is never sent.
  `PortOK`: on a port that was not used again only the loop's own answer is on its way. For the
  refinement the fate of a query in hand is the verdict of the loop that has it (`Fate`, one for each query by
  `Hands`): looking it up is `Judge`, the send is `Forward`, the write `Refuse` or `Answer`;
  a stop, a cancelled loop, a failed read, an answer that cannot be built, a failure and a crash
  are a `Drop`; everything else stutters. `UpstreamOK`
  says that what a loop is about to answer has gone upstream.
  `ShieldTypeCorrect`, `MarkedIsShieldedHolds`, inductive with the types.
- `IosProofs`: `TypeCorrect`, `ListedFiltered` (`ListedIsFiltered`), `UnlistedFree` (`UnlistedIsFree`),
  `DomainsLeave` (`DomainsLeaveByRequest`), `AcceptedSaved` (`AcceptedIsSaved`). A program of the main
  thread is a sequence of calls, of a length that depends on the request. What all have in common
  is how they end (`Ending`): set the filter to a list, save it, enable; or wipe, save, disable. The lemmas
  of the first part say that every request's program, and any two in a row, end so; `ProgramInv`
  says of a program near its end what filter and list are already, and of one that is done that
  they agree (`Filtered`). A crash forgets the program, and the launch applies the saved list
  anew, wherever the crash was. `MonitorInv`: as long as the two processes have not been at work at
  the same time, what the monitor has still to apply is what is saved. `SavesInv`: every list that is yet to be
  saved contains the one that is, but for requests that remove and late tasks.

The components of a platform share a module of proofs but no variable; each is proved from its
own specification. Where names would meet (`Init`, `Next`, `vars`, ...) those of `AppWatcher`, `AndroidDns`
and `AndroidShield` begin with `Watcher`, `Dns` and `Shield`.

Assumptions on constants (`ASSUME`, evaluated by TLC in each run): the classes of packages, names
and interfaces are distinct where the code tells them apart, bounds are natural numbers, the first list
on screen fits it and has no domain twice, as that of `App::new`; connections are finitely many, and the
marks that stand for nobody or nothing (`None`, `Nobody`, "free", "none", "refuse", "back") are no member of the set
they are marks for.

Every safety property of a passing run, invariant or action property, is stated by a theorem; the runs
are what the statements were tried on first, the inductive invariants included. Only
model-checked: liveness (`EveryCommandAnswered`, `ThawResumes`, `EveryExecAnswered`,
`NoticesEnd`, `ChangesReachServices`, `TunIsFiltered`, `DaemonReturns`, `BlockedIsKilled`,
`EveryQueryEnds`, `NewcomerIsShielded`), which is out of the prover's reach.

## 5. The plan

Done, in this order: `ControlServer` with `ControlApi` and its proofs (everything else is fed by
it), `Freezer` and `SniFilter` with proofs, `AppBlocker`, `MacHosts`, `AndroidServices`,
`IosBlocking`; then the parts that act on the lists: `LinuxMain`, `AppWatcher`, `AndroidDns` and
`AndroidShield` with proofs, and the proofs of `AppBlocker`, `MacHosts`, `AndroidServices` and
`IosBlocking`.

To be proved next: an abstract specification of the Android services, whose copies are the stored list of
some earlier moment and never go back to an older one while they run, and one of `AppBlocker`, where an exec
is judged by the set of one instant between its event and its answer.

To be modelled, if the code grows that way: a composition of `AppBlocker`'s set with the block_app and
unblock_app of `ControlServer`, which today share one mutex for one insertion at a time and have nothing
else in common; the guard's repair of `/etc/hosts` once another component of Linux writes that file.

## 6. What is not modelled

- The screen lock (`core/macos/screen_lock.rs`, `scripts/enforce-lock*`): one sequential loop that
  once a minute in the window locks the screen unless it is told that it is locked. It shares nothing
  with the rest; what could go wrong is in the programs it calls.
- The guard's repairs of `/etc/hosts` and of the proxy's files: nothing else in the Linux program
  touches them. Its restart of the service is the fairness of `StartDaemon` in `LinuxMain`.
- The following of the underlying network by the VPN (`setUnderlyingNetworks`, `bindSocket`): a
  forwarding may fail at any time in `AndroidDns`, whatever the reason.
- Parsing and building: JSON, HTTP and the socket; the bytes of packets and DNS messages; loading and
  verifying the eBPF program; names longer than the map's key, which `ebpf.rs:100` cuts off.
- The freezer's mutex on macOS, under which nothing else is taken, and the content of the set of
  applications in `MacHosts`: there its mutex only has its place in the order (`TakeApps`).
- Drawing and keys of the terminal, with the pause that changes a word on the screen and nothing
  else (`ui.rs:177`); the text of shields and notifications.
- Category ids on iOS, whose tokens are never found; revoking the iOS authorization while the app
  runs.
- The client scripts and the shield's configuration, which have no state, and the loading test.
