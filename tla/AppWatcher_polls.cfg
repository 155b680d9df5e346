\* The watcher while processes begin and end and the set changes.
SPECIFICATION WatcherFairSpec
CONSTANTS
  p1 = p1 p2 = p2 app = app copy = copy osa = osa
  appName = appName osaName = osaName prefix = prefix
  Pid = {p1, p2}
  Path = {app, copy, osa}
  Name = {appName, osaName}
  Pattern = {prefix}
  None = None
  Base <- Bases
  Covers <- Prefixes
  Osascript = osa
  MaxStarts = 1
  MaxCommands = 2
INVARIANTS VerdictFits
PROPERTIES BlockedIsKilled
CHECK_DEADLOCK FALSE
