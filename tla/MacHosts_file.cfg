\* A larger instance: two commands beside the terminal interface and another writer.
SPECIFICATION Spec
CONSTANTS
  d = d x = x s = s line = line
  Main = Main Nobody = Nobody
  Conn = {c1, c2}
  Domain <- Domains
  SuffixKey = {s}
  Default = {d}
  Shown = {d}
  Command <- FewCommands
  Line = {line}
  Before = {}
  MaxFailures = 1
  MaxEdits = 1
  MaxStops = 1
  MaxChanges = 2
INVARIANTS HostsFollowSet OtherLinesKept
SYMMETRY Perms
PROPERTIES SoundBlockTakesEffect
CHECK_DEADLOCK FALSE
