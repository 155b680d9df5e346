\* A larger instance: three of many commands, a failure, an end.
SPECIFICATION Spec
CONSTANTS
  d = d x = x s = s line = line
  Main = Main Nobody = Nobody
  Conn = {c1, c2, c3}
  Domain <- Domains
  SuffixKey = {s}
  Default = {d}
  Shown = {}
  Command <- Commands
  Line = {line}
  Before = {}
  MaxFailures = 1
  MaxEdits = 0
  MaxStops = 1
  MaxChanges = 0
SYMMETRY Perms
INVARIANTS ListedAreBlocked NothingLeaks
CHECK_DEADLOCK FALSE
