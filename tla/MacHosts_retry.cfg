\* A command after a failed rewrite.
SPECIFICATION Spec
CONSTANTS
  d = d x = x s = s line = line
  Main = Main Nobody = Nobody
  Conn = {c1, c2}
  Domain <- Domains
  SuffixKey = {s}
  Default = {d}
  Shown = {}
  Command <- Commands
  Line = {line}
  Before = {line}
  MaxFailures = 1
  MaxEdits = 0
  MaxStops = 0
  MaxChanges = 0
PROPERTIES BlockTakesEffect
CHECK_DEADLOCK FALSE
