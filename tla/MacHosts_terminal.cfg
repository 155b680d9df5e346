\* A command, and a terminal interface that replaces the block.
SPECIFICATION Spec
CONSTANTS
  d = d x = x s = s line = line
  Main = Main Nobody = Nobody
  Conn = {c1}
  Domain <- Domains
  SuffixKey = {s}
  Default = {d}
  Shown = {d}
  Command <- FewCommands
  Line = {line}
  Before = {line}
  MaxFailures = 0
  MaxEdits = 0
  MaxStops = 0
  MaxChanges = 1
PROPERTIES BlockTakesEffect
CHECK_DEADLOCK FALSE
