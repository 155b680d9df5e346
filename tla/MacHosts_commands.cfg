\* Commands, a terminal interface, failures, edits and ends, any three of them.
SPECIFICATION FairSpec
CONSTANTS
  d = d x = x s = s line = line
  Main = Main Nobody = Nobody
  Conn = {c1, c2, c3}
  Domain <- Domains
  SuffixKey = {s}
  Default = {d}
  Shown = {d}
  Command <- KindsOfCommand
  Line = {line}
  Before = {}
  MaxFailures = 2
  MaxEdits = 1
  MaxStops = 2
  MaxChanges = 3
ACTION_CONSTRAINT FewEvents
INVARIANTS HostsFollowSet ListedAreBlocked NothingLeaks OtherLinesKept
PROPERTIES SoundBlockTakesEffect EveryCommandAnswered
CHECK_DEADLOCK FALSE
