\* Two commands that may overlap, a fork, a death and a restart; handlers run on.
SPECIFICATION FairSpec
CONSTANTS
  a = a b = b p1 = p1 p2 = p2 p3 = p3
  Other = Other Root = Root
  Conn = {c1, c2}
  App <- Apps
  Pid <- Pids
  Parents <- Family
  Names <- FamilyNames
  MaxForks = 1
  MaxDeaths = 1
  MaxRestarts = 1
INVARIANTS NothingStranded ThawLeavesNoneStopped ChildrenStopped
PROPERTIES ThawResumes
CHECK_DEADLOCK FALSE
