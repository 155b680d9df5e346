\* A parent forks after its tree was read and before its own signal.
SPECIFICATION Spec
CONSTANTS
  a = a b = b p1 = p1 p2 = p2 p3 = p3
  Other = Other Root = Root
  Conn = {c1}
  App <- Apps
  Pid <- Pids
  Parents <- Family
  Names <- FamilyNames
  MaxForks = 1
  MaxDeaths = 0
  MaxRestarts = 0
INVARIANTS NoChildMissed
CHECK_DEADLOCK FALSE
