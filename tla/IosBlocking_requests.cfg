\* Requests, the picker, two windows of the schedule and a crash.
SPECIFICATION Spec
CONSTANTS
  d1 = d1 d2 = d2 a1 = a1
  Domain = {d1, d2}
  App = {a1}
  Command <- Commands
  Approved = {FALSE, TRUE}
  Window = {lock, focus}
  MaxRequests = 3
  MaxPicks = 1
  MaxCrashes = 1
  MaxWindows = 2
INVARIANTS ListedIsFiltered UnlistedIsFree
PROPERTIES DomainsLeaveByRequest AcceptedIsSaved
CHECK_DEADLOCK FALSE
