\* Requests at the same time, services that start between them, and a crash.
SPECIFICATION FairSpec
CONSTANTS
  d1 = d1 d2 = d2 p = p cat = cat vpn = vpn blocker = blocker
  Conn = {c1, c2}
  Entry <- Entries
  Category = {cat}
  Service <- Services
  Cares <- Scopes
  KeepsReceiver = {blocker}
  MayFail = {vpn}
  Command <- Commands
  MaxToggles = 2
  MaxCrashes = 1
INVARIANTS CachesFollowStore
PROPERTIES UndisturbedChangesAreAtomic ChangesReachServices
CHECK_DEADLOCK FALSE
