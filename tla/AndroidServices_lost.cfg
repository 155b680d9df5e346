\* Two requests at the same time.
SPECIFICATION Spec
CONSTANTS
  d1 = d1 d2 = d2 p = p cat = cat vpn = vpn blocker = blocker
  Conn = {c1, c2}
  Entry <- Entries
  Category = {cat}
  Service = {vpn}
  Cares <- Scopes
  KeepsReceiver = {}
  MayFail = {vpn}
  Command <- Commands
  MaxToggles = 0
  MaxCrashes = 0
PROPERTIES StoreChangesAtomically
CHECK_DEADLOCK FALSE
