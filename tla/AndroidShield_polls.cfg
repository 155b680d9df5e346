\* The shield while the user, the list and the service change.
SPECIFICATION ShieldFairSpec
CONSTANTS
  a = a b = b home = home own = own
  App = {a, b}
  Home = home
  Own = own
  NoPackage = NoPackage
INVARIANTS MarkedIsShielded
PROPERTIES NewcomerIsShielded
CHECK_DEADLOCK FALSE
