\* Does every blocked app in front get its shield?
SPECIFICATION ShieldFairSpec
CONSTANTS
  a = a b = b home = home own = own
  App = {a, b}
  Home = home
  Own = own
  NoPackage = NoPackage
PROPERTIES BlockedIsShielded
CHECK_DEADLOCK FALSE
