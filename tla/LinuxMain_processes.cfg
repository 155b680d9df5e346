\* The daemon and the terminal interface while two interfaces come and go.
SPECIFICATION FairSpec
CONSTANTS
  lo = lo eth = eth tun = tun a = a
  Iface = {lo, eth, tun}
  Lo = lo
  Tun = {tun}
  Domain = {a}
  Initial <- InitialList
  MaxChanges = 2
  MaxEnds = 2
  MaxFailures = 1
  MaxList = 2
INVARIANTS KnownAreFiltered ScreenMatchesMap
PROPERTIES TunIsFiltered DaemonReturns
CHECK_DEADLOCK FALSE
