\* The documented immunity of the default list, refuted.
SPECIFICATION Spec
CONSTANTS
  dflt = dflt d1 = d1 d2 = d2 p1 = p1 n1 = n1 n2 = n2
  None = None
  Conn = {c1}
  Domain <- Domains
  Default = {dflt}
  Path = {p1}
  Name = {n1, n2}
  Command <- Commands
  MaxEntries = 3

INVARIANTS DefaultsUntouched
CHECK_DEADLOCK FALSE
