\* Three overlapping commands, in a map with room for two of three domains; tasks run on.
SPECIFICATION FairSpec
CONSTANTS
  dflt = dflt d1 = d1 d2 = d2 p1 = p1 n1 = n1 n2 = n2
  None = None
  Conn = {c1, c2, c3}
  Domain <- Domains
  Default = {dflt}
  Path = {p1}
  Name = {n1, n2}
  Command <- Commands
  MaxEntries = 2
INVARIANTS ListMatchesMap DefaultsLostOnlyByName StatusNeverAhead ShrinkingSyncSucceeds
PROPERTIES ImplementsApi EveryCommandAnswered
CHECK_DEADLOCK FALSE
