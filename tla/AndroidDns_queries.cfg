\* Queries while the list changes and the VPN stops and starts.
SPECIFICATION DnsFairSpec
CONSTANTS
  q1 = q1 q2 = q2 q3 = q3 www = www other = other junk = junk dom = dom p1 = p1 p2 = p2
  Id = {q1, q2, q3}
  Name = {www, junk}
  Domain = {dom}
  Junk = junk
  Under <- Listed
  Port = {p1, p2}
  None = None
  MaxStarts = 2
  MaxUpdates = 1
INVARIANTS AnswerFits
PROPERTIES EveryQueryEnds ImplementsResolver
CHECK_DEADLOCK FALSE
