\* notify-send blocked by a pattern.
SPECIFICATION FairSpec
CONSTANTS
  game = game notify = notify
  gameName = gameName notifyName = notifyName unknownName = unknownName
  star = star
  Proc = {p1, p2, p3}
  Program <- Programs
  NotifySend = notify
  Unknown = Unknown
  AppName <- AppNames
  Pattern <- Patterns
  Base <- Bases
  Matches <- Matching
  Blockable <- Blocks
  QueueLimit = 2
  BatchLimit = 2
  MaxExecs = 3
  MaxRestarts = 1
INVARIANTS NotifySendAllowed
CHECK_DEADLOCK FALSE
