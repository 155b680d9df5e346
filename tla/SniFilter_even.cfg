\* Names of even length in front of another extension.
SPECIFICATION Spec
CONSTANTS
  com = com bi = bi biz = biz x = x y = y other = other z = z dot = dot
  Empty = Empty Zero = Zero
  Label <- Labels
  Size <- Sizes
  Byte <- Behinds
  Joined <- JoinedLabels
  Key <- Keys
  Packet <- Packets
  MaxExtensions = 64
  MaxExtBytes = 1024
  MaxNameBytes = 128
  MaxSuffixes = 10
INVARIANTS ExactNamesDropped
