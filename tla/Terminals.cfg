SPECIFICATION TerminalsSpec
CONSTANTS
  Spaces <- MCSpaces
  FirstKeys <- MCFirstKeys
  Keys = {k1}
  Conns = {c1, c2}
  Chans = {s1}
  MaxConns = 2
  QueueCap = 1
  InboxCap = 1
  MaxSent = 2
  MaxMoves = 1
  SizeCap = 2
  MaxMessages = 4
INVARIANTS ConnectionsAreAccountedFor PanicNeedsLateResize OnlyTypingHoldsTheShell
PROPERTY ClosedChannelsEnd
CHECK_DEADLOCK FALSE
