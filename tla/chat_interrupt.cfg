\* Ctrl-C while the server is not asleep.
SPECIFICATION FairSpec
CONSTANTS
  Clients = {c1, c2}
  Channels = {default, other}
  Default = default
  MaxEvents = 2
  RecvLines = 2
  SendBuffer = 3
  Lines <- FewLines
  MaxUnread = 1
  MaxLines = 1
  MaxInterrupts = 1
PROPERTIES
  InterruptStops
CHECK_DEADLOCK FALSE
