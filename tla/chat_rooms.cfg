\* Who is told what: longer conversations of one line at a time.
SPECIFICATION Spec
CONSTANTS
  Clients = {c1, c2}
  Channels = {default, other}
  Default = default
  MaxEvents = 2
  RecvLines = 2
  SendBuffer = 3
  Lines <- RoomLines
  MaxUnread = 1
  MaxLines = 5
  MaxInterrupts = 0
SYMMETRY ClientSymmetry
VIEW ServerView
INVARIANTS
  RosterConsistent
PROPERTIES
  RoomsKept
CHECK_DEADLOCK FALSE
