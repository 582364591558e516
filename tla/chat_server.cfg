\* Every line in every state, lines received together, disconnects, full sockets and Ctrl-C.
SPECIFICATION Spec
CONSTANTS
  Clients = {c1, c2}
  Channels = {default, other}
  Default = default
  MaxEvents = 2
  RecvLines = 2
  SendBuffer = 3
  Lines <- AllLines
  MaxUnread = 2
  MaxLines = 3
  MaxInterrupts = 1
SYMMETRY ClientSymmetry
VIEW ServerView
INVARIANTS
  TypeOK
  BatchRegistered
  NoLostWakeup
CHECK_DEADLOCK FALSE
