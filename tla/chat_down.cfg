\* The server and its clients: a client that leaves takes the server with it.
SPECIFICATION SystemSpec
CONSTANTS
  Clients = {c1, c2}
  Channels = {default}
  Default = default
  MaxEvents = 2
  RecvLines = 2
  SendBuffer = 5
  Lines <- AllLines
  MaxUnread = 2
  MaxLines = 3
  MaxInterrupts = 0
INVARIANTS
  ServerSurvives
CHECK_DEADLOCK FALSE
