\* The server and its clients: they agree on Open, every AUTH is answered, clients end.
SPECIFICATION FairSystem
CONSTANTS
  Clients = {c1, c2}
  Channels = {default}
  Default = default
  MaxEvents = 2
  RecvLines = 2
  SendBuffer = 5
  Lines <- AllLines
  MaxUnread = 2
  MaxLines = 3
  MaxInterrupts = 1
INVARIANTS
  OpenAgreed
  RefusedForCause
PROPERTIES
  AuthAnswered
  ClientEnds
CHECK_DEADLOCK FALSE
