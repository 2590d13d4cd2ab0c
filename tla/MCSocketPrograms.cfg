CONSTANTS
  Clients = {c1, c2}
  QLEN = 1
  Attempts = 2
  Addresses = 2
  Standard = {{0, 1, 2}, {1}}
  MaxFaults = 2
  Text = 2
  Packets = 2
SPECIFICATION SocketSpec
INVARIANTS
  OneServer
  AnswersAreWhole
  PacketsArriveWhole
PROPERTIES
  ClientsReturn
  PacketsArePrinted
CHECK_DEADLOCK FALSE
