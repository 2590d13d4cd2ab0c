CONSTANTS
  Clients = {c1, c2}
  QLEN = 1
  Attempts = 2
  Addresses = 1
  Standard = {{2}}
  MaxFaults = 0
  Text = 2
  Packets = 2
SPECIFICATION SocketSpec
INVARIANT UptimeHasOutput
