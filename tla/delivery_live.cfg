SPECIFICATION FairDeliverySpec
CONSTANTS
  Devices = {d1}
  Commands = {on}
  Conns = {c1, c2}
  Workers = {w1}
  NoConn = noConn
  NoContent = none
  Faults = {"select", "write", "crash"}
  MaxStores = 2
  MaxUnread = 0
  MaxBreaks = 1
PROPERTIES EveryCommandIsSent
