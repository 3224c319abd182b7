SPECIFICATION RegistrySpec
CONSTANTS
  Threads = {t1, t2}
  Devices = {d1, d2}
  Names = {"timestamp"}
  NoName = NoName
  Stamps = {3}
  TPS = 2
  Contents = {}
  Absent = Absent
  NoThread = NoThread
  Faults = {"select", "write", "crash"}
SYMMETRY Symmetry
INVARIANTS HiddenDevicesExplained
