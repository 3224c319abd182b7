SPECIFICATION RegistrySpec
CONSTANTS
  Threads = {t1, t2}
  Devices = {d1}
  Names = {"grp", "timestamp"}
  NoName = NoName
  Stamps = {3, 4}
  TPS = 2
  Contents = {c1}
  Absent = Absent
  NoThread = NoThread
  Faults = {"write", "crash"}
SYMMETRY Symmetry
INVARIANTS RegistryTypeOK AttachedCachesAreTables OrphansExplained NoRefusedInsert CachedDevicesStored
