CONSTANTS
  t1 = t1
  t2 = t2
  e1 = e1
  e2 = e2
  s1 = s1
  s2 = s2
  b1 = b1
  Absent = Absent
  NoThread = NoThread
  Threads = {t1, t2}
  EventIds = {e1, e2}
  ScenarioIds = {s1}
  Bodies = {b1}
  Contents <- Swaps
  InitialEvents <- AllStored
  InitialScenarios <- AnyStored
  Requests <- OnlyPut
  Faults = {}
SPECIFICATION ServerSpec
PROPERTY PutReplacesScenario
