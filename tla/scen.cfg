CONSTANTS
  t1 = t1
  t2 = t2
  e1 = e1
  e2 = e2
  s1 = s1
  b1 = b1
  Absent = Absent
  NoThread = NoThread
  Threads = {t1, t2}
  EventIds = {e1}
  ScenarioIds = {s1}
  Bodies = {b1}
  Contents <- Single
  InitialEvents <- EmptyOrFull
  InitialScenarios <- NoneStored
  Requests <- AllRequests
  Faults = {"select", "write", "rollback", "reopen", "crash"}
SPECIFICATION FairServerSpec
INVARIANTS ServerTypeOK EventsMutexHeld ScenariosMutexHeld
PROPERTIES LeakedWritesAreLost ActivationDurable EveryRequestAnswered
