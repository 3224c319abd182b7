SPECIFICATION Spec
CONSTANTS
  Required = Required
  Unset = Unset
  NewId = NewId
  TypeOf <- MCTypeOf
  Readings <- MCReadings
  Names = {"b"}
  Seconds = {1, 2}
  DefaultSeconds = 2
  FiveMinutes = 0
  MaxReports = 2
  MaxTime = 1
  MaxFailures = 1
  Touched = {"thermometer"}
  Dialogs = {"thermometer", "motion_relay"}
  MaxChanges = 1
  EventIds = {"e1", "e2"}
  ScenarioIds = {"s1", "s2"}
  Entries <- MCEntries
  MaxRequests = 1
  Accounts <- MCAccounts
  Parts <- MCParts
  InitialRows <- MCRows
  InitialEvents <- MCEvents
  InitialScenarios <- MCScenarios
  Visits <- MCVisits
INVARIANTS PageShowsItsDevice
PROPERTIES CommandMatchesLabel EditorsLoseNothing
