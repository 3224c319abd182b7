SPECIFICATION FairSpec
CONSTANTS
  Order <- MCOrder
  Rule <- MCRule
  Receivers = {"heater"}
  Workers = {"w1", "w2"}
  Timer = "clock"
  Providers <- MCProviders
  Values <- MCValues
  Switched = {"timer", "thermostat"}
  Hours = 2
  HourLength = 2
  SunTimes <- MCSunTimes
  MaxTroubles = 1
INVARIANTS DueCommandStored ThermostatFollows
PROPERTIES ActiveRuleFires
