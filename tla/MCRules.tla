------------------------------- MODULE MCRules --------------------------------
(* Model checking of Rules: a heater that a timer, the sun, a motion relay and  *)
(* a thermostat switch.                                                        *)
EXTENDS Rules

MCOrder == <<"timer", "sunrise", "motion", "thermostat">>

MCRule ==
  [timer |-> [kind |-> "timer", provider |-> "TimerEvent", receiver |-> "heater",
              at |-> 2, command |-> "on"],
   sunrise |-> [kind |-> "sunrise", provider |-> "SunriseEvent", receiver |-> "heater",
                command |-> "off"],
   motion |-> [kind |-> "relay", provider |-> "relay", receiver |-> "heater", state |-> 1,
               command |-> "on"],
   thermostat |-> [kind |-> "thermostat", provider |-> "thermometer", receiver |-> "heater",
                   temperature |-> 0, delta |-> 1]]

MCProviders == [thermometer |-> "ThermometerCurrentValue", relay |-> "MotionRelayCurrentState"]

MCValues == [ThermometerCurrentValue |-> {-127, -1, 0, 1}, MotionRelayCurrentState |-> {1}]

MCSunTimes == {[sunrise |-> 4, sunset |-> 5], [sunrise |-> 3, sunset |-> 5]}
==============================================================================
