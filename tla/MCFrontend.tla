------------------------------ MODULE MCFrontend ------------------------------
(* Model checking of Frontend: two relays and two motion relays, and one device *)
(* of each other type.                                                          *)
EXTENDS Frontend

MCTypeOf ==
  [relay1 |-> "relay", relay2 |-> "relay", motion1 |-> "motion_relay", other |-> "motion_relay",
   thermometer |-> "thermometer", universal |-> "universal_device"]

MCReadings ==
  [relay |-> {[state |-> 0], [state |-> 1]},
   motion_relay |-> {[motion |-> TRUE, state |-> 1]},
   thermometer |-> {[value |-> 5]},
   universal_device |-> {[values |-> [volts |-> [type |-> "integer", value |-> 1]]],
                         [values |-> <<>>]}]

MCParts == ("" :> <<>>) @@ ("/" :> <<>>) @@ ("home/up" :> <<"home", "up">>)

MCRows ==
  {<<"id", d, "type", MCTypeOf[d], "name", IF d = "motion1" THEN "grp" ELSE "a",
     "grp", CASE d = "other" -> "/" [] d \in {"relay1", "motion1"} -> "home/up" [] OTHER -> "",
     "timestamp", "0">> : d \in {"relay1", "relay2", "motion1", "other", "thermometer", "universal"}}

MCAccounts ==
  {[login |-> "user", password |-> "secret", type |-> "user"],
   [login |-> "nobody", password |-> "secret", type |-> "guest"]}

(* Made by other clients: half a degree, and a brightness.                      *)
MCEvents ==
  [e1 |-> [id |-> "e1", name |-> "a", active |-> TRUE, provider |-> [type |-> "thermometer", id |-> "thermometer"],
           receiver |-> [type |-> "relay", id |-> "relay1"], type |-> "thermometer_event",
           temperature |-> 3, lower |-> TRUE, command |-> [brightness |-> 3]]]

MCScenarios == [s1 |-> [id |-> "s1", name |-> "a", activate |-> {"e1"}, deactivate |-> {}]]

MCEntries ==
  [name : {"b"}, active : {TRUE}, hour : {7}, minute : {30}, temperature : {4}, delta : {1},
   lower : BOOLEAN, state : BOOLEAN, brightness : {3}, on : {TRUE}]

MCVisits == {{"relay"}, {"motion_relay"}, {"thermometer"}, {"universal_device"}, {"Events"}, {"Scenarios"}}
==============================================================================
