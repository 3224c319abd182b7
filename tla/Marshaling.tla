------------------------------ MODULE Marshaling ------------------------------
(***************************************************************************)
(* marshaling/: how the objects of the server, its clients and its devices *)
(* become JSON and are read again.                                         *)
(*                                                                         *)
(* A type is the record of its keys: what from_json takes for a key that   *)
(* is missing, Required where it throws, and Unset for an optional, which  *)
(* stays empty, and which to_json leaves out when it is.  An object is a   *)
(* record of such a type, an enumerator the string it is written as, a     *)
(* JSON object a function of its keys.                                     *)
(***************************************************************************)
EXTENDS Integers, SequencesExt

CONSTANTS
  Required,  \* the key must be there
  Unset,     \* an optional without a value
  NewId      \* what Uuid() generates

ASSUME MarkersAssumption ==
  /\ Required # Unset /\ Required # NewId /\ NewId # Unset
  /\ Unset \notin Int /\ Unset \notin STRING /\ Unset \notin BOOLEAN

MissingInt == -2147483647 - 1
MissingFloat == 0   \* numeric_limits<float>::min(), the least positive one

Object(type, json) == [key \in DOMAIN type |-> IF key \in DOMAIN json THEN json[key] ELSE type[key]]
Json(type, object) == [key \in {k \in DOMAIN type : type[k] = Unset => object[k] # Unset} |-> object[key]]

EnumOf(written, str, otherwise) == IF str \in written THEN str ELSE otherwise

AccountTypes == {"undefined", "viewer", "user", "admin", "internal"}
DeviceTypes == {"thermometer", "relay", "motion_relay", "universal_device"}
EventTypes ==
  {"timer_event", "thermometer_event", "relay_event", "thermostat_event", "sunrise_event", "sunset_event"}
Subjects ==
  {"timer_timeout", "get_device_information", "thermometer_current_value", "relay_current_state",
   "motion_relay_current_state", "websocket_authorization", "websocket_get_settings",
   "websocket_get_commands", "universal_device_current_state", "sunrise_timeout", "sunset_timeout"}
UniversalDataTypes == {"boolean", "integer", "double", "string"}

UniversalData(json) ==
  IF "type" \in DOMAIN json
    THEN [type |-> EnumOf(UniversalDataTypes, json.type, "boolean"), value |-> json.value]
    ELSE [type |-> "boolean", value |-> FALSE]

Account == [login |-> "", password |-> "", type |-> "undefined"]
AccountOf(json) == [Object(Account, json) EXCEPT !.type = EnumOf(AccountTypes, @, "undefined")]
Device == [id |-> Required, type |-> Required, name |-> Required, grp |-> Required, timestamp |-> Required]
DeviceOf(json) == [Object(Device, json) EXCEPT !.type = EnumOf(DeviceTypes, @, "undefined_type")]
Description == [type |-> Required, id |-> Required]
DescriptionOf(json) == [Object(Description, json) EXCEPT !.type = EnumOf(DeviceTypes, @, "undefined_type")]
Information == [type |-> Required, id |-> Required, seconds |-> 0]
DeviceProperty == [value |-> ""]

(* Old devices send no id.                                                  *)
MessageHeader == [id |-> NewId, description |-> Required, subject |-> "undefined_subject"]
Message == [header |-> Required, data |-> Required]
MessageOf(json) ==
  LET header == Object(MessageHeader, json.header)
  IN  [Object(Message, json) EXCEPT !.header =
         [header EXCEPT !.subject = EnumOf(Subjects, @, "undefined_subject")]]

PeriodSettings == [period |-> 5000]
MotionRelaySettings == PeriodSettings @@ [activityTime |-> 60000]

(* The alternative is told by its keys; what has neither key keeps the      *)
(* settings the variable had.                                              *)
SettingsOf(json, former) ==
  IF "activityTime" \in DOMAIN json THEN Object(MotionRelaySettings, json)
  ELSE IF "period" \in DOMAIN json THEN Object(PeriodSettings, json) ELSE former

RelayState == [state |-> MissingInt]
Brightness == [brightness |-> 7]
DefaultCommand == [state |-> 0]   \* numeric_limits<float>::min() as an int
CommandOf(json) ==
  IF "state" \in DOMAIN json THEN Object(RelayState, json)
  ELSE IF "brightness" \in DOMAIN json THEN Object(Brightness, json) ELSE DefaultCommand

(* The ids of the client and the clock are fixed.                           *)
ClientProvider == [type |-> "client", id |-> "client"]
EventProvider(id) == [type |-> "event", id |-> id]
ProviderOf(json) ==
  CASE json.type = "client" -> ClientProvider
    [] json.type = "event" -> EventProvider(json.id)
    [] OTHER -> DescriptionOf(json)

ThermometerValue == [value |-> MissingFloat, timestamp |-> Unset]
RelayValue == [state |-> MissingInt, timestamp |-> Unset]
MotionRelayValue == [motion |-> FALSE, state |-> MissingInt, timestamp |-> Unset]
UniversalValue == [values |-> Required, timestamp |-> Unset]

(* from_json(MotionRelayValue) takes the state from the key "value".        *)
MotionRelayValueOf(json) ==
  [Object(MotionRelayValue, json) EXCEPT
     !.state = IF "value" \in DOMAIN json THEN json["value"] ELSE MissingInt]
UniversalValueOf(json) ==
  [Object(UniversalValue, json) EXCEPT
     !.values = [parameter \in DOMAIN @ |-> UniversalData(@[parameter])]]

BaseEvent ==
  [id |-> Required, name |-> "", active |-> TRUE, provider |-> Required, receiver |-> Required,
   type |-> Required]
TimerEvent == BaseEvent @@ [hour |-> 0, minute |-> 0, command |-> Required]
ThermometerEvent == BaseEvent @@ [temperature |-> MissingFloat, lower |-> TRUE, command |-> Required]
RelayEvent == BaseEvent @@ [state |-> 0, command |-> Required]
ThermostatEvent == BaseEvent @@ [temperature |-> MissingFloat, delta |-> 1]   \* half a degree
SunriseEvent == BaseEvent @@ [command |-> Required]
SunsetEvent == BaseEvent @@ [command |-> Required]
EventOfType ==
  [timer_event |-> TimerEvent, thermometer_event |-> ThermometerEvent, relay_event |-> RelayEvent,
   thermostat_event |-> ThermostatEvent, sunrise_event |-> SunriseEvent, sunset_event |-> SunsetEvent]

(* Mutant: to_json(ThermometerEvent) leaves a key out, which reads as TRUE.  *)
EventJsonWithoutLower(event) ==
  [key \in DOMAIN Json(EventOfType[event.type], event) \ {"lower"} |-> event[key]]

EventJson(event) == Json(EventOfType[event.type], event)
EventOf(json) ==
  LET read == Object(EventOfType[json.type], json)
      base == [read EXCEPT !.provider = ProviderOf(@), !.receiver = DescriptionOf(@)]
  IN  IF "command" \in DOMAIN base THEN [base EXCEPT !.command = CommandOf(@)] ELSE base

Scenario == [id |-> Required, name |-> Required, activate |-> Required, deactivate |-> Required]

(***************************************************************************)
(* A row is the sequence of its columns' names and texts in turn.  A       *)
(* column whose name is an earlier column's text is not found.             *)
(***************************************************************************)
FindValueByName(row, name) ==
  LET first == SelectInSeq(row, LAMBDA text : text = name)
  IN  IF first % 2 = 1 THEN row[first + 1] ELSE Unset

(* FromDbStrings(Device): a row without one of its three keys is a device   *)
(* with a new id.                                                          *)
DeviceOfRow(row) ==
  LET column(name) == FindValueByName(row, name)
      text(name) == IF column(name) = Unset THEN "" ELSE column(name)
  IN  IF Unset \in {column("id"), column("type"), column("timestamp")}
        THEN [id |-> NewId, type |-> "undefined_type", name |-> "", grp |-> "", timestamp |-> Unset]
        ELSE [id |-> column("id"), type |-> column("type"), name |-> text("name"),
              grp |-> text("grp"), timestamp |-> column("timestamp")]
==============================================================================
