----------------------------- MODULE EditorPages ------------------------------
(***************************************************************************)
(* The pages of the events and of the scenarios in a session of the        *)
(* frontend: EventsWidget with its table and its six editors of events,    *)
(* ScenariosWidget with its list and its check boxes, ScenarioButton.      *)
(*                                                                         *)
(* Both pages work on what they listed when they were last refreshed.      *)
(* What a user enters before pressing a button is one step.  The ids of    *)
(* this module's objects are chosen by the client, as Uuid() does.         *)
(***************************************************************************)
EXTENDS DevicePages

CONSTANTS
  EventIds, ScenarioIds,
  Entries,       \* what is entered in the fields of an editor
  MaxRequests    \* bound: events and scenarios sent from the two pages

VARIABLES
  events,      \* the server: the event of each id
  scenarios,   \* the server: the scenario of each id
  evPage,      \* EventsWidget
  scPage,      \* ScenariosWidget
  requests

editorVars == <<events, scenarios, evPage, scPage, requests>>

NoRow == ""
ClosedPage == [row |-> NoRow]
Without(f, x) == [y \in DOMAIN f \ {x} |-> f[y]]
------------------------------------------------------------------------------
(***************************************************************************)
(* The editors: the fields they add, the types of devices offered as       *)
(* provider (or the fixed one), and as receiver.  A field is what its      *)
(* widget shows: devices by their ids, temperatures in half degrees, check *)
(* boxes as BOOLEANs.  EventReceiverWidget has a field for each command.   *)
(***************************************************************************)
EventReceiverWidget == {"on", "brightness"}
TimerEventEditor ==
  [fields |-> {"hour", "minute"} \cup EventReceiverWidget, provider |-> "timer", receivers |-> DeviceTypes]
ThermometerEventEditor ==
  [fields |-> {"temperature", "lower"} \cup EventReceiverWidget, provider |-> {"thermometer"},
   receivers |-> DeviceTypes]
RelayEventEditor ==
  [fields |-> {"state"} \cup EventReceiverWidget, provider |-> {"relay", "motion_relay"},
   receivers |-> DeviceTypes]
ThermostatEventEditor ==
  [fields |-> {"temperature", "delta"}, provider |-> {"thermometer"}, receivers |-> {"relay"}]
SunriseSunsetEditor(provider) ==
  [fields |-> EventReceiverWidget, provider |-> provider, receivers |-> DeviceTypes]

Editor ==
  [timer_event |-> TimerEventEditor, thermometer_event |-> ThermometerEventEditor,
   relay_event |-> RelayEventEditor, thermostat_event |-> ThermostatEventEditor,
   sunrise_event |-> SunriseSunsetEditor("sunrise"), sunset_event |-> SunriseSunsetEditor("sunset")]

(* The two other fields are BaseEventEditor's.                              *)
Fields(type) == {"name", "active"} \cup Editor[type].fields
FixedProvider(type) == type \in {"timer_event", "sunrise_event", "sunset_event"}

FilteredDevices(listed, types) == {x \in listed : x.type \in types}

(* DeviceComboBox: filled, it shows its first item.                         *)
FirstDevice(options) == IF options = {} THEN Nobody ELSE (CHOOSE x \in options : TRUE).id
SetSelectedDevice(options, id) == IF \E x \in options : x.id = id THEN id ELSE Nobody
GetSelectedDevice(options, id) ==
  LET x == CHOOSE y \in options : y.id = id IN DescriptionOf([type |-> x.type, id |-> x.id])

ProviderOptions(type, listed) ==
  IF FixedProvider(type) THEN {} ELSE FilteredDevices(listed, Editor[type].provider)
ReceiverOptions(type, listed) == FilteredDevices(listed, Editor[type].receivers)

(* OnEventTypeChanged: a new editor of the type, given the devices.         *)
OnEventTypeChanged(type, listed) ==
  [type |-> type, name |-> "", active |-> FALSE,
   provider |-> FirstDevice(ProviderOptions(type, listed)),
   receiver |-> FirstDevice(ReceiverOptions(type, listed)),
   hour |-> 0, minute |-> 0, temperature |-> 0, delta |-> 0, lower |-> FALSE, state |-> FALSE,
   brightness |-> 0, on |-> FALSE]

IsValid(editor) ==
  /\ editor.name # ""
  /\ FixedProvider(editor.type) \/ editor.provider # Nobody
  /\ editor.receiver # Nobody

(* The spin box of a temperature has whole degrees.                         *)
WholeDegrees(t) == IF t < 0 THEN -2 * (-t \div 2) ELSE 2 * (t \div 2)

(* FillUi of the editors and of EventReceiverWidget.                        *)
FillUi(editor, event, listed) ==
  LET has(key) == key \in DOMAIN event \cap ({"command"} \cup Fields(event.type))
      copied == [key \in DOMAIN editor |-> IF has(key) THEN event[key] ELSE editor[key]]
  IN  [copied EXCEPT
         !.provider = SetSelectedDevice(ProviderOptions(event.type, listed), event.provider.id),
         !.receiver = SetSelectedDevice(ReceiverOptions(event.type, listed), event.receiver.id),
         !.temperature = IF has("temperature") THEN WholeDegrees(@) ELSE @,
         !.state = IF has("state") THEN @ # 0 ELSE @,
         !.brightness = IF has("command") /\ "brightness" \in DOMAIN event.command
                          THEN event.command.brightness ELSE @,
         !.on = IF has("command") /\ "state" \in DOMAIN event.command
                  THEN event.command.state # 0 ELSE @]

(* FillFromUi, on a new event of the editor's type: its command is a        *)
(* RelayState, and stays one whatever the receiver is.                     *)
FillFromUi(editor, id, listed) ==
  [key \in DOMAIN EventOfType[editor.type] |->
     CASE key = "id" -> id
       [] key = "provider" ->
            IF FixedProvider(editor.type) THEN EventProvider(Editor[editor.type].provider)
            ELSE GetSelectedDevice(ProviderOptions(editor.type, listed), editor.provider)
       [] key = "receiver" -> GetSelectedDevice(ReceiverOptions(editor.type, listed), editor.receiver)
       [] key = "command" -> [state |-> IF editor.on THEN 1 ELSE 0]
       [] key = "state" -> IF editor.state THEN 1 ELSE 0
       [] key = "type" -> editor.type
       [] key \in Fields(editor.type) \ {"state"} -> editor[key]
       [] OTHER -> EventOfType[editor.type][key]]
------------------------------------------------------------------------------
(* EventsWidget::Refresh: the devices that can receive events, the events,  *)
(* and the editor of a timer.                                              *)
EventsRefresh(evs, ok) ==
  LET listed == IF ok.devices
        THEN {DeviceOf(Json(Device, x)) : x \in {y \in devices : y.type # "universal_device"}}
        ELSE {}
  IN  [row |-> NoRow, devices |-> listed,
       events |-> IF ok.events THEN [id \in DOMAIN evs |-> EventJson(evs[id])] ELSE <<>>,
       editor |-> OnEventTypeChanged("timer_event", listed)]

(* A row is selected: its event goes to an editor of its type.              *)
OnTableSelectionChanged(page, id) ==
  LET event == EventOf(page.events[id])
  IN  [page EXCEPT !.row = id,
         !.editor = FillUi(OnEventTypeChanged(event.type, page.devices), event, page.devices)]

EventsOpen == open = "Events"
OnlyEvents == UNCHANGED <<serverVars, sessionVars, changes, scenarios, scPage>>

SelectEvent ==
  /\ EventsOpen
  /\ \E id \in DOMAIN evPage.events : evPage' = OnTableSelectionChanged(evPage, id)
  /\ OnlyEvents /\ UNCHANGED <<events, failures, requests>>

SelectEventType ==
  /\ EventsOpen
  /\ \E type \in EventTypes : evPage' = [evPage EXCEPT !.editor = OnEventTypeChanged(type, evPage.devices)]
  /\ OnlyEvents /\ UNCHANGED <<events, failures, requests>>

(* The user fills the fields that an editor of this type has (once, which   *)
(* the name tells: all that can be entered is entered in one step).        *)
EnterEvent ==
  /\ EventsOpen /\ requests < MaxRequests
  /\ LET old == evPage.editor
     IN  \E entry \in {e \in Entries : e.name # old.name},
            provider \in {x.id : x \in ProviderOptions(old.type, evPage.devices)} \cup {old.provider},
            receiver \in {x.id : x \in ReceiverOptions(old.type, evPage.devices)} \cup {old.receiver} :
           evPage' = [evPage EXCEPT !.editor =
                        [[key \in DOMAIN old |-> IF key \in DOMAIN entry \cap Fields(old.type) THEN entry[key] ELSE old[key]]
                           EXCEPT !.provider = provider, !.receiver = receiver]]
  /\ OnlyEvents /\ UNCHANGED <<events, failures, requests>>

(* Each button sends its request, then refreshes.                           *)
SendEvent(handled(_)) ==
  /\ EventsOpen
  /\ requests < MaxRequests /\ requests' = requests + 1
  /\ \E ok \in Outcomes({"request", "devices", "events"}) :
       /\ events' = IF ok.request THEN handled(events) ELSE events
       /\ evPage' = EventsRefresh(events', ok)
       /\ Uses(ok)
  /\ OnlyEvents

AddEvent ==
  \E id \in EventIds \ DOMAIN events :
    /\ EventsOpen
    /\ IsValid(evPage.editor)
    /\ SendEvent(LAMBDA evs :
         With(evs, id, EventOf(EventJson(FillFromUi(evPage.editor, id, evPage.devices)))))

(* PUT of the id that was listed: refused when it is gone.                  *)
UpdateEvent ==
  LET id == evPage.row IN
  /\ id # NoRow
  /\ IsValid(evPage.editor)
  /\ SendEvent(LAMBDA evs :
       IF id \in DOMAIN evs
         THEN [evs EXCEPT ![id] = EventOf(EventJson(FillFromUi(evPage.editor, id, evPage.devices)))]
         ELSE evs)

DeleteEvent ==
  /\ evPage.row # NoRow
  /\ SendEvent(LAMBDA evs : Without(evs, evPage.row))

RefreshEvents ==
  /\ EventsOpen
  /\ \E ok \in Outcomes({"devices", "events"}) : evPage' = EventsRefresh(events, ok) /\ Uses(ok)
  /\ OnlyEvents /\ UNCHANGED <<events, requests>>
------------------------------------------------------------------------------
(***************************************************************************)
(* ScenariosWidget: the scenarios and the events as they were listed, the  *)
(* selected one, the name, and the events whose boxes are checked on       *)
(* either side.                                                            *)
(***************************************************************************)
ScenariosRefresh(scens, ok) ==
  [row |-> NoRow, scenarios |-> IF ok.scenarios THEN scens ELSE <<>>,
   events |-> IF ok.events THEN DOMAIN events ELSE {},
   name |-> "", activate |-> {}, deactivate |-> {}]

ScenariosOpen == open = "Scenarios"
OnlyScenarios == UNCHANGED <<serverVars, sessionVars, changes, events, evPage>>

OnSelection ==
  /\ ScenariosOpen
  /\ \E id \in DOMAIN scPage.scenarios :
       LET scenario == scPage.scenarios[id]
       IN  scPage' = [scPage EXCEPT !.row = id, !.name = scenario.name,
                        !.activate = scenario.activate \cap scPage.events,
                        !.deactivate = scenario.deactivate \cap scPage.events]
  /\ OnlyScenarios /\ UNCHANGED <<scenarios, failures, requests>>

EnterScenario ==
  /\ ScenariosOpen /\ requests < MaxRequests
  /\ \E name \in Names, on, off \in SUBSET scPage.events :
       scPage' = [scPage EXCEPT !.name = name, !.activate = on, !.deactivate = off]
  /\ OnlyScenarios /\ UNCHANGED <<scenarios, failures, requests>>

IsUiValid ==
  /\ scPage.name # ""
  /\ scPage.activate \cup scPage.deactivate # {}
  /\ scPage.activate \cap scPage.deactivate = {}

(* The service drops the events it does not have, and adds what has a new   *)
(* id: the update of a scenario that is still there is refused.            *)
ScenarioFromUi(id) ==
  [id |-> id, name |-> scPage.name,
   activate |-> scPage.activate \cap DOMAIN events, deactivate |-> scPage.deactivate \cap DOMAIN events]

SendScenario(handled(_)) ==
  /\ ScenariosOpen
  /\ requests < MaxRequests /\ requests' = requests + 1
  /\ \E ok \in Outcomes({"request", "scenarios", "events"}) :
       /\ scenarios' = IF ok.request THEN handled(scenarios) ELSE scenarios
       /\ scPage' = ScenariosRefresh(scenarios', ok)
       /\ Uses(ok)
  /\ OnlyScenarios

AddScenario ==
  \E id \in ScenarioIds \ DOMAIN scenarios :
    /\ ScenariosOpen
    /\ IsUiValid
    /\ SendScenario(LAMBDA scens : scens @@ (id :> ScenarioFromUi(id)))

UpdateScenario ==
  /\ scPage.row # NoRow
  /\ IsUiValid
  /\ SendScenario(LAMBDA scens : scens @@ (scPage.row :> ScenarioFromUi(scPage.row)))

DeleteScenario ==
  /\ scPage.row # NoRow
  /\ SendScenario(LAMBDA scens : Without(scens, scPage.row))

RefreshScenarios ==
  /\ ScenariosOpen
  /\ \E ok \in Outcomes({"scenarios", "events"}) : scPage' = ScenariosRefresh(scenarios, ok) /\ Uses(ok)
  /\ OnlyScenarios /\ UNCHANGED <<scenarios, requests>>

(* ScenarioButton::Refresh: a green border while every event of the         *)
(* scenario is as the scenario sets it.                                    *)
ScenarioButton(scenario, evs) ==
  LET set(ids, activity) == \A id \in ids : id \in DOMAIN evs /\ evs[id].active = activity
  IN  [id |-> scenario.id, scenario |-> scenario,
       border |-> IF set(scenario.activate, TRUE) /\ set(scenario.deactivate, FALSE) THEN "green" ELSE "gray"]

(* PATCH of a scenario: what activating it makes of the events.             *)
Activated(id, evs) ==
  IF id \notin DOMAIN scenarios THEN evs
  ELSE [e \in DOMAIN evs |->
          IF e \in scenarios[id].deactivate THEN [evs[e] EXCEPT !.active = FALSE]
          ELSE IF e \in scenarios[id].activate THEN [evs[e] EXCEPT !.active = TRUE] ELSE evs[e]]
==============================================================================
