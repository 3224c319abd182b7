------------------------------- MODULE Frontend -------------------------------
(***************************************************************************)
(* A session of the frontend: Application with its stack of pages,         *)
(* LoginWidget, DevicesWidget, and what EditorPages and DevicePages have.  *)
(*                                                                         *)
(* The pages of the devices live as long as the session.  The other pages  *)
(* are rebuilt when they are opened, so they are forgotten when they are   *)
(* left.                                                                   *)
(***************************************************************************)
EXTENDS EditorPages

CONSTANTS
  Accounts,       \* the accounts as the settings file has them
  Parts,          \* the names between the slashes of each group
  InitialRows, InitialEvents, InitialScenarios,
  Visits          \* bound: the sets of pages that a session opens

VARIABLES
  cookie,   \* the browser's authorization: a login and a password
  visit     \* the pages this session opens

vars == <<deviceVars, editorVars, cookie, visit>>

(* The rows are those of the devices: a row that is misread has no id of    *)
(* one, and no type (FromDbStrings).                                       *)
ASSUME RowsAssumption == \A row \in InitialRows : DeviceOfRow(row).id \in Devices

Unchanged == UNCHANGED <<cookie, visit>>
SeesDevices == open = "Devices"

(* AccountManager::IsValidUser.                                             *)
IsValidUser(login, password) ==
  \E json \in Accounts :
    LET a == AccountOf(json) IN a.type # "undefined" /\ a.login = login /\ a.password = password
------------------------------------------------------------------------------
(***************************************************************************)
(* DevicesWidget::Refresh: nothing when no device is listed, otherwise the *)
(* buttons of the scenarios, a box for each group and each of its parents, *)
(* and the buttons of the devices.  A device whose group has no name in it *)
(* ("/") is in no box and has no button.                                   *)
(***************************************************************************)
Boxes(listed) == UNION {{SubSeq(Parts[x.grp], 1, n) : n \in 1..Len(Parts[x.grp])} : x \in listed}
HasButton(device) == device.grp = "" \/ Parts[device.grp] # <<>>

Refreshed(evs, listed, ok) ==
  IF ~ok.devices \/ listed = {} THEN NoButtons
  ELSE [scenarios |-> IF ok.scenarios
          THEN {ScenarioButton(scenarios[id], IF ok.buttons THEN evs ELSE <<>>) : id \in DOMAIN scenarios}
          ELSE {},
        boxes |-> Boxes(listed),
        devices |-> {DeviceButton(DeviceOf(Json(Device, x)), "none", ok.buttons)
                       : x \in {y \in listed : HasButton(y)}}]

DevicesRequests == Outcomes({"scenarios", "devices", "buttons"})

(* SetWidget(Devices): the page is initialized, and shown.                  *)
ShowDevices ==
  /\ open' = "Devices"
  /\ \E ok \in DevicesRequests : buttons' = Refreshed(events, devices, ok) /\ Uses(ok)

RefreshDevices ==
  /\ SeesDevices
  /\ \E ok \in DevicesRequests : buttons' = Refreshed(events, devices, ok) /\ Uses(ok)
  /\ UNCHANGED <<serverVars, open, pages, dialog, changes, editorVars>> /\ Unchanged

(* The timers of the buttons.                                               *)
DeviceButtonTimer ==
  /\ SeesDevices
  /\ \E b \in buttons.devices, ok \in Outcomes({"values"}) :
       /\ buttons' = [buttons EXCEPT !.devices = (@ \ {b}) \cup
                        {DeviceButton([id |-> b.id, type |-> TypeOf[b.id]], b.border, ok.values)}]
       /\ Uses(ok)
  /\ UNCHANGED <<serverVars, open, pages, dialog, changes, editorVars>> /\ Unchanged

ScenarioButtonTimer ==
  /\ SeesDevices
  /\ \E b \in buttons.scenarios, ok \in Outcomes({"events"}) :
       /\ buttons' = [buttons EXCEPT !.scenarios = (@ \ {b}) \cup
                        {ScenarioButton(b.scenario, IF ok.events THEN events ELSE <<>>)}]
       /\ Uses(ok)
  /\ UNCHANGED <<serverVars, open, pages, dialog, changes, editorVars>> /\ Unchanged

PressScenario ==
  /\ SeesDevices
  /\ \E b \in buttons.scenarios, ok \in Outcomes({"request", "events"}) :
       /\ events' = IF ok.request THEN Activated(b.id, events) ELSE events
       /\ buttons' = [buttons EXCEPT !.scenarios = (@ \ {b}) \cup
                        {ScenarioButton(b.scenario, IF ok.events THEN events' ELSE <<>>)}]
       /\ Uses(ok)
  /\ UNCHANGED <<serverVars, open, pages, dialog, changes, scenarios, evPage, scPage, requests>> /\ Unchanged

(* The menu of a device's button.                                           *)
DeleteDevice ==
  /\ SeesDevices
  /\ changes < MaxChanges /\ changes' = changes + 1
  /\ \E b \in buttons.devices, ok \in Outcomes({"request", "scenarios", "devices", "buttons"}) :
       LET deleted == ok.request /\ Listed(b.id)
       IN  /\ b.id \in Touched
           /\ devices' = IF deleted THEN {x \in devices : x.id # b.id} ELSE devices
           /\ buttons' = IF deleted THEN Refreshed(events, devices', ok) ELSE buttons
           /\ Uses(ok)
  /\ UNCHANGED <<reports, command, settings, now, open, pages, dialog, editorVars>> /\ Unchanged
------------------------------------------------------------------------------
(* Application::SetWidget from the page of the devices, and back.           *)
OpenDevice ==
  /\ SeesDevices
  /\ \E b \in buttons.devices :
       /\ TypeOf[b.id] \in visit
       /\ Fill(TypeOf[b.id], b.id, pages[TypeOf[b.id]], TypeOf[b.id])
  /\ UNCHANGED <<serverVars, changes, editorVars>> /\ Unchanged

(* The page's id is emptied after the page of the devices is shown.         *)
BackFromDevice(type) ==
  /\ open = type /\ dialog = NoDialog
  /\ ShowDevices
  /\ pages' = [pages EXCEPT ![type] = [OnBack(type, @) EXCEPT !.device = Nobody]]
  /\ UNCHANGED <<serverVars, dialog, changes, editorVars>> /\ Unchanged

OpenEvents ==
  /\ SeesDevices /\ "Events" \in visit
  /\ open' = "Events" /\ buttons' = NoButtons
  /\ \E ok \in Outcomes({"devices", "events"}) : evPage' = EventsRefresh(events, ok) /\ Uses(ok)
  /\ UNCHANGED <<serverVars, pages, dialog, changes, events, scenarios, scPage, requests>> /\ Unchanged

OpenScenarios ==
  /\ SeesDevices /\ "Scenarios" \in visit
  /\ open' = "Scenarios" /\ buttons' = NoButtons
  /\ \E ok \in Outcomes({"scenarios", "events"}) : scPage' = ScenariosRefresh(scenarios, ok) /\ Uses(ok)
  /\ UNCHANGED <<serverVars, pages, dialog, changes, events, scenarios, evPage, requests>> /\ Unchanged

BackFromEditor ==
  /\ open \in {"Events", "Scenarios"}
  /\ ShowDevices
  /\ evPage' = ClosedPage /\ scPage' = ClosedPage
  /\ UNCHANGED <<serverVars, pages, dialog, changes, events, scenarios, requests>> /\ Unchanged
------------------------------------------------------------------------------
(* LoginWidget: a valid login is remembered by the browser.                 *)
Login ==
  /\ open = "Login"
  /\ \E a \in Accounts :
       /\ IsValidUser(a.login, a.password)
       /\ cookie' = [login |-> a.login, password |-> a.password]
  /\ ShowDevices
  /\ UNCHANGED <<serverVars, pages, dialog, changes, editorVars, visit>>

(* The button of the page of the devices.                                   *)
Exit ==
  /\ SeesDevices
  /\ cookie' = Unset
  /\ open' = "Login" /\ buttons' = NoButtons
  /\ UNCHANGED <<serverVars, pages, dialog, failures, changes, editorVars, visit>>

(* The browser loads the page again: a new Application, with the cookie.    *)
Reload ==
  /\ pages' = [type \in DeviceTypes |-> NewPage]
  /\ dialog' = NoDialog
  /\ evPage' = ClosedPage /\ scPage' = ClosedPage
  /\ IF cookie # Unset /\ IsValidUser(cookie.login, cookie.password)
       THEN ShowDevices
       ELSE open' = "Login" /\ buttons' = NoButtons /\ UNCHANGED failures
  /\ UNCHANGED <<serverVars, changes, events, scenarios, requests>> /\ Unchanged
------------------------------------------------------------------------------
Init ==
  /\ devices = {DeviceOfRow(row) : row \in InitialRows}
  /\ reports = [d \in Devices |-> <<>>]
  /\ command = <<>> /\ settings = <<>>
  /\ now = 0
  /\ open = "Login"
  /\ pages = [type \in DeviceTypes |-> NewPage]
  /\ dialog = NoDialog /\ buttons = NoButtons
  /\ failures = 0 /\ changes = 0
  /\ events = InitialEvents /\ scenarios = InitialScenarios
  /\ evPage = ClosedPage /\ scPage = ClosedPage
  /\ requests = 0
  /\ cookie = Unset
  /\ visit \in Visits

(* While a dialog of settings is open, its page's other buttons are covered.*)
DeviceSteps ==
  \E type \in DeviceTypes \cap visit :
    \/ RefreshTimer(type)
    \/ SelectSeconds(type)
    \/ OnStateButton(type)
    \/ OnSettingsButton(type)
    \/ AcceptSettings(type)
    \/ BackFromDevice(type)

ServerSteps ==
  \/ \E d \in Devices : TypeOf[d] \in visit /\ Report(d)
  \/ visit \cap DeviceTypes # {} /\ Tick
  \/ \E d \in Touched : {TypeOf[d], "Events"} \cap visit # {} /\ OtherClient(d)

(* Another client deletes an event or a scenario.                           *)
OtherClientsEvent ==
  /\ changes < MaxChanges /\ changes' = changes + 1
  /\ \/ \E id \in DOMAIN events : events' = Without(events, id) /\ UNCHANGED scenarios
     \/ \E id \in DOMAIN scenarios : scenarios' = Without(scenarios, id) /\ UNCHANGED events
  /\ UNCHANGED <<serverVars, sessionVars, failures, evPage, scPage, requests>> /\ Unchanged

EditorSteps ==
  \/ SelectEvent \/ SelectEventType \/ EnterEvent
  \/ AddEvent \/ UpdateEvent \/ DeleteEvent \/ RefreshEvents
  \/ OnSelection \/ EnterScenario
  \/ AddScenario \/ UpdateScenario \/ DeleteScenario \/ RefreshScenarios

Next ==
  \/ (DeviceSteps \/ RejectSettings \/ ServerSteps) /\ UNCHANGED <<editorVars, cookie, visit>>
  \/ EditorSteps /\ UNCHANGED <<cookie, visit>>
  \/ OtherClientsEvent
  \/ RefreshDevices \/ DeviceButtonTimer \/ ScenarioButtonTimer \/ PressScenario \/ DeleteDevice
  \/ OpenDevice \/ OpenEvents \/ OpenScenarios \/ BackFromEditor
  \/ Login \/ Exit \/ Reload

Spec == Init /\ [][Next]_vars
------------------------------------------------------------------------------
(***************************************************************************)
(* The page of a device shows values that this device reported, and, when  *)
(* its last requests were answered, the newest one of that time at the     *)
(* front: never the values that the page had for another device of the     *)
(* type, however devices are opened, left and opened again under its       *)
(* timer (the four Initialize() with _cachedValues and OnBack()).          *)
(***************************************************************************)
PageShowsItsDevice ==
  open \in DeviceTypes =>
    LET page == pages[open] IN
    /\ TypeOf[page.device] = open
    /\ Range(page.shown) \subseteq Range(reports[page.device])
    /\ page.asked # Unset => page.shown # <<>> /\ page.shown[1].timestamp = page.asked

(***************************************************************************)
(* Pressing the button of a relay sends what the button says, whatever     *)
(* came between the last refresh and the press (OnStateButton of the two   *)
(* relay pages).  When no value is shown the button says "on" but the      *)
(* state is the one the page had before: that case is left out.            *)
(***************************************************************************)
CommandMatchesLabel ==
  [][\A type \in {"relay", "motion_relay"} :
       LET page == pages[type] IN
       open = type /\ page.shown # <<>> /\ page.enabled /\ ~pages'[type].enabled /\ command' # command
         => command'[page.device].state = (IF page.label = "on" THEN 1 ELSE 0)]_vars

(* An event that was stored: shown by a new editor of its type, it is what  *)
(* the user entered.                                                       *)
AppliedIsShown(id) ==
  \A blank \in {OnEventTypeChanged(evPage.editor.type, evPage.devices)},
     event \in {EventOf(EventJson(events'[id]))} :
  \A again \in {FillUi(blank, event, evPage.devices)} :
  \A key \in DOMAIN blank \cap (DOMAIN EventOfType[blank.type] \cup {"on"}) :
    again[key] = evPage.editor[key] \/ (key = "provider" /\ FixedProvider(blank.type))

(* An event that was selected: applied unchanged, it is what it was.        *)
SelectedIsKept ==
  LET event == EventOf(evPage'.events[evPage'.row])
      editor == evPage'.editor
  IN  /\ editor.receiver # Nobody
      /\ FixedProvider(editor.type) \/ editor.provider # Nobody
      /\ "temperature" \in DOMAIN event => event.temperature % 2 = 0
      /\ "command" \in DOMAIN event => "state" \in DOMAIN event.command
      => FillFromUi(editor, evPage'.row, evPage'.devices) = event

(***************************************************************************)
(* The editors of EventsWidget lose nothing but what is named here.  An    *)
(* event that the session adds or changes is, once written as JSON, read   *)
(* by the service and shown by an editor again, what was entered; and      *)
(* applying an event that was just selected changes nothing.  Left out: a  *)
(* receiver that is a thermometer, whose brightness is never stored;       *)
(* devices that are not listed; temperatures with a fraction; a command of *)
(* the other kind.                                                         *)
(* A scenario that is added has the events checked, as far as they exist.  *)
(***************************************************************************)
EditorsLoseNothing ==
  [][/\ requests' # requests =>
          \A id \in DOMAIN events' : id \notin DOMAIN events \/ events'[id] # events[id] => AppliedIsShown(id)
     /\ evPage'.row # evPage.row /\ evPage'.row # NoRow => SelectedIsKept
     /\ requests' # requests =>
          \A id \in DOMAIN scenarios' \ DOMAIN scenarios :
            /\ scenarios'[id].activate = scPage.activate \cap DOMAIN events
            /\ scenarios'[id].deactivate = scPage.deactivate \cap DOMAIN events]_vars
==============================================================================
