----------------------------- MODULE DevicePages ------------------------------
(***************************************************************************)
(* The pages of the devices in a session of the frontend (stackWidgets/):  *)
(* BaseDeviceWidget, the four pages derived from it, the dialog of their   *)
(* settings, and the buttons of DevicesWidget.                             *)
(*                                                                         *)
(* There is one page for each type of device.  It is made with the session *)
(* and stays: opening a device only fills it, and its timer fills it again *)
(* every five seconds whether it is seen or not.  A handler of the session *)
(* runs under the session's lock; its requests are one step here, except   *)
(* that a dialog returns to the event loop, so timers and other clients    *)
(* come between its opening and its end.                                   *)
(***************************************************************************)
EXTENDS Marshaling

CONSTANTS
  TypeOf,       \* the devices and their types
  Readings,     \* for each type what such a device reports
  Names,        \* names and groups users give
  Seconds,      \* the items of SecondsComboBox, and
  DefaultSeconds,  \* the one it begins with
  FiveMinutes,
  MaxReports,   \* bound: the reports of all devices
  MaxTime,      \* bound: seconds
  MaxFailures,  \* bound: requests that fail
  Touched,      \* bound: the devices that are deleted, and changed by other clients
  Dialogs,      \* bound: the types whose dialog of settings is opened
  MaxChanges     \* bound: changes by other clients, accepted dialogs, commands

Devices == DOMAIN TypeOf
Nobody == "00000000-0000-0000-0000-000000000000"

ASSUME PagesAssumption ==
  /\ \A d \in Devices : TypeOf[d] \in DeviceTypes
  /\ Nobody \notin Devices
  /\ Seconds \subseteq Nat /\ DefaultSeconds \in Nat
  /\ \A json \in Readings["motion_relay"] : "value" \notin DOMAIN json   \* the firmware's key is "state"

VARIABLES
  devices,   \* the server: the devices it lists
  reports,   \* the values of each device, newest first
  command,   \* the last command of each device
  settings,  \* the settings of each device that has any
  now,       \* the second
  open,      \* the page the user sees
  pages,     \* the page of each type
  dialog,    \* the open dialog of settings, if any
  buttons,   \* DevicesWidget: the buttons and what they show
  failures, changes   \* how much of the bounds is used

serverVars == <<devices, reports, command, settings, now>>
sessionVars == <<open, pages, dialog, buttons>>
deviceVars == <<serverVars, sessionVars, failures, changes>>

NoDialog == [page |-> Nobody]
NoButtons == [scenarios |-> {}, boxes |-> {}, devices |-> {}]
(* The function that a POST or an INSERT for one id leaves.                 *)
With(f, x, value) == [y \in DOMAIN f \cup {x} |-> IF y = x THEN value ELSE f[y]]
Listed(d) == \E x \in devices : x.id = d
DeviceWithId(d) == CHOOSE x \in devices : x.id = d

(* Which of the requests of a handler are answered: the others give null,   *)
(* or a status that is not 200.                                            *)
Outcomes(requests) ==
  {ok \in [requests -> BOOLEAN] : Cardinality({r \in requests : ~ok[r]}) <= MaxFailures - failures}
Uses(ok) == failures' = failures + Cardinality({r \in DOMAIN ok : ~ok[r]})

(* A value on its way from a device to the server, or from there to a page. *)
ValueOf(type, json) ==
  CASE type = "thermometer" -> Object(ThermometerValue, json)
    [] type = "relay" -> Object(RelayValue, json)
    [] type = "motion_relay" -> MotionRelayValueOf(json)
    [] type = "universal_device" -> UniversalValueOf(json)
ValueType(type) ==
  CASE type = "thermometer" -> ThermometerValue [] type = "relay" -> RelayValue
    [] type = "motion_relay" -> MotionRelayValue [] type = "universal_device" -> UniversalValue

CreateClientMessage(data) ==
  [header |-> [id |-> NewId, description |-> ClientProvider, subject |-> "get_device_information"],
   data |-> data]

(***************************************************************************)
(* DevicesService::GetDeviceInfo: the values of the last seconds, which    *)
(* come first, or the newest one.                                          *)
(***************************************************************************)
GetDeviceInfo(json) ==
  LET message == MessageOf(json)
      info == Object(Information, message.data)
      all == reports[info.id]
      recent == Restrict(all, {i \in DOMAIN all : all[i].timestamp > now - info.seconds})
  IN  IF message.header.subject # "get_device_information" \/ info.type # TypeOf[info.id] \/ all = <<>>
        THEN <<>>
      ELSE IF recent = <<>> THEN <<all[1]>> ELSE recent

(* BaseDeviceWidget::GetValues.                                             *)
GetValues(type, d, seconds, ok) ==
  LET request == Json(Information, [type |-> type, id |-> d, seconds |-> seconds])
      reply == GetDeviceInfo(Json(Message, CreateClientMessage(request)))
  IN  IF ok THEN [i \in DOMAIN reply |-> ValueOf(type, Json(ValueType(type), reply[i]))] ELSE <<>>

GetDeviceProperty(d, key, ok) ==
  IF ok /\ Listed(d) THEN Object(DeviceProperty, [value |-> DeviceWithId(d)[key]]).value ELSE ""
------------------------------------------------------------------------------
(***************************************************************************)
(* What the four pages have: a chart of the values of some seconds, a      *)
(* button for the state, and the objects their dialog of settings edits.   *)
(***************************************************************************)
ThermometerWidget == [chart |-> TRUE, button |-> FALSE, settings |-> PeriodSettings, brightness |-> TRUE]
RelayWidget == [chart |-> TRUE, button |-> TRUE, settings |-> PeriodSettings, brightness |-> FALSE]
MotionRelayWidget == [chart |-> FALSE, button |-> TRUE, settings |-> MotionRelaySettings, brightness |-> FALSE]
UniversalDeviceWidget == [chart |-> TRUE, button |-> FALSE, settings |-> PeriodSettings, brightness |-> FALSE]
Page ==
  [thermometer |-> ThermometerWidget, relay |-> RelayWidget, motion_relay |-> MotionRelayWidget,
   universal_device |-> UniversalDeviceWidget]

(***************************************************************************)
(* What a page keeps: its device, the title, the window of its values, the *)
(* values themselves (_cachedValues), what is drawn of them, for a relay   *)
(* the state and the button that offers to change it, and for a universal  *)
(* device the names it knows (_knownParameters) and those that have a      *)
(* chart (_models).  asked is history: the time of the newest value when   *)
(* the page was last filled without a failure.                             *)
(***************************************************************************)
NewPage ==
  [device |-> Nobody, name |-> "", grp |-> "", seconds |-> DefaultSeconds, cached |-> <<>>,
   shown |-> <<>>, state |-> 0, label |-> "on", enabled |-> TRUE, parameters |-> {},
   models |-> {}, asked |-> Unset]

Newest(values) == Max({values[i].timestamp : i \in DOMAIN values})

(* The three pages with a chart ask for their values only when the newest   *)
(* one is not the newest they have.                                        *)
CachedValues(type, d, page, ok) ==
  LET last == GetValues(type, d, 0, ok.newest)
  IN  IF page.cached = <<>> \/ last = <<>> \/ last[1].timestamp # Newest(page.cached)
        THEN GetValues(type, d, page.seconds, ok.values)
        ELSE page.cached

ClearData(page) == [page EXCEPT !.shown = <<>>, !.label = "on", !.parameters = {}, !.models = {}]

(* The parameters that all values have; once there is none, the next value  *)
(* begins anew.                                                            *)
findParameters(values) ==
  FoldLeft(LAMBDA known, v : IF known = {} THEN DOMAIN v.values ELSE known \cap DOMAIN v.values, {}, values)

ThermometerShows(page, values) == [page EXCEPT !.shown = values]

(* New names have new charts, for those that are no text in the newest value.*)
UniversalDeviceShows(page, values) ==
  LET known == findParameters(values)
      newest == values[1].values
      drawn == {p \in known \cap DOMAIN newest : newest[p].type # "string"}
  IN  [page EXCEPT !.shown = values, !.parameters = known,
                   !.models = IF known = page.parameters THEN @ ELSE drawn]

(* Mutant: the button goes by the oldest value.                             *)
RelayShowsOldest(page, values) ==
  [page EXCEPT !.shown = values, !.state = Last(values).state,
               !.label = IF values[1].state # 0 THEN "off" ELSE "on"]

RelayShows(page, values) ==
  [page EXCEPT !.shown = values, !.state = values[1].state,
               !.label = IF values[1].state # 0 THEN "off" ELSE "on"]

MotionRelayShows(page, values) == RelayShows(page, <<values[1]>>)

Shows(type, page, values) ==
  IF values = <<>> THEN ClearData(page)
  ELSE CASE type = "thermometer" -> ThermometerShows(page, values)
         [] type = "relay" -> RelayShows(page, values)
         [] type = "motion_relay" -> MotionRelayShows(page, values)
         [] type = "universal_device" -> UniversalDeviceShows(page, values)

(* BaseDeviceWidget::Initialize, for the device with id d or for none.      *)
Initialized(type, d, page, ok) ==
  IF d = Nobody THEN ClearData([page EXCEPT !.device = d, !.name = "", !.grp = ""])
  ELSE LET values ==
             IF Page[type].chart THEN CachedValues(type, d, page, ok) ELSE GetValues(type, d, 0, ok.newest)
           titled == [page EXCEPT !.device = d,
                        !.name = GetDeviceProperty(d, "name", ok.name),
                        !.grp = GetDeviceProperty(d, "grp", ok.grp),
                        !.enabled = TRUE,
                        !.cached = IF Page[type].chart THEN values ELSE <<>>,
                        !.asked = IF reports[d] # <<>> /\ ok.newest /\ ok.values
                                    THEN reports[d][1].timestamp ELSE Unset]
       IN  Shows(type, titled, values)

(* at() throws: for a new name when the newest value lacks it, and in a     *)
(* chart that is drawn when one of the values lacks its name.               *)
NewestLacks(page, filled) ==
  filled.parameters # page.parameters /\ \E p \in filled.parameters : p \notin DOMAIN filled.shown[1].values
ChartLacks(filled) ==
  \E p \in filled.models, i \in DOMAIN filled.shown : p \notin DOMAIN filled.shown[i].values

(* Nobody catches it: the session is over until the browser loads the page  *)
(* again.                                                                  *)
SessionEnds ==
  /\ open' = "Ended"
  /\ pages' = [type \in DeviceTypes |-> NewPage]
  /\ dialog' = NoDialog /\ buttons' = NoButtons

(* A page is filled and the page next is seen.  A chart is drawn only in    *)
(* the tab that is open.                                                   *)
Fill(type, d, page, next) ==
  \E ok \in Outcomes({"name", "grp", "newest", "values"}) :
    LET filled == Initialized(type, d, page, ok) IN
    /\ Uses(ok)
    /\ \/ /\ ~NewestLacks(page, filled)
          /\ pages' = [pages EXCEPT ![type] = filled]
          /\ open' = next
          /\ buttons' = IF next = open THEN buttons ELSE NoButtons
          /\ UNCHANGED dialog
       \/ /\ NewestLacks(page, filled) \/ ChartLacks(filled)
          /\ SessionEnds

(* The timer, and the button that does the same.                            *)
RefreshTimer(type) ==
  /\ open # "Ended"
  /\ Fill(type, pages[type].device, pages[type], open)
  /\ UNCHANGED <<serverVars, changes>>

SelectSeconds(type) ==
  /\ open = type /\ dialog = NoDialog
  /\ Page[type].chart
  /\ \E s \in Seconds :
       Fill(type, pages[type].device, [pages[type] EXCEPT !.seconds = s, !.cached = <<>>], open)
  /\ UNCHANGED <<serverVars, changes>>

(* Mutant: the next device finds the values of this one.                    *)
OnBackKeepsValues(type, page) == [page EXCEPT !.seconds = DefaultSeconds]

(* OnBack of the pages with values; the motion relay has nothing to forget. *)
OnBack(type, page) ==
  CASE type = "motion_relay" -> page
    [] type = "universal_device" -> ClearData([page EXCEPT !.seconds = DefaultSeconds, !.cached = <<>>])
    [] OTHER -> [page EXCEPT !.seconds = DefaultSeconds, !.cached = <<>>]

(* The button of the state: the opposite of the state the page has.         *)
OnStateButton(type) ==
  /\ open = type /\ dialog = NoDialog
  /\ Page[type].button
  /\ pages[type].enabled
  /\ changes < MaxChanges /\ changes' = changes + 1
  /\ \E ok \in Outcomes({"command"}) :
       /\ command' = IF ok.command
            THEN With(command, pages[type].device, CommandOf([state |-> IF pages[type].state # 0 THEN 0 ELSE 1]))
            ELSE command
       /\ Uses(ok)
  /\ pages' = [pages EXCEPT ![type].enabled = FALSE]
  /\ UNCHANGED <<devices, reports, settings, now, open, dialog, buttons>>
------------------------------------------------------------------------------
GetSettings(type, d, ok) ==
  IF ok /\ d \in DOMAIN settings THEN Object(Page[type].settings, settings[d]) ELSE Page[type].settings

GetBrightness(d, ok) == IF ok /\ d \in DOMAIN command THEN Object(Brightness, command[d]) ELSE Brightness

(* Seconds and minutes are edited, thousands of milliseconds stored.        *)
Edited(s) == [key \in DOMAIN s |-> IF key = "period" THEN (s[key] \div 1000) * 1000 ELSE (s[key] \div 60000) * 60000]

(* OnSettingsButton up to the dialog's own event loop.                      *)
OnSettingsButton(type) ==
  /\ type \in Dialogs
  /\ open = type /\ dialog = NoDialog
  /\ \E ok \in Outcomes({"settings", "command"}) :
       /\ dialog' = [page |-> type, name |-> pages[type].name, grp |-> pages[type].grp,
                     settings |-> Edited(GetSettings(type, pages[type].device, ok.settings)),
                     command |-> IF Page[type].brightness
                                   THEN GetBrightness(pages[type].device, ok.command) ELSE Unset]
       /\ Uses(ok)
  /\ UNCHANGED <<serverVars, open, pages, buttons, changes>>

(* What POST of the property named key leaves in the list of the devices.   *)
WithProperty(listed, d, key, value) == {IF x.id = d THEN [x EXCEPT ![key] = value] ELSE x : x \in listed}

(* Accepted: what the dialog does not edit is written back too.              *)
Accepted(type, name, grp, ok) ==
  LET d == pages[type].device
      named == ok.name /\ Listed(d)
      grouped == ok.grp /\ Listed(d)
      renamed == IF named THEN WithProperty(devices, d, "name", name) ELSE devices
  IN  /\ devices' = IF grouped THEN WithProperty(renamed, d, "grp", grp) ELSE renamed
      /\ pages' = [pages EXCEPT ![type].name = IF named THEN name ELSE @,
                                ![type].grp = IF grouped THEN grp ELSE @]
      /\ settings' = IF ok.settings
           THEN With(settings, d, SettingsOf(Json(Page[type].settings, dialog.settings), dialog.settings))
           ELSE settings
      /\ command' = IF Page[type].brightness /\ ok.command
           THEN With(command, d, CommandOf(Json(Brightness, dialog.command)))
           ELSE command
      /\ Uses(ok)

(* The dialog ends with OK, as it was or with another name or group.        *)
AcceptSettings(type) ==
  /\ dialog.page = type
  /\ changes < MaxChanges /\ changes' = changes + 1
  /\ \E name \in (Names \cup {dialog.name}) \ {""}, grp \in {"", dialog.grp},
        ok \in Outcomes({"name", "grp", "settings", "command"}) : Accepted(type, name, grp, ok)
  /\ dialog' = NoDialog
  /\ UNCHANGED <<reports, now, open, buttons>>

RejectSettings ==
  /\ dialog # NoDialog
  /\ dialog' = NoDialog
  /\ UNCHANGED <<serverVars, open, pages, buttons, failures, changes>>
------------------------------------------------------------------------------
(* DeviceButton::Refresh: the newest value, and a red border for a device   *)
(* not heard of for five minutes.  Without an answer, or when there is no   *)
(* value (answered by null), the border stays as it is.                    *)
DeviceButton(device, border, ok) ==
  LET values == GetValues(device.type, device.id, 0, ok)
  IN  [id |-> device.id,
       value |-> IF values = <<>> THEN Unset ELSE values[1],
       border |-> IF values = <<>> THEN border
                  ELSE IF now - values[1].timestamp > FiveMinutes THEN "red" ELSE "gray"]
------------------------------------------------------------------------------
(* The devices report, time passes, other clients rename and delete.        *)
Report(d) ==
  /\ Listed(d)
  /\ FoldSet(LAMBDA x, n : n + Len(reports[x]), 0, Devices) < MaxReports
  /\ \E json \in Readings[TypeOf[d]] :
       reports' = [reports EXCEPT ![d] = <<[ValueOf(TypeOf[d], json) EXCEPT !.timestamp = now]>> \o @]
  /\ UNCHANGED <<devices, command, settings, now, sessionVars, failures, changes>>

Tick ==
  /\ now < MaxTime
  /\ now' = now + 1
  /\ UNCHANGED <<devices, reports, command, settings, sessionVars, failures, changes>>

OtherClient(d) ==
  /\ changes < MaxChanges /\ changes' = changes + 1
  /\ \/ devices' = {x \in devices : x.id # d}
     \/ \E name \in Names : devices' = WithProperty(devices, d, "name", name)
  /\ UNCHANGED <<reports, command, settings, now, sessionVars, failures>>
==============================================================================
