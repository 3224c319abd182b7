# UniversalDevice: a verification project

UniversalDevice is a home-automation system. ESP8266 devices (thermometer, relay,
motion relay, thermostat, universal) keep a web-socket to a C++ server, report values and
obey commands; people use a web front end, which talks to the same server over HTTPS. The
server stores everything in one SQLite file, reacts to values and to the clock with
*events* ("when the thermometer is above 25, switch the relay off") and switches groups
of events on and off with *scenarios*.

This directory holds TLA+ modules translated from the source, TLC configurations that
check them on small instances, and TLAPS proofs of results that hold for every instance.
In what follows `SL` stands for `src/src/UniversalDeviceServiceLib`, `UL` for
`src/src/UniversalDeviceLib`, and `INO` for
`src/Devices/UniversalDevice/UniversalDevice.ino`.

`PROJECT.json` maps every definition to the lines it translates, and lists the runs, a
mutant for every checked property, the hazards each property is aimed at, the findings and
the theorems.

## 1. The system

### Components

| component | code | state | operations |
|---|---|---|---|
| Storage | `SL/database/Storage.cpp` | one SQLite connection, its open transaction, a mutex held over a statement | Begin, Commit, Execute, Select, Delete, CleanupOldData; reopening on `SQLITE_CANTOPEN` |
| Events | `SL/controllers/EventsController.cpp`, `SL/services/EventsService.cpp` | table Events, a vector caching it, a mutex | List, GetById, GetByProvider, Add, Update, SetActivity, Delete |
| Scenarios | `SL/controllers/ScenariosController.cpp`, `SL/services/ScenariosService.cpp` | table Scenarios, a cache, a mutex | List, Add, Remove, CleanupScenario, ActivateScenario |
| Commands, settings | `SL/controllers/CommandsController.cpp`, `SettingsController.cpp`, their services | a table, a cache and a mutex each | Get, AddOrUpdate, Remove; push to the device |
| Web-sockets | `SL/services/DeviceWebsocketsService.cpp`, `SL/processors/WebsocketCache.cpp`, `WebsocketProcessor.cpp` | a map from a device to its connection, a mutex | authorization, get_settings, get_commands, reports with acknowledgement, close |
| Device registry | `SL/controllers/DevicesController.cpp`, `SL/services/DevicesService.cpp`, `SL/processors/DeviceRegistrationProcessor.cpp` | table Devices, a cache, a mutex | registration by a message, List, Get, renaming, removal with settings and commands, restart |
| Measurements | `SL/controllers/*ValuesController.cpp`, `TimeValuesController.hpp`, `UL/core/Cache.hpp` | a table for each kind of value, a cache ordered by time | Add, Get, filling the cache |
| Clean-up | `SL/controllers/CleanupController.cpp` | | eight calls: a DELETE for each table, then each cache |
| Rules | `SL/processors/EventsProcessor.cpp`, `SunriseSunsetUtils.cpp` | today's sunrise and sunset | the conditions of six kinds of event, SendCommand |
| Timer | `SL/services/TimerService.cpp` | a thread, the last minute it saw | three messages when the minute has changed |
| Firmware | `INO` | Wi-Fi and socket state, unacknowledged messages, relay, display, timers on a wrapping clock | setup, loop, WebSocketEvent, in six builds |
| Marshaling, rows | `UL/marshaling`, `UL/core/DbExtension.cpp` | none | to_json, from_json, a column by its name |
| Front end: device pages | `stackWidgets/*Widget.cpp` of the front end | one page for each type of device, its cached values, its timer; a dialog of settings | open, leave, refresh, switch a relay, rename, change settings |
| Front end: editors | `stackWidgets/EventsWidget.cpp`, `ScenariosWidget.cpp`, `eventEditors` | the lists of the last refresh, the selected row, the fields of an editor | list, select, add, update, delete, activate |
| Front end: session | `Application.cpp`, `LoginWidget.cpp`, `DevicesWidget.cpp` | the page that is seen, the cookie, the buttons | login, navigation, refresh, deletion of a device |
| Accounts, logging, HTTP client | `UL`, `SL` | accounts from a file | look-up of a user; output; requests that may fail |

`PROJECT.json` repeats this list with the files of each part and what is and is not
modelled of it.

### How they interact

* Crow runs the handlers of HTTP requests and of web-sockets on several threads; a timer
  thread of its own runs the rules of the clock and the clean-up. All of them call the
  controllers.
* A controller is a table and a cache under one mutex. Mutexes nest in one direction only:
  scenarios before events, devices before settings and commands, each before the
  connection's.
* All controllers write through **one** connection. A transaction belongs to it, not to the
  thread that opened it: whatever any thread writes between the `BEGIN` and the `COMMIT` of
  a scenario's activation is part of that transaction.
* A report is given its time before it is handled, then to every processor of its subject:
  one stores the value, one registers the device, one runs the rules on a copy of the events.
* A command is stored by its controller, then pushed by whoever stored it on the connection
  that the web-socket cache knows, in three separate critical sections. A device that
  connects authorizes and asks for settings and commands.
* A session of the front end runs its handlers one at a time, and its timers between them.
  What it shows is what it last asked for; other clients change the server meanwhile.

### What is hard, and what makes it correct

| component | hard behaviour | correct when |
|---|---|---|
| Events, Scenarios | statements that fail between the change of a table and of its cache; a transaction shared by strangers; an early return with the transaction open; a crash half-way | a cache is its table whenever its mutex is free; an activation is seen in the file as a whole or not at all; success means durable; every request is answered |
| Delivery | storing and sending in different orders; a link each end of which learns of a break by itself; a close handler that runs after the reconnection | the newest command gets on the wire the device listens to; the cache never names a closed connection; the device obeys the command the server holds, or one that was under way when that was stored |
| Registry | two first messages of one device; a removal of three statements whose results are partly ignored; a cache filled only when empty, from rows of whole seconds whose columns a name can hide | no refused insert but for a row that cannot be read back, no orphan without a reason, what is cached is stored, to the second |
| Measurements, clean-up | full time stamps in the cache and seconds in the table; DELETEs that hold no controller's mutex and whose results nobody reads; reports handled in another order than they came | what is answered is stored and the reverse; what was cleaned stays gone; an acknowledged value is answered, newest first |
| Rules, timer | three messages a minute on a thread that may need longer; a snapshot of the rules; a command compared, then stored; hysteresis; the rounding of the sunrise | a rule that is due decides the command; a thermostat keeps its delta; a rule of the clock fires again and again |
| Firmware | a clock that wraps, read twice in one pass of the loop; commands, motion, its end and a sensor on one relay; acknowledgements that never come | the relay is as whoever may switch it last decided; the light goes off only after the activity time, and in the end; reports and the display recover; Wi-Fi is reset only for a message that is old enough |
| Front end | a page that outlives the device it shows, with a timer that goes on; a label and a command computed at different times; five conversions between an editor's field and the next editor's | a page shows its own device; a press sends what the button says; an editor gives back what it was given |

The full list of hazards, each at the line where it bites, is in `PROJECT.json`.

## 2. Modules

| module | builds on | kind |
|---|---|---|
| Storage | | the shared connection, used by four components |
| EventsController | Storage | component |
| Scenarios | EventsController, INSTANCE of AtomicScenarios | composition of both controllers and their HTTP services |
| AtomicScenarios | | abstract specification |
| DevicesController | Storage | component, with settings and commands |
| CommandDelivery | Storage | server, network and devices |
| Measurements | Storage | four controllers of values, their processors, the clean-up |
| Rules | | timer's thread, workers and the events processor |
| DeviceFirmware | | component, every build |
| Marshaling | | the conversions, as pure operators |
| DevicePages | Marshaling | the pages of devices, and what they ask of the server |
| EditorPages | DevicePages | the pages of events and scenarios |
| Frontend | EditorPages | a session of the front end |
| StorageProofs, ScenariosProofs (with EventsController), DevicesControllerProofs, CommandDeliveryProofs, MeasurementsProofs, RulesProofs, DeviceFirmwareProofs, FrontendProofs | the module of their name | lemmas and theorems |

`MC*` modules add symmetry sets and the small sets of contents, rules, accounts and initial
tables that a `.cfg` cannot write down.

### Storage
The shared connection. `db` is what it sees, `durable` what the file holds, `txOpen`
whether a transaction is open. Each operator is one call of `InternalExecute`, atomic
because of `Storage::_mutex`. `Faults` names what may go wrong: a failing SELECT, a failing
write, a failure that also rolls back, `SQLITE_CANTOPEN` with its silent reopening, and a
crash. The tables are fields of `db` that the modules using Storage choose; SQL text is
abstracted to the rows it reads and writes. What SQLite does on its own is modelled from
how the code uses it.

### EventsController
`call[t]` is the method thread `t` is in. The `lock_guard` makes a method up to three steps
(enter and fill an empty cache, the statement with the change of the cache, and for Delete
the second SELECT); other threads run between them. `Add`'s INSERT is refused by the primary
key; an UPDATE of a missing row succeeds; a failing refill leaves the cache alone.

### Scenarios and AtomicScenarios
Scenarios puts `ScenariosController` and the two HTTP services on top: `pc[t]` and `job[t]`
are the handler of thread `t`, which calls the events controller through `call[t]`.
Activation keeps the scenarios' mutex across CleanupScenario, `Begin`, one SetActivity per
event in any order with activations first, and `Commit`; `ActivityNotSet` is the early
return between the two; `Leaked` says that it has left the transaction open. AtomicScenarios
is what a reader of the file is promised: activating, storing and removing are single steps.

### CommandDelivery
Devices, connections, workers and the handlers of connections. `stored` is the cache of
CommandsController beside the Commands table in Storage: a store writes both under the
mutex, but its row is durable only if no scenario's transaction is open on the shared
connection (`OtherTransaction`), and a restart reads the cache from the file, so it may come
back with an older command, or with none when the SELECT fails. `cached` is the web-socket
cache, `toServer`/`toDevice` are the two halves of a connection, `conn` is the server's view of
it and `link` the device's. A worker stores, looks up and sends in separate steps;
`CheckCommand`/`StoreCommand` is the compare-then-store of `EventsProcessor::SendCommand`. A
link breaks at any time and loses what the device has not read; the server handles what it has
received and then runs `OnWebSocketClose`. The server and the device restart. Each store is
numbered: the number is a history variable that tells equal contents apart. Two more
histories: `sent`, the newest number put on each connection, and `rivals`, what else than the
stored command a device may obey: the commands a thread had in hand when it was stored, and
after a restart without any command what the device obeyed or had not read yet.

Assumptions: authorization strings are right; `get_settings` is left out of the greeting,
being for commands one more report; the settings' push is line by line the commands'
(`SL/services/SettingsService.cpp:45-60`) and not modelled again.

### DevicesController
The registry together with the settings and commands it removes with a device. A method
that is one statement and one change of a cache under the mutex is one action. The row of a
device and its cached entry differ: the row keeps whole seconds (`Second`), the entry the full
time, and filling the cache reads a row by looking a column's name up among names and values
alike (`ReadBack`, `Readable`). A device named "grp" comes back without its group; one whose name
or group is "timestamp" comes back as a phantom, an entry with a random id and of no known type,
which keeps the cache from being empty and can be deleted like a device (`phantoms`,
`RemovePhantom`). Removal is three (the device, its settings, its commands) with the mutex kept; registration is Get and
then, in another critical section, Add or UpdateDeviceTimestamp. `excused` is a history of
the accepted reasons for settings or commands to outlive their device: they were stored
after it had gone, a DELETE failed and its result was ignored, or the process ended in the
middle. Two more, `misread` and `fillFailed`, say which entries lost their group when they were
read and whether the last SELECT for the cache failed.

### Measurements
The four controllers of values with their processors and the clean-up, for devices of any
kind (`kindOf`). A table keeps whole seconds, its cache the full time. Both are sets: no SELECT of
these tables asks for an order, the cache's `std::map` has one entry for each device and time
stamp, and the order of an answer is made in `Get`. `Fill` is what a restart makes of the rows: of
rows of one second whichever the connection returned first, and nothing when the SELECT fails. A report
gets its time in `Receive` and is stored and acknowledged in `Handle`, with other reports,
ticks and the clean-up between. The clean-up's eight calls are steps of their own and take no
controller's mutex. A conversion is what the code does: a motion relay's state is looked up
under the key "value", which no device sends, and its motion is written as a word and read
back as a number. `OtherTransaction` is somebody's activation on the shared connection. Two
histories: `swept`, the limit of the last DELETE that is durable, and `newest`, the newest
acknowledged report of each device.

### Rules
The timer's thread (`Poll`, `TimerMessage`, `RoundDone`) and the workers that handle reports.
A message takes a copy of the active rules of its provider and becomes a set of calls of
`SendCommand`, made in the order of the rules (`Turn`), each a comparison (`CheckCommand`) and a
store that may fail (`StoreCommand`), between which everybody else runs: clients that command the same device or switch a rule, the
other worker, the clock. The clock is read anew for each of a round's three messages. Times of
the sun are in half minutes, so that the rounding of `SunriseSunsetUtils` shows. `Tick` within
a round and `Restart` are counted as troubles. Two histories: `disturbed`, the receivers that
somebody other than the timer commanded in this minute, and `wanted`, what the last report
outside its delta told each thermostat to do.

### DeviceFirmware
One turn of `loop()` in four parts, `pc` = "network", "check", "report", "activity", and
WebSocketEvent with everything it may receive. The clock wraps at `MaxMillis` and ticks between
the parts; `currentTime` keeps the value `loop()` read once, `generateMessageId` reads the clock
again. The six builds of the sketch's `#ifdef`s are values of `build`. Without Wi-Fi the loop
starts over before it comes to the sensor. Histories: `age` of each outstanding message, `quiet`,
`sensed`, `silence` (time since the last report, of any build; unknown after a time without
Wi-Fi, until the next report) and `renewed` (since then the period has begun anew at a wrap of the
clock). Left out: the brightness of the display, the text of a date that no
server sends, over-the-air updates, drivers of sensors.

### Marshaling
The structures that front end, server and devices exchange. A type is a record of its keys with
what each becomes when it is missing: `Required`, or a default (`Unset` for an optional, which
to_json leaves out when it is empty, `NewId` where the code makes an identifier). `Json` and
`Object` are to_json and from_json as functions of the keys; rows are lists of names and values, as `FindValueByName` sees them.

### DevicePages, EditorPages, Frontend
DevicePages has one page for each type of device, which is made with the session and lives as
long; opening a device fills it, and its timer goes on when it is left. A dialog of settings
returns to the event loop, so timers and other clients come between its opening and its end.
`Outcomes` are the requests of a handler that fail. A history in each page, `asked`, is the
newest report of its device when its last requests were answered. The page of a universal device
keeps the names it knows and the charts it made for them; `at()` on a value that lacks a name
throws, at once for a new name (`NewestLacks`) and in a chart when its tab is drawn (`ChartLacks`),
and as nobody catches it the session is over until the browser loads the page again
(`SessionEnds`, whose end by Wt is external). EditorPages has the six
editors, EventsWidget's table and ScenariosWidget's list with check boxes; both work on what they
last listed. Frontend adds login and cookie, the stack of pages, the boxes of groups, the
deletion of a device, and the other clients.

## 3. Runs

| run | specification and bounds | states | what it shows |
|---|---|---|---|
| `scen` | 2 threads, 1 event, 1 scenario, every request, all five faults, fair threads | 414,135 | *EveryRequestAnswered*, *EventsMutexHeld*, *ScenariosMutexHeld*: no mutex is kept and no thread waits in a circle. *ActivationDurable*: an answer OK is in the file, also when the connection was reopened or rolled back meanwhile. *LeakedWritesAreLost*: once an activation returns in the middle, nothing but the loss of the connection ends the transaction, and no write reaches the file before |
| `scen_atomic` | 2 threads, 2 events, 2 opposite scenarios, failing writes, crashes, no edits of events | 542,310 | *ActivationIsAtomic* (refinement of AtomicScenarios by the file), *ScenariosCacheIsTable*, *EventsCacheIsTable*, *OnlyFailuresCutShort*: a stored scenario naming deleted events is cleaned, so only a failing statement stops it half-way |
| `scen_put` | 2 threads, only PUT | violation | finding 1 |
| `delivery` | 1 device, 2 connections, 2 workers, 1 content, 2 stores, 2 breaks, failing SELECTs and writes, crashes | 1,285,199 | *CachedIsOpen*, *NewestCommandSent*, *OnlyRivalsWin*: a settled device obeys the command the server holds or one that was under way when that was stored, also after a restart that brings back an older row or none |
| `delivery_live` | 1 device, 2 connections, 1 worker, 1 content, 2 stores, 1 break, the same faults, fair | 130,301 | *EveryCommandIsSent*: through a lost link, a lost authorization or a restart |
| `firmware` | all six builds, clock 0..6, timeout 2, period 1 or 2, display delay 2, activity time 1 or 2, 1 tick in a turn of the loop, fair | 1,783,102 | *RelayFollows*, *LightStaysOn*, *NoEarlyReconnect*; *ReportsInTime*: wherever the loop is, and however often it leaves a turn because the clock wrapped, the last report is not too long ago; *NoLongSilence*: a report is passed over only within the period of this moment. *EveryMessageSettled*, *MotionEnds*, *DisplayRecovers* |
| `firmware_ack` | as `firmware`, period 2 | violation | finding 2 |
| `registry` | 2 threads, 1 device, names "grp" and "timestamp", 1 content, 2 times in different seconds, failing writes, crashes | 328,962 | *AttachedCachesAreTables*, *OrphansExplained*; *NoRefusedInsert*: only the INSERT of a device whose row cannot be read back is refused; *CachedDevicesStored*: what the cache has is stored, up to the second and a lost group (with failing SELECTs, a theorem of section 5) |
| `registry_select` | 2 threads, 2 devices, the name "timestamp", no content, failing SELECTs too | 174,972 | *HiddenDevicesExplained*: a stored device is missing in the cache only after a SELECT that failed or when its row cannot be read back |
| `values` | 1 device of any kind, 2 workers, 6 ticks of half a second, two weeks in 2 ticks, 2 rows, failing writes, crashes | 280,791 | *AnsweredIsStored*, *StoredIsAnswered*, *CleanedStaysGone*, *AcknowledgedIsAnswered*: cache and table say the same whatever the order of reports, clean-up, failures and restarts, and an acknowledged value is answered until it is too old |
| `rules` | 1 heater, a rule of the clock, of the sun, of a motion relay and a thermostat, 2 hours of 2 minutes, 2 workers, 1 trouble, fair | 249,696 | *DueCommandStored*, *ThermostatFollows*, *ActiveRuleFires* |
| `frontend` | 6 devices of the four types, 2 events, 2 scenarios, 2 reports, 1 failing request, 1 change by another client, 1 request of an editor | 223,276 | *PageShowsItsDevice*, *CommandMatchesLabel*, *EditorsLoseNothing* |

Every property has a mutant: a definition as a plausible bug would have it, kept beside the
original and marked "Mutant", which breaks that property in that run.

### Bounds, and why they are enough
* Two threads: every race in the code is between one thread inside a method and another;
  the mutexes let no third one in. Two devices or events: the caches are maps by id, and
  what happens to one id touches another only through "the cache is empty", which two
  distinguish. `scen` has one event, for what it asks concerns threads and the connection;
  `scen_atomic` has two, of which one is switched on and one off.
* `MaxStores` 2 in the delivery is the least that lets two stores be sent in the wrong
  order. `MaxBreaks` 2 gives a break during the recovery from a break; a device needs one
  connection more than the links it loses. Two connections are enough for the races of an
  old connection's close with a new one's authorization; a device that runs out of
  connections stays disconnected, which safety allows, and the live run, with one break, lets
  it connect as often as it needs. One content is enough because the number tells stores
  apart, and the comparison of `CheckCommand` then always finds an equal command or none; the
  live run has one worker, for two (754,534 states) show nothing new: once a push is on its
  connection, no other thread takes it back. `MaxUnread` 0: a report is sent when nothing waits to be
  read, because reports come seconds apart. The theorems of section 5 have none of these bounds.
* `firmware`: the clock is scaled, not cut: its 7 ticks stand for 49.7 days, 2 for 30 s. What
  matters is the order of the delays and that the cycle of the clock is longer than a delay plus
  the pauses of one turn (with a cycle of 6 it is not, and a whole turn of the clock can pass
  between two tests, which is a fact about the scaling: the real ratio is more than 100,000). No
  bit of the clock counts, so its width need not be a power of two, and the theorems of section 5
  hold for every width. The plain relay has two message ids, so that an old message waits beside a new
  one; the other builds run the same check and have one. Two periods let a setting shorten the
  one that runs. *ReportsInTime* and
  *NoLongSilence* were also checked with a clock of 11 ticks and 2 ticks in a turn (11.3 million
  states), which takes too long to keep as a run.
* `values`: two ticks in a second let two reports fall into one second, and two weeks of one
  second let the clean-up's limit pass between them; two rows are two reports of one second,
  or an old and a new one. One device, because every entry, row and answer is its device's
  alone.
* `rules`: four minutes with an hour's end in the middle; the sunrise falls on a minute or is
  rounded up to the whole hour. One trouble: a second would be a second restart or slow round
  after the first has been made up for.
* `frontend`: a session opens the devices of one type, or the events, or the scenarios
  (`Visits`): pages of different types share nothing but the stack. Two devices of a type are
  what a page can confuse, two reports an old value and a new one. One report of a universal
  device has a name and the other has none, which is what `at()` of a page does not find.
* `registry` has one device: its rows, entries and removals are its own. What one device does to
  another goes through "the cache is empty" and phantoms, for which `registry_select` has two; it
  has no attached content, as a failing SELECT concerns the devices' cache. The two names are
  the ones that hide a column; every other name is like `NoName`. Reasons to leave other faults out
  are in section 5, where the same faults are a theorem's assumption; `values` leaves failing
  SELECTs out because its only SELECTs fill the caches of a new process.
* No run turns the deadlock check off.

### Fairness
* `FairServerSpec`: weak fairness of `Serve(t)`: the operating system runs a thread that can
  run. Clients owe nothing; a mutex is not handed out fairly, and the property allows for
  requests without end.
* `DeliveryFairness`: threads run, a TCP channel delivers while it lives, the firmware's loop
  runs, reconnects and reports, and each end notices in the end that the other has gone (the
  firmware by its heartbeat, the server by the close of TCP). Nothing forces a command, an
  event or a break to come.
* `FairFirmwareSpec`: the processor runs and time passes. That the Wi-Fi comes back or motion
  stops is a premise of the properties (`<>[]wifi`, `<>[](quiet # 0)`), not fairness.
* `FairSpec` of Rules: the timer's thread runs and time passes. Reports, clients and restarts
  owe nothing.
* Registry, measurements and front end have no liveness properties and no fairness.

## 4. Findings

1. `scen_put`: **a stored scenario cannot be replaced.** The PUT handler calls
   `ScenariosController::Add` (`SL/services/ScenariosService.cpp:66`), whose INSERT the
   primary key refuses; the answer is BAD_REQUEST and nothing changes.
   `ScenariosController::Update`, which would do it, is called by the tests alone
   (`src/src/UniversalDeviceTests/controllers/ScenariosControllerTests.cpp:55`).
2. `firmware_ack`: **a message sent in the millisecond of the check is taken for 49 days
   old.** `INO:403` treats an equal time as a clock that wrapped; the firmware forgets every
   outstanding message and reconnects its Wi-Fi. *NoEarlyReconnect* shows that this is the
   only early case.

Not disagreements with any text, but worth knowing; the models have each of them, and the
properties are stated so that they are visible as premises or exceptions:

* An activation that fails in the middle leaves the transaction open. From then on the server
  answers as usual but stores nothing for good; the next crash or Quit loses it all
  (*LeakedWritesAreLost*).
* Two commands stored one after the other may reach the device in the other order, after which
  the events processor does not repair it, for it compares with what is stored (`rivals` of
  *OnlyRivalsWin*).
* A command that was stored while a leaked transaction was open is gone after a restart: the
  device is sent the older one of the file. When the SELECT of the start fails the server has no
  command at all, answers none, and the device goes on obeying the last one it had.
* A motion relay's state is read under the key "value" (`UL/marshaling/Marshaling.cpp:521`), so
  it is never taken over from a report; its motion is inserted as the word `true` or `false`
  (`SL/controllers/MotionRelayValuesController.cpp:36`) and read back with `atoi`, so after a
  restart all motion in the cache is false.
* A sunrise or sunset that is rounded up to a whole hour has the minute 60, and its rules do not
  fire that day (`SL/processors/SunriseSunsetUtils.cpp`; the exception of *ActiveRuleFires*).
* With a delta of 0 a thermostat at its set temperature switches on and off in one message.
* Rules never see a universal device: no EventsProcessor is made for its reports.
* A thermometer's time since its last report is cast to int (`INO:459`); after more than half a
  turn of the clock without Wi-Fi it is silent for the rest (the first report after a time without
  Wi-Fi is left out of *ReportsInTime* and *NoLongSilence*).
* When the clock wraps, every build but the thermometers begins its period anew, so that one report
  may be as much as a period and two turns of the loop late (`INO:430-453`).
* `INO:362` and `INO:417` test the macro `HAS_THERMOMTER`, which nothing defines.
* When a relay has no values, the button says "on" but sends what the last shown state asks for
  (`RelayWidget.cpp:95`; the premise of *CommandMatchesLabel*).
* The editors drop the fraction of a temperature, and never store the brightness of an event
  (`EventReceiverWidget.cpp:82-96`; the exceptions of *EditorsLoseNothing*).
* A device whose name is "grp" is read back without its group (`UL/core/DbExtension.cpp:22-26`). One
  whose name or group is "timestamp" is not read back at all: after a restart it is missing, every
  message of it is refused as that of a new device, and an entry with a random id stands in the
  list, until that is deleted and the cache filled anew (the exceptions of *CachedDevicesStored*,
  *HiddenDevicesExplained* and *NoRefusedInsert*).
* After a SELECT for the devices that failed, the first registration makes the cache non-empty, and
  the stored devices that it lacks stay invisible until the next start (`fillFailed` of
  *HiddenDevicesExplained*).
* A universal device that reports other names than before ends the session of whoever looks at its
  page (`UniversalDeviceWidget.cpp:146`, `UniversalDeviceChartModel.hpp:26`); the condition at
  `LogsWidget.cpp:98` never holds.

## 5. Proofs

Checked by TLAPS, for any sets of threads, events, scenarios, devices, connections, contents,
rules and readings, and any timing of the firmware, that the modules' named assumptions on their
constants allow.

| theorem | statement |
|---|---|
| `TypeCorrect` | `Spec => []TypeOK` of EventsController, whatever the faults |
| `MutexCorrect` | `Spec => []EventsMutexHeld`, whatever the faults |
| `CacheCorrect` | `NoLostReads => (Spec => []EventsCacheIsTable)` |
| `ServerTypeCorrect` | `ServerSpec => []ServerTypeOK`, whatever the faults |
| `ServerEventsMutexCorrect` | `ServerSpec => []EventsMutexHeld`, whatever the faults |
| `ScenariosMutexCorrect` | `ServerSpec => []ScenariosMutexHeld`, whatever the faults |
| `AnsweredIsDurable` | `ServerSpec => ActivationDurable`, whatever the faults |
| `LeakedWritesLost` | `ServerSpec => LeakedWritesAreLost`, whatever the faults |
| `ScenariosCacheCorrect` | `NoLostReads => (ServerSpec => []ScenariosCacheIsTable)` |
| `ScenariosAreAtomic` | `NoLostReads /\ NoEdits => (ServerSpec => ActivationIsAtomic)`: the refinement |
| `CutShortByFailures` | `NoLostReads /\ NoEdits => (ServerSpec => OnlyFailuresCutShort)` |
| `DeliveryTypeCorrect` | `DeliverySpec => []DeliveryTypeOK` |
| `CachedConnectionsOpen` | `DeliverySpec => []CachedIsOpen` |
| `NewestSent` | `DeliverySpec => []NewestCommandSent` |
| `OnlyRivals` | `DeliverySpec => []OnlyRivalsWin`, whatever the faults |
| `RegistryTypeCorrect` | `RegistrySpec => []RegistryTypeOK`, whatever the faults; it includes who holds the mutex of a removal |
| `AttachedCachesCorrect` | `NoLostReads => (RegistrySpec => []AttachedCachesAreTables)` |
| `NoRefusedInsertCorrect` | `NoLostReads => (RegistrySpec => []NoRefusedInsert)` |
| `OrphansCorrect` | `NoLostReads => (RegistrySpec => []OrphansExplained)` |
| `CachedDevicesCorrect` | `NoLostTransactions => (RegistrySpec => []CachedDevicesStored)` |
| `HiddenDevicesCorrect` | `NoLostTransactions => (RegistrySpec => []HiddenDevicesExplained)` |
| `RelayCorrect` | `FirmwareSpec => []RelayFollows` |
| `ReconnectsInTime` | `FirmwareSpec => NoEarlyReconnect` |
| `LightStays` | `FirmwareSpec => LightStaysOn` |
| `AlwaysReportsInTime` | `PeriodsFit => (FirmwareSpec => []ReportsInTime)`, in all six builds |
| `NeverLongSilent` | `PeriodsFit => (FirmwareSpec => NoLongSilence)` |
| `TypeCorrect` of MeasurementsProofs | `Spec => []MeasurementsTypeOK`, whatever the faults |
| `CleanedNeverReturns` | `Spec => []CleanedStaysGone`, whatever the faults |
| `AnswersAreStored` | `TransactionsLast => (Spec => []AnsweredIsStored)` |
| `StoredIsFound` | `FillsSucceed => (Spec => []StoredIsAnswered)` |
| `AcknowledgedIsFound` | `FillsSucceed => (Spec => []AcknowledgedIsAnswered)` |
| `TypeCorrect` of RulesProofs | `FairSpec => []RulesTypeOK` |
| `DueIsStored` | `FairSpec => []DueCommandStored` |
| `ThermostatsAreFollowed` | `FairSpec => []ThermostatFollows` |
| `PagesShowTheirDevices` | `Spec => []PageShowsItsDevice` of Frontend |
| `ButtonsSendWhatTheySay` | `Spec => CommandMatchesLabel` of Frontend |

`NoLostReads` is `Faults \subseteq {"write", "crash"}`, `NoLostTransactions` allows failing
SELECTs as well. With a failing SELECT a refill keeps the old entries; with a reopened or
rolled-back connection the table itself jumps back under the cache. So without the assumption
what these theorems say of the caches is false, not merely unproved. `NoEdits` says that no client
adds, changes or deletes events: an edit made during an activation joins its transaction, and the
file shows both at once. Of the two for Measurements, `TransactionsLast` leaves out the rollback and
the reopened connection (a row that is taken back stays in the cache) and `FillsSucceed` the
failing SELECT (a cache that is not filled after a restart lacks the rows for good). `PeriodsFit`
says that every period is at least the time measuring takes, and that the longest with two turns of
the loop fits half of the clock: the front end offers 1 to 600 seconds
(`WidgetHelper.cpp:62-63`), measuring takes half a second and half of the clock is 24 days.

**Events.** *MutexCorrect* is inductive with the types. *EventsCacheIsTable* is not: it says
nothing of the moments when the mutex is held, where Delete has changed the table and not yet the
cache. The strengthening `CacheCoherent` says that the cache is the table except while some thread
is at "refill", and that thread holds the mutex by *EventsMutexHeld*; other threads cannot
enter, and transactions of strangers change `durable` and not `db`. The lemmas on one statement of
the connection (`StorageProofs`) are stated over any set of tables and cited by the controllers.
Those on the events controller are stated on its step (`EventsStepType`, `EventsStepMutex`,
`EventsStepCoherent`), again over any set of tables, so that they serve the controller by itself
and Scenarios, which runs the same steps with one table more.

**Scenarios.** `ServerInv` adds to the types and the two mutexes `HandlersAgree`: a handler is
inside the events controller exactly where it waits for it, and has a scenario wherever it works
on one. One lemma, `HandlerStep`, gives the invariant for any step of a handler that moves its
place, its job and its call together and takes or frees the mutex as the new place says; each
action is then an instance of it. The two action properties follow from what a step can do to the
connection: only a COMMIT answers OK, and a COMMIT is reached only through a BEGIN, which an open
transaction refuses. The cache and the table of scenarios change in one step, and no step of an
activation touches either.

**Activation.** The file implements AtomicScenarios because of `ActivationInv`: what an activation
has done to the tables and what it has still to do come, at each moment, to the whole of the
scenario. `Applied(table, on, off)` is a table after the events of `on` are activated and those of
`off` deactivated; `Applies(t)` says that applying what thread `t` has left (`ToActivate`,
`ToDeactivate`, the event being set included) to the tables of the connection gives what applying
the stored scenario to the file gives. BEGIN establishes it, as nothing is pending then and the
dropped ids are of events that do not exist; each SetActivity moves one event from what is left to
the table (`OneActivated`, `OneDeactivated`); at COMMIT nothing is left, so the step is *Activate*.
The other parts of the invariant say that events are in both tables or in neither, that both caches
are the connection's tables, and that List returned the ids there are. A transaction left open by
an early return needs no case of its own: what is written in it is not durable, and BEGIN refuses
it. *OnlyFailuresCutShort* is the part of `Applies` that says that what is left to do names events
that exist.

**Delivery.** *CachedIsOpen* is inductive with the types of the three variables it speaks of: a
connection is authorized while open, its close removes it wherever it is cached, and a connection
is used once, so a new one is cached nowhere. *NewestCommandSent* is about quiet states only, and
its strengthening says who will still send the newest command until then. `NewestUnderWay`: on a
connection that the device uses and the server has cached, the newest command has been sent, or a
worker, the connection's handler or a request for the commands not read yet will send it. A
connection that is not cached is safe because an authorization is always followed by such a
request (`ConnectionsUsed`). `RowsNumbered` says that no number in the table, the file or the cache
is above the newest store's, `NumbersBounded` that on an open connection nothing is newer than what
the server holds, which a restart, closing every connection, may make older. For *OnlyRivalsWin*,
`OnlyWelcome` says that whatever a thread has in hand for a device is the stored command or one of
its rivals (`Welcome`), and `WelcomeReadLast` that what the device has obeyed and what waits for it
on the wire end with such a command; `KeptWithoutCommand` covers a server without any command,
which sends nothing, so that the device keeps what it had.

**Registry.** *AttachedCachesAreTables* is inductive with the types, because every change of a table
and of its cache is one critical section. *OrphansExplained* is not inductive and is strengthened
twice. `OrphansKnown` adds how far a removal has come: when it reaches the commands, the settings
are gone or their survival is excused. `NothingPending` (outside a transaction the file holds what
the connection sees) is what a restart falls back on; inside a transaction it may fall back on
anything, which is one of the excuses. With failing SELECTs, every step but a restart is a
`CachedRowStep`: it keeps all rows (`RowsKept`), or writes one row and its entry together so that
they match (`RowWritten`, `Matches`), and never the row of a device that a filled cache lacks. The
entry of a row that is read again matches it because a second that is read back and cut again is the
same (`SecondOfTime`). *CachedDevicesStored* and *HiddenDevicesExplained* follow from that; and
*NoRefusedInsert* from `RefusedHidden`: with no SELECT failing, the device of a refused INSERT is
one whose row cannot be read, and stays it while its thread has not gone on.

**Firmware.** `AckInv` ties the age of an outstanding message to the difference of the wrapping
clock and the time it was sent, `MotionInv` the time without motion to the start time; both are
inductive for every width of the clock, every timeout and every activity time below it.
*RelayFollows* is inductive with the booleans it speaks of. *ReportsInTime* and *NoLongSilence*
rest on `SilenceInv`, for all six builds. `SilenceByClock`: the time since the last report is at
most what the clock says since the period began (`Since`), or, once the period has been renewed at
a wrap, at most `TestBound` more. `PeriodByClock`: what the clock says is at most a period and the
turns it takes to come to the test, hence below half of the clock, so that the cast to int is
exact. The motion relay has a second start time, at whose wrap the loop leaves its turn as well;
`ActivityBehind` says that the last motion was before the last report, or so soon after it that
the clock cannot have wrapped between the two, or that the period has just begun anew. So the two
resets together put a report off once and not for good (`ReportWrapSilence`,
`ActivityWrapSilence`). All this is said while the silence is `Known`, that is but for turns
without Wi-Fi. The wider bound applies only when `renewed` is set, to relays as to every other
build.

**Measurements.** Everything rests on the types (`TypeInv`) and on `OnTime`: the clean-up's limit is
two weeks old or older, nothing was swept beyond it, and a message that is still handled is younger.
*CleanedStaysGone* is strengthened to `GoneInv`, which says of what the connection sees **and** of
what the file holds that neither has a row older than the last durable sweep, for a restart may
fall back on either, and of a cache that it has no older entry unless its own clean-up call is still to come
(`CacheWaits`). *AnsweredIsStored* is inductive with these: an entry is dropped by the same limit as
its row, and the lemmas on `Second` and `TimeFromInt` say that the limit does not part the two.
`StoredInv` says that every row of the connection or the file has an entry, `AcknowledgedInv` that
the newest acknowledged report has a row in both, each until the limit reaches it; from them
*AcknowledgedIsAnswered* follows by a lemma on `Get`, which filters, sorts and cuts a finite set of
entries (`GetIsSorted`): the first of its answer is the newest.

**Rules.** *DueCommandStored* speaks of the moments when the timer's thread rests. `DueInv` says
what is true within a round: every call the thread still has to make is due (`OnlyDue`), and for a
receiver that nobody else commanded and that has a due rule, the message is to come, a call is
pending, or such a rule's command is stored (`Served`). `RoundLasts` says that a round outlasts its
minute by no more minutes than there were troubles, of which `RulesAssumption` allows, as the bound
of the model, fewer than a day has minutes: a thread that is busy for a whole day would take the new
minute for the old one. `ThermostatInv`: either no call of a thermostat is pending and its receiver
has the wanted command, or one worker alone has its calls and the last of them is that command.
Neither theorem restricts a rule's delta: with 0 both commands are due, and "off" is the last.

**Front end.** *PageShowsItsDevice* holds because of `SessionInv`: reports are in order of time and
what a device of the type can send, buttons and the list name known devices, a page that is not
open has no device and no cached values (`Closed`), and the page that is open has cached values of
its own device, the newest first (`OpenFor`). A chart's page compares only the time of the newest
value with what it has, so it matters that nothing cached can be another device's. The conversions
carry weight here: `ReadAgain` shows that a value read once stays what it is when it is written and
read again, for each of the four kinds, `RequestArrives` that the request's three layers of JSON
reach the server as they were meant. *CommandMatchesLabel* follows from the same invariant, as the
label and the state of a page are written together. `MarkersAssumption` says that `Unset` is no
number, string or boolean, `PagesAssumption` that devices have one of the four types and that a
motion relay never sends the key "value", `RowsAssumption` that the rows at the start are those of
known devices, which a row that is misread (`DeviceOfRow`) is not.

Only model-checked: *EditorsLoseNothing*, whose event types are made with `@@`, which tlapm cannot
expand, and all liveness (*EveryRequestAnswered*, *EveryCommandIsSent*, *EveryMessageSettled*,
*MotionEnds*, *DisplayRecovers*, *ActiveRuleFires*). Liveness under fairness, ENABLED and induction
over data are out of the prover's reach; the modules have no recursive operators.

## 6. Not modelled

* `ScenariosController::Update`: it has no caller outside the tests. `InitializeDb`: it creates the
  tables before anything else runs.
* The settings' push to a device: line by line the commands' one
  (`SL/services/SettingsService.cpp:45-60`).
* Lifetime of connection objects after a look-up: whether Crow has freed one is outside the
  models; a text sent on a closed connection is lost in them.
* A device with a wrong authorization string and the server exchange messages without end; the
  number of messages has no bound. The hashing behind an authorization is a conversion.
* The astronomical formula of sunrise and sunset: a constant of Rules.
* The order in which the independent processors of one message run: each is modelled where its
  state is.
* Logger, backend logs and their page, the page of the service's settings: text.
* Charts and layout of the front end.
* Router watchdog (a sketch of 94 lines), simulators, tests, vendored code (Crow, SQLite, libcurl),
  deployment.

## 7. Plan

Done: every component of section 1 except the text of logs. Left, in order of importance:

1. *EditorsLoseNothing*: the event types as records, with lemmas on what each of the conversions
   keeps.
2. The firmware's give-up composed with the server's refusal of a -127: a thermometer without its
   sensor resets its Wi-Fi at every timeout.
3. The router watchdog.
