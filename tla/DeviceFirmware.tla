---------------------------- MODULE DeviceFirmware ----------------------------
(***************************************************************************)
(* The firmware of the devices (UniversalDevice.ino), in every build: a    *)
(* thermometer, one with a display, a relay, a relay that is its own       *)
(* thermostat while it has no server, a motion relay, and the universal    *)
(* device.  One loop keeps the Wi-Fi and the web-socket up, reports,       *)
(* switches the relay, and reconnects when the server does not acknowledge *)
(* a report.                                                               *)
(*                                                                         *)
(* Time is millis(), which wraps around.  The clock ticks between the      *)
(* steps of the loop; a step takes no time.  The loop reads the clock once *)
(* into currentTime and goes on with that value, generateMessageId reads   *)
(* it again.                                                               *)
(***************************************************************************)
EXTENDS Integers

CONSTANTS
  Builds,           \* the builds, of those below
  Ids,              \* bound: for each build the reports that can be outstanding
  MaxMillis,        \* the largest unsigned long
  MaxAckTimeout,    \* MAX_ACK_TIMEOUT
  Periods,          \* values of the period, the least one is the default
  MeasureTime,      \* what a build with a sensor or a relay subtracts from it
  DisplayDelay,     \* displaySwitchDelay
  ActivityTimes,    \* values of motionActivityDelay, the least one is the default
  MaxPause          \* bound: ticks in one turn of the loop

Thermometers == {"thermometer", "thermometer_with_display"}
Relays == {"relay", "relay_as_thermostat"}

ASSUME FirmwareAssumption ==
  /\ Builds \subseteq Thermometers \cup Relays \cup {"motion_relay", "universal_device"}
  /\ MaxMillis \in Nat \ {0} /\ MaxAckTimeout \in 1 .. MaxMillis
  /\ Periods \subseteq 0 .. MaxMillis /\ Periods # {} /\ MeasureTime \in Nat /\ DisplayDelay \in Nat
  /\ ActivityTimes \subseteq 1 .. MaxMillis /\ ActivityTimes # {}
  /\ MaxPause \in Nat \ {0}

VARIABLES
  build,
  pc,              \* the next part of loop(): "network", "check", "report" or "activity"
  millis,          \* the clock
  pause,           \* ticks since the loop began
  currentTime,     \* the local variable of loop()
  wifi,            \* WiFi.status() == WL_CONNECTED
  connected,       \* websocketConnected
  ackMessages,     \* outstanding ids, each with the time it was sent
  reportStart,     \* the start time of the period, and
  activityStart,   \* that of the motion or of the display
  period, motionActivityDelay,
  motionState,
  command,         \* relayStateFromCommand # 0
  relay,           \* relayHelper.State() # 0
  displayState,    \* displayCurrentState
  shown,           \* what the display shows
  age,             \* history: how long ago each outstanding message was sent
  quiet,           \* history: how long before currentTime motion was last seen
  sensed,          \* history: what a thermostat decided since the last command
  silence,         \* history: ticks since the last report, Unknown when the Wi-Fi was lost
  renewed          \* history: the period has begun anew since, at a wrap of the clock

clockVars == <<millis, pause, currentTime>>
linkVars == <<wifi, connected, ackMessages, age>>
settingVars == <<period, motionActivityDelay>>
lightVars == <<motionState, command, relay, quiet, sensed>>
displayVars == <<displayState, shown>>
timerVars == <<reportStart, activityStart, silence, renewed>>
firmwareVars == <<build, pc, clockVars, linkVars, settingVars, lightVars, displayVars, timerVars>>

HasDisplay == build = "thermometer_with_display"
Unknown == -1
OnlyReports == build \in {"thermometer", "relay", "universal_device"}

(* Unsigned subtraction, the cast to int, and histories that stop where     *)
(* they stop mattering.                                                    *)
Since(now, t) == (now - t) % (MaxMillis + 1)
Signed(n) == IF n > MaxMillis \div 2 THEN n - (MaxMillis + 1) ELSE n
LongestActivity == CHOOSE t \in ActivityTimes : \A u \in ActivityTimes : u <= t
LongestPeriod == CHOOSE p \in Periods : \A q \in Periods : q <= p
Least(times) == CHOOSE t \in times : \A u \in times : t <= u
AtMost(limit, n) == IF n > limit THEN limit ELSE n
InTime == LongestPeriod + 2 * MaxPause
With(f, id, value) == [i \in DOMAIN f \cup {id} |-> IF i = id THEN value ELSE f[i]]
-----------------------------------------------------------------------------
(* The clock.  Outstanding messages grow older, and so does the last report.*)
Tick ==
  /\ pause < MaxPause
  /\ pause' = pause + 1
  /\ millis' = (millis + 1) % (MaxMillis + 1)
  /\ age' = [id \in DOMAIN age |-> AtMost(MaxAckTimeout, age[id] + 1)]
  /\ silence' = IF silence = Unknown THEN Unknown ELSE AtMost(2 * InTime, silence + 1)
  /\ UNCHANGED <<build, pc, currentTime, wifi, connected, ackMessages, settingVars, lightVars,
                 displayVars, reportStart, activityStart, renewed>>

Proceed(next) ==
  /\ pc' = next
  /\ pause' = IF next = "network" THEN 0 ELSE pause
  /\ build' = build

(* generateMessageId registers the message if the web-socket is connected. *)
GenerateMessageId ==
  IF connected /\ DOMAIN ackMessages # Ids[build]
  THEN \E id \in Ids[build] \ DOMAIN ackMessages :
         /\ ackMessages' = With(ackMessages, id, millis)
         /\ age' = With(age, id, 0)
  ELSE UNCHANGED <<ackMessages, age>>

(* setRelayState. *)
SetRelayState(commanded, motion) == relay' = (commanded \/ motion)

(* display.ShowState. *)
ShowState(state) == shown' = IF HasDisplay THEN state ELSE shown

(***************************************************************************)
(* thermostatActivity: between the limits the relay stays as it is, and    *)
(* without a sensor it is off.                                             *)
(***************************************************************************)
ThermostatActivity ==
  \E temperature \in {"below", "between", "above", "broken"} :
    /\ sensed' = IF temperature = "between" THEN sensed ELSE temperature
    /\ relay' = IF temperature = "between" THEN relay ELSE temperature = "below"
-----------------------------------------------------------------------------
(* checkWiFi: one round of attempts, then the web-socket is begun anew ...  *)
ConnectWiFi ==
  /\ pc = "network" /\ ~wifi
  /\ wifi' = TRUE
  /\ connected' = FALSE
  /\ ShowState("Connected")
  /\ silence' = Unknown /\ renewed' = FALSE
  /\ Proceed("network")
  /\ UNCHANGED <<millis, currentTime, ackMessages, age, settingVars, lightVars, reportStart,
                 activityStart, displayState>>

(* ... or the loop starts over, and neither motion nor commands matter.     *)
ConnectWiFiFails ==
  /\ pc = "network" /\ ~wifi
  /\ ShowState("Error")
  /\ IF build = "relay_as_thermostat" THEN ThermostatActivity ELSE UNCHANGED <<relay, sensed>>
  /\ Proceed("network")
  /\ UNCHANGED <<millis, currentTime, linkVars, settingVars, motionState, command, quiet, timerVars,
                 displayState>>

(* websocketClient.loop() hands at most one event to WebSocketEvent.        *)
InWebSocketLoop ==
  pc = "network" /\ wifi /\ Proceed("check") /\ UNCHANGED <<millis, currentTime, timerVars, displayVars>>

NoEvent == InWebSocketLoop /\ UNCHANGED <<linkVars, settingVars, lightVars>>

(* WStype_CONNECTED: the greeting is not registered for acknowledgement.    *)
(* WStype_DISCONNECTED and WStype_ERROR: outstanding messages are kept.    *)
WebSocketChanges ==
  /\ InWebSocketLoop
  /\ connected' = ~connected
  /\ UNCHANGED <<wifi, ackMessages, age, settingVars, lightVars>>

InText == InWebSocketLoop /\ connected /\ UNCHANGED <<wifi, connected>>

AcknowledgeText ==
  /\ InText
  /\ \E id \in DOMAIN ackMessages :
       LET rest == DOMAIN ackMessages \ {id}
       IN  /\ ackMessages' = [i \in rest |-> ackMessages[i]]
           /\ age' = [i \in rest |-> age[i]]
  /\ UNCHANGED <<settingVars, lightVars>>

(* Mutant: the motion relay is switched as the relay is.                    *)
StateTextPlain ==
  /\ InText
  /\ build \in Relays \cup {"motion_relay"}
  /\ command' \in BOOLEAN
  /\ relay' = command' /\ sensed' = "nothing"
  /\ GenerateMessageId
  /\ UNCHANGED <<settingVars, motionState, quiet>>

(* A relay reports its new state, a motion relay does not.                  *)
StateText ==
  /\ InText
  /\ \E on \in BOOLEAN :
       /\ command' = on
       /\ \/ build \in Relays /\ relay' = on /\ sensed' = "nothing" /\ GenerateMessageId
          \/ build = "motion_relay" /\ SetRelayState(on, motionState) /\ UNCHANGED <<sensed, ackMessages, age>>
  /\ UNCHANGED <<settingVars, motionState, quiet>>

(* A period, an activity time or both.                                      *)
SettingsText ==
  /\ InText
  /\ period' \in Periods
  /\ motionActivityDelay' \in IF build = "motion_relay" THEN ActivityTimes ELSE {motionActivityDelay}
  /\ UNCHANGED <<ackMessages, age, lightVars>>

(* ESP.restart and setup(), whose waits the clock shows.  The start times   *)
(* of a thermometer are not set (HAS_THERMOMTER): they are zero.           *)
Setup ==
  /\ wifi' = FALSE /\ connected' = FALSE
  /\ ackMessages' = <<>> /\ age' = <<>>
  /\ period' = Least(Periods) /\ motionActivityDelay' = Least(ActivityTimes)
  /\ motionState' = FALSE /\ command' = FALSE /\ relay' = FALSE
  /\ millis' = 0 /\ currentTime' = 0
  /\ reportStart' = 0 /\ activityStart' = 0
  /\ displayState' = "Temperature" /\ ShowState("Hello")
  /\ quiet' = LongestActivity /\ sensed' = "nothing" /\ silence' = 0 /\ renewed' = FALSE

RestartText ==
  /\ pc = "network" /\ wifi /\ connected
  /\ Proceed("network")
  /\ Setup
-----------------------------------------------------------------------------
(* Mutant: the clock has not moved on, so it has wrapped around.            *)
ElapsedOrWrapped(now, t) == now > t => now - t >= MaxAckTimeout

(* Mutant: the sum is compared, and is never reached near the wrap.         *)
ElapsedWithoutWrap(now, t) == now >= t + MaxAckTimeout

(* loop(): the message has waited for its acknowledgement for too long.     *)
Elapsed(now, t) ==
  IF now > t THEN now - t >= MaxAckTimeout
             ELSE (MaxMillis - t) + now > MaxAckTimeout

AckElapsed == \E id \in DOMAIN ackMessages : Elapsed(millis, ackMessages[id])

(* auto currentTime = millis().                                             *)
ReadClock ==
  /\ pc = "check"
  /\ currentTime' = millis
  /\ quiet' = IF build = "motion_relay"
                THEN AtMost(LongestActivity, quiet + Since(millis, currentTime)) ELSE quiet
  /\ UNCHANGED <<millis, settingVars, motionState, command, relay, sensed, displayState, silence>>

ReportWrapped == build \notin Thermometers /\ millis <= reportStart
ActivityWrapped == build = "motion_relay" /\ millis <= activityStart

(* Mutant: the loop is left, and the start times stay as they are.          *)
StartTimesKept ==
  /\ Proceed(IF ReportWrapped \/ ActivityWrapped THEN "network" ELSE "report")
  /\ UNCHANGED <<reportStart, activityStart, renewed>>

(* millis() has gone over 0, or did not move since the time was taken.  The *)
(* part for a thermometer is compiled for HAS_THERMOMTER, that is never.   *)
StartTimesChecked ==
  IF ReportWrapped
  THEN /\ reportStart' = millis
       /\ renewed' = (renewed \/ millis # reportStart)
       /\ Proceed("network")
       /\ UNCHANGED activityStart
  ELSE IF ActivityWrapped
  THEN /\ activityStart' = millis
       /\ Proceed("network")
       /\ UNCHANGED <<reportStart, renewed>>
  ELSE /\ Proceed("report")
       /\ UNCHANGED <<reportStart, activityStart, renewed>>

CheckTimes ==
  /\ ReadClock
  /\ ~AckElapsed
  /\ StartTimesChecked
  /\ UNCHANGED <<linkVars, shown>>

(* ackMessages.clear() and reconnectWiFi().                                 *)
ForgetMessages == ackMessages' = <<>> /\ age' = <<>>

ReconnectWiFi ==
  /\ ReadClock
  /\ AckElapsed
  /\ ForgetMessages
  /\ connected' = FALSE
  /\ wifi' = TRUE
  /\ ShowState("Connected")
  /\ StartTimesChecked

(* The web-socket is not begun anew and has yet to notice.                  *)
ReconnectWiFiFails ==
  /\ ReadClock
  /\ AckElapsed
  /\ ForgetMessages
  /\ wifi' = FALSE
  /\ ShowState("Error")
  /\ Proceed("network")
  /\ UNCHANGED <<connected, reportStart, activityStart, renewed>>
-----------------------------------------------------------------------------
(* Mutant: the sum is compared, and is never reached near the wrap.         *)
ReportDueWithoutWrap == currentTime >= reportStart + period

(***************************************************************************)
(* A thermometer compares as int, a relay as unsigned long; both begin     *)
(* early by the time that measuring takes.                                 *)
(***************************************************************************)
ReportDue ==
  LET elapsed == Since(currentTime, reportStart)
  IN  CASE build \in Thermometers -> Signed(elapsed) >= period - MeasureTime
        [] build \in Relays -> elapsed >= Since(period, MeasureTime)
        [] OTHER -> elapsed >= period

(* The periodic report.                                                     *)
Report ==
  /\ pc = "report"
  /\ IF ReportDue
     THEN /\ GenerateMessageId
          /\ reportStart' = currentTime
          /\ silence' = Since(millis, currentTime)
          /\ renewed' = FALSE
     ELSE UNCHANGED <<ackMessages, age, reportStart, silence, renewed>>
  /\ Proceed(IF OnlyReports THEN "network" ELSE "activity")
  /\ UNCHANGED <<millis, currentTime, wifi, connected, settingVars, lightVars, displayVars, activityStart>>

InActivity(of) ==
  /\ pc = "activity" /\ build = of
  /\ Proceed("network")
  /\ UNCHANGED <<millis, currentTime, wifi, connected, settingVars, reportStart, silence, renewed>>

(* Mutant: as above.                                                        *)
DisplayDueWithoutWrap == currentTime >= activityStart + DisplayDelay

DisplayDue == Signed(Since(currentTime, activityStart)) >= DisplayDelay

(* A display without the date and the time, which nobody sends, shows the   *)
(* temperature in their turns too.                                         *)
SwitchDisplay ==
  /\ InActivity("thermometer_with_display")
  /\ IF DisplayDue
     THEN /\ ShowState("Temperature")
          /\ displayState' =
               [Temperature |-> "Time", Time |-> "Date", Date |-> "Temperature"][displayState]
          /\ activityStart' = currentTime
     ELSE UNCHANGED <<displayVars, activityStart>>
  /\ UNCHANGED <<ackMessages, age, lightVars>>

(* A relay that is a thermostat, when it has no connection.                 *)
CheckTemperature ==
  /\ InActivity("relay_as_thermostat")
  /\ IF connected THEN UNCHANGED <<relay, sensed>> ELSE ThermostatActivity
  /\ UNCHANGED <<ackMessages, age, motionState, command, quiet, displayVars, activityStart>>

(* Mutant: the time of the motion is taken when it begins only.             *)
MotionBegins ==
  /\ InActivity("motion_relay")
  /\ motionState' = TRUE
  /\ quiet' = 0
  /\ IF motionState THEN UNCHANGED <<relay, ackMessages, age, activityStart>>
     ELSE SetRelayState(command, TRUE) /\ GenerateMessageId /\ activityStart' = currentTime
  /\ UNCHANGED <<command, sensed, displayVars>>

(* motionHelper.IsMotion().                                                 *)
Motion ==
  /\ InActivity("motion_relay")
  /\ motionState' = TRUE
  /\ activityStart' = currentTime
  /\ quiet' = 0
  /\ IF motionState THEN UNCHANGED <<relay, ackMessages, age>>
                    ELSE SetRelayState(command, TRUE) /\ GenerateMessageId
  /\ UNCHANGED <<command, sensed, displayVars>>

MotionOver ==
  IF motionState /\ Since(currentTime, activityStart) >= motionActivityDelay
  THEN motionState' = FALSE /\ SetRelayState(command, FALSE) /\ GenerateMessageId
  ELSE UNCHANGED <<motionState, relay, ackMessages, age>>

(* Mutant: the time of the last motion moves on without motion.             *)
NoMotionMovesOn ==
  /\ InActivity("motion_relay")
  /\ MotionOver
  /\ activityStart' = currentTime
  /\ UNCHANGED <<command, quiet, sensed, displayVars>>

NoMotion ==
  /\ InActivity("motion_relay")
  /\ MotionOver
  /\ UNCHANGED <<activityStart, command, quiet, sensed, displayVars>>

(* The network goes away.                                                   *)
LoseWiFi ==
  /\ wifi
  /\ wifi' = FALSE
  /\ UNCHANGED <<build, pc, clockVars, connected, ackMessages, age, settingVars, lightVars,
                 displayVars, timerVars>>
-----------------------------------------------------------------------------
FirmwareInit ==
  /\ build \in Builds
  /\ pc = "network" /\ pause = 0
  /\ wifi = FALSE /\ connected = FALSE
  /\ ackMessages = <<>> /\ age = <<>>
  /\ period = Least(Periods) /\ motionActivityDelay = Least(ActivityTimes)
  /\ motionState = FALSE /\ command = FALSE /\ relay = FALSE
  /\ millis = 0 /\ currentTime = 0
  /\ reportStart = 0 /\ activityStart = 0
  /\ displayState = "Temperature" /\ shown = "Hello"
  /\ quiet = LongestActivity /\ sensed = "nothing" /\ silence = 0 /\ renewed = FALSE

Texts == AcknowledgeText \/ StateText \/ SettingsText \/ RestartText

LoopStep ==
  \/ ConnectWiFi \/ ConnectWiFiFails \/ NoEvent \/ WebSocketChanges \/ Texts
  \/ CheckTimes \/ ReconnectWiFi \/ ReconnectWiFiFails
  \/ Report \/ SwitchDisplay \/ CheckTemperature \/ Motion \/ NoMotion

FirmwareNext == Tick \/ LoopStep \/ LoseWiFi

FirmwareSpec == FirmwareInit /\ [][FirmwareNext]_firmwareVars

(* The processor runs and time passes.                                      *)
FairFirmwareSpec ==
  FirmwareSpec /\ WF_firmwareVars(Tick) /\ WF_firmwareVars(LoopStep)
-----------------------------------------------------------------------------
(***************************************************************************)
(* A relay is as whoever may switch it last decided.  The motion relay is  *)
(* on exactly if it was commanded or motion keeps it on, whatever order    *)
(* commands, motion and its end come in.  The others obey the last command *)
(* or, when a thermostat lost its server after it, the last temperature    *)
(* outside the limits; a broken sensor never leaves the heater on          *)
(* (UniversalDevice.ino:127-132, 148-162, 285-303 and 495-520).            *)
(***************************************************************************)
RelayFollows ==
  /\ build = "motion_relay" => (relay <=> command \/ motionState)
  /\ build # "motion_relay" =>
       (relay <=> \/ sensed = "nothing" /\ command
                  \/ sensed = "below")

(***************************************************************************)
(* The loop ends the motion only when none was seen for the whole activity *)
(* time, also across a wrap of the clock and a change of the settings      *)
(* (UniversalDevice.ino:513-516).                                          *)
(***************************************************************************)
LightStaysOn ==
  [][pc = "activity" /\ motionState /\ ~motionState' => quiet >= motionActivityDelay]_firmwareVars

(* The loop gives up waiting for acknowledgements and reconnects.           *)
GivesUp == pc = "check" /\ ackMessages # <<>> /\ ackMessages' = <<>>

(***************************************************************************)
(* The Wi-Fi is reconnected only for a message that has waited the whole   *)
(* timeout, or one that was sent in the very millisecond of the test.      *)
(***************************************************************************)
NoEarlyReconnect ==
  [][GivesUp => \E id \in DOMAIN age :
       age[id] >= MaxAckTimeout \/ ackMessages[id] = millis]_firmwareVars

(***************************************************************************)
(* What MAX_ACK_TIMEOUT says: the Wi-Fi is reconnected only for a message  *)
(* that has waited that long (UniversalDevice.ino:399-408).                *)
(***************************************************************************)
ReconnectsOnlyAfterTimeout ==
  [][GivesUp => \E id \in DOMAIN age : age[id] >= MaxAckTimeout]_firmwareVars

(***************************************************************************)
(* A build that has Wi-Fi reports in time: at no point of its loop, nor in *)
(* turns that are left because a start time lies ahead, is the last report *)
(* a period and two turns of the loop ago, or twice that when a wrap of    *)
(* the clock made the period begin anew since (UniversalDevice.ino:416-453, *)
(* 459, 490, 501 and 524).  The period is the longest setting, for it may  *)
(* change in between.  Left out is the first report after a time without   *)
(* Wi-Fi: when that does not fit an int, a thermometer is silent for half  *)
(* a turn of the clock.                                                    *)
(***************************************************************************)
ReportsInTime ==
  wifi /\ silence # Unknown => silence < IF renewed THEN 2 * InTime ELSE InTime

(***************************************************************************)
(* A report is passed over only when the last one is less than the period  *)
(* of this very moment ago, give or take one turn of the loop; when the    *)
(* period has begun anew at a wrap of the clock, what went before counts   *)
(* too.  So a period that is shortened is obeyed in the same turn.         *)
(***************************************************************************)
NoLongSilence ==
  [][pc = "report" /\ pc' # "report" /\ reportStart' = reportStart
       => silence < period + MaxPause + IF renewed THEN InTime ELSE 0]_firmwareVars

(***************************************************************************)
(* Once the Wi-Fi stays up, no message stays outstanding for ever: its     *)
(* acknowledgement comes or the loop gives up, also when the clock wraps   *)
(* while it waits (UniversalDevice.ino:402-408).                           *)
(***************************************************************************)
EveryMessageSettled ==
  <>[]wifi => \A id \in UNION {Ids[b] : b \in Builds} : []<>(id \notin DOMAIN ackMessages)

(***************************************************************************)
(* Once the Wi-Fi stays up and no motion is seen any more, the motion ends *)
(* (UniversalDevice.ino:438-445 and 515-519).  Without Wi-Fi it does not:  *)
(* the loop starts over before it comes to the sensor.                     *)
(***************************************************************************)
MotionEnds == <>[]wifi /\ <>[](quiet # 0) => []<>(~motionState)

(***************************************************************************)
(* Once the Wi-Fi stays up, a display does not go on showing the state of  *)
(* the connection but comes back to the temperature, whatever time it lost *)
(* and however often the loop reconnects (UniversalDevice.ino:172-190 and  *)
(* 469-485).                                                               *)
(***************************************************************************)
DisplayRecovers == <>[]wifi => []<>(HasDisplay => shown = "Temperature")
=============================================================================
