-------------------------------- MODULE Rules ---------------------------------
(***************************************************************************)
(* The rules the server follows by itself: TimerService's thread, which    *)
(* polls the clock and sends three messages when the minute has changed,   *)
(* the reports that crow's workers handle, and EventsProcessor, which      *)
(* takes a snapshot of the rules (events) of a message's provider and      *)
(* stores the commands of those that apply.                                *)
(*                                                                         *)
(* A day has Hours hours of HourLength minutes.  What happens to a stored  *)
(* command is modelled in CommandDelivery, what happens to a report's      *)
(* value in Measurements.                                                  *)
(***************************************************************************)
EXTENDS Integers, Sequences

CONSTANTS
  Order,        \* the ids of the rules in the order of EventsController's cache
  Rule,         \* each rule: kind, provider, receiver and what it compares with
  Receivers,    \* the devices that take commands
  Workers,      \* threads of crow that handle reports
  Timer,        \* the thread of TimerService
  Providers,    \* the devices that report, by the subject of their reports
  Values,       \* what they report
  Hours, HourLength,
  Switched,     \* bound: the rules that clients switch
  SunTimes,     \* sunrise and sunset of a day, in half minutes
  MaxTroubles   \* bound: minutes that end within a round, and restarts

Rules == {Order[i] : i \in DOMAIN Order}
Threads == Workers \cup {Timer}
Minutes == 0..(Hours * HourLength - 1)
InvalidTemperature == -127
Commands == {"on", "off"}

Nobody == "nobody"

(* A day has at least two minutes, and no round of the timer lasts a day.   *)
(* The editors of rules of the clock fix their provider.                    *)
ASSUME RulesAssumption ==
  /\ Timer \notin Workers \cup Rules
  /\ Nobody \notin DOMAIN Providers
  /\ Order \in Seq(Rules) /\ \A i, j \in DOMAIN Order : Order[i] = Order[j] => i = j
  /\ Switched \subseteq Rules
  /\ Hours \in Nat \ {0} /\ HourLength \in Nat \ {0} /\ Hours * HourLength > 1
  /\ MaxTroubles \in Nat /\ MaxTroubles < Hours * HourLength
  /\ \A r \in Rules :
       /\ Rule[r].kind \in {"timer", "sunrise", "sunset", "thermometer", "relay", "thermostat"}
       /\ Rule[r].kind = "timer" <=> Rule[r].provider = "TimerEvent"
       /\ Rule[r].kind = "sunrise" <=> Rule[r].provider = "SunriseEvent"
       /\ Rule[r].kind = "sunset" <=> Rule[r].provider = "SunsetEvent"
       /\ Rule[r].receiver \in Receivers
       /\ Rule[r].kind = "thermostat" \/ Rule[r].command \in Commands
  /\ \A s \in SunTimes : {s.sunrise, s.sunset} \subseteq 0..(2 * Hours * HourLength - 1)

VARIABLES
  minute,     \* the minute of the day
  startValue, \* the minute the timer thread compares with
  current,    \* the minute it has read, of the round it is in
  calls,      \* the messages TimerFunction has yet to send
  sends,      \* the calls of SendCommand a thread has yet to make for its message
  checked,    \* the thread has found another command stored
  handles,    \* the provider of the message a worker handles
  active,     \* Event::_active of each rule
  command,    \* CommandsController: the command of each receiver
  sun,        \* when the sun rises and sets
  troubles,   \* how many troubles there were
  disturbed,  \* history: receivers somebody else commanded in this minute
  wanted      \* history: what the last report told each thermostat to do

timerVars == <<startValue, current, calls>>
messageVars == <<sends, checked, handles>>
historyVars == <<disturbed, wanted>>
rulesVars ==
  <<minute, timerVars, messageVars, active, command, sun, troubles, historyVars>>

Awake == calls # <<>> \/ sends[Timer] # {} \/ current # startValue

(***************************************************************************)
(* The subjects for which Platform::CreateProcessors makes an              *)
(* EventsProcessor.  A universal device's report is stored, and no rule    *)
(* ever sees it.                                                           *)
(***************************************************************************)
RulesSee(subject) ==
  subject \in {"TimerEvent", "SunriseEvent", "SunsetEvent", "ThermometerCurrentValue",
               "RelayCurrentState", "MotionRelayCurrentState"}

(* EventsController::GetByProvider: a copy of the active rules.             *)
GetByProvider(provider) == {r \in Rules : Rule[r].provider = provider /\ active[r]}

Send(r, c) == [rule |-> r, receiver |-> Rule[r].receiver, command |-> c]

Sends(applies, r, c) == IF applies THEN {Send(r, c)} ELSE {}

(* GetHourMinute.                                                           *)
HourMinute(m) == <<m \div HourLength, m % HourLength>>

(* getSunriseSunsetTime: the hour is floored, then what is left is rounded, *)
(* and may come out as a whole hour.                                       *)
SunTime(half) ==
  LET hour == half \div (2 * HourLength)
  IN  <<hour, (half - hour * 2 * HourLength + 1) \div 2>>

ProcessTimerEvent(r, m) == Sends(Rule[r].at = m.minute, r, Rule[r].command)

(* UpdateSunriseSunsetTime computes the times of the day anew each time.    *)
ProcessSunEvent(r, m, half) == Sends(HourMinute(m.minute) = SunTime(half), r, Rule[r].command)

ProcessThermometerEvent(r, m) ==
  Sends(/\ m.value # InvalidTemperature
        /\ IF Rule[r].lower THEN m.value <= Rule[r].temperature ELSE m.value >= Rule[r].temperature,
        r, Rule[r].command)

ProcessRelayEvent(r, m) == Sends(m.value = Rule[r].state, r, Rule[r].command)

Cold(r, value) == value <= Rule[r].temperature - Rule[r].delta
Hot(r, value) == value >= Rule[r].temperature + Rule[r].delta

(* Mutant: the delta widens both sides.                                     *)
ProcessThermostatEventWide(r, m) ==
  IF m.value = InvalidTemperature THEN {}
  ELSE Sends(m.value <= Rule[r].temperature + Rule[r].delta, r, "on")
         \cup Sends(m.value >= Rule[r].temperature - Rule[r].delta, r, "off")

(* Both may hold when there is no delta.                                    *)
ProcessThermostatEvent(r, m) ==
  IF m.value = InvalidTemperature THEN {}
  ELSE Sends(Cold(r, m.value), r, "on") \cup Sends(Hot(r, m.value), r, "off")

SendsOf(r, m) ==
  CASE Rule[r].kind = "timer" -> ProcessTimerEvent(r, m)
    [] Rule[r].kind = "sunrise" -> ProcessSunEvent(r, m, sun.sunrise)
    [] Rule[r].kind = "sunset" -> ProcessSunEvent(r, m, sun.sunset)
    [] Rule[r].kind = "thermometer" -> ProcessThermometerEvent(r, m)
    [] Rule[r].kind = "relay" -> ProcessRelayEvent(r, m)
    [] Rule[r].kind = "thermostat" -> ProcessThermostatEvent(r, m)

(* EventsProcessor::ProcessMessage up to its calls of SendCommand.  The     *)
(* copies of the rules and the message are the thread's own.               *)
ProcessMessage(m) == UNION {SendsOf(r, m) : r \in GetByProvider(m.provider)}

(* The loop takes the rules in the order of the cache, and a thermostat's   *)
(* "on" before its "off".                                                  *)
Turn(s) ==
  2 * (CHOOSE i \in DOMAIN Order : Order[i] = s.rule) + (IF s.command = "off" THEN 1 ELSE 0)

IsNext(t, s) == s \in sends[t] /\ \A x \in sends[t] : Turn(s) <= Turn(x)
------------------------------------------------------------------------------
(* Mutant: a minute only counts when it is later than the last one.         *)
PollLater ==
  /\ ~Awake
  /\ minute > startValue
  /\ current' = minute
  /\ calls' = <<"TimerEvent", "SunriseEvent", "SunsetEvent">>
  /\ UNCHANGED <<minute, startValue, messageVars, active, command, sun, troubles, historyVars>>

(* TimerThreadFunction finds the minute changed and calls TimerFunction.    *)
Poll ==
  /\ ~Awake
  /\ minute # startValue
  /\ current' = minute
  /\ calls' = <<"TimerEvent", "SunriseEvent", "SunsetEvent">>
  /\ UNCHANGED <<minute, startValue, messageVars, active, command, sun, troubles, historyVars>>

(* CallProcessorsNoResult; the clock is read anew for each message.         *)
TimerMessage ==
  /\ calls # <<>>
  /\ sends[Timer] = {}
  /\ calls' = Tail(calls)
  /\ sends' = [sends EXCEPT ![Timer] =
                 IF RulesSee(Head(calls))
                   THEN ProcessMessage([provider |-> Head(calls), minute |-> minute])
                   ELSE {}]
  /\ UNCHANGED <<minute, startValue, current, checked, handles, active, command, sun,
                 troubles, historyVars>>

(* Mutant: the clock is read again after the round.                         *)
RoundDoneRereads ==
  /\ calls = <<>> /\ sends[Timer] = {} /\ current # startValue
  /\ startValue' = minute
  /\ current' = minute
  /\ UNCHANGED <<minute, calls, messageVars, active, command, sun, troubles, historyVars>>

RoundDone ==
  /\ calls = <<>> /\ sends[Timer] = {} /\ current # startValue
  /\ startValue' = current
  /\ UNCHANGED <<minute, current, calls, messageVars, active, command, sun, troubles, historyVars>>

(***************************************************************************)
(* A device reports and a worker takes the rules' copies.  Two reports of  *)
(* one device that are handled at the same time promise nothing.           *)
(***************************************************************************)
Report(w) ==
  \E p \in DOMAIN Providers : \E v \in Values[Providers[p]] :
    /\ handles[w] = Nobody
    /\ RulesSee(Providers[p])
    /\ handles' = [handles EXCEPT ![w] = p]
    /\ sends' = [sends EXCEPT ![w] = ProcessMessage([provider |-> p, value |-> v])]
    /\ wanted' = [r \in Rules |->
         IF Rule[r].kind # "thermostat" \/ Rule[r].provider # p \/ ~active[r]
              \/ v = InvalidTemperature \/ ~(Cold(r, v) \/ Hot(r, v))
           THEN wanted[r]
         ELSE IF \E other \in Workers : handles[other] = p THEN "any"
         ELSE IF Hot(r, v) THEN "off" ELSE "on"]
    /\ UNCHANGED <<minute, timerVars, checked, active, command, sun, troubles, disturbed>>

Reported(w) ==
  /\ handles[w] # Nobody
  /\ sends[w] = {}
  /\ handles' = [handles EXCEPT ![w] = Nobody]
  /\ UNCHANGED <<minute, timerVars, sends, checked, active, command, sun, troubles, historyVars>>
------------------------------------------------------------------------------
(* SendCommand does not store what is stored.                               *)
CheckCommand(t) ==
  /\ ~checked[t]
  /\ \E s \in sends[t] :
       /\ IsNext(t, s)
       /\ IF command[s.receiver] = s.command
            THEN sends' = [sends EXCEPT ![t] = @ \ {s}] /\ UNCHANGED checked
            ELSE checked' = [checked EXCEPT ![t] = TRUE] /\ UNCHANGED sends
  /\ UNCHANGED <<minute, timerVars, handles, active, command, sun, troubles, historyVars>>

(* What a store, by rule or client, means for the promises about others.    *)
Commanded(d, by) ==
  /\ disturbed' = IF by = {Timer} THEN disturbed ELSE disturbed \cup {d}
  /\ wanted' = [r \in Rules |->
       IF Rule[r].receiver = d /\ r \notin by THEN "any" ELSE wanted[r]]

(* AddOrUpdate, which may fail.                                             *)
StoreCommand(t) ==
  /\ checked[t]
  /\ checked' = [checked EXCEPT ![t] = FALSE]
  /\ \E s \in sends[t] :
       /\ IsNext(t, s)
       /\ sends' = [sends EXCEPT ![t] = @ \ {s}]
       /\ \/ /\ command' = [command EXCEPT ![s.receiver] = s.command]
             /\ Commanded(s.receiver, IF t = Timer THEN {Timer} ELSE {s.rule})
          \/ UNCHANGED command /\ Commanded(s.receiver, {})
  /\ UNCHANGED <<minute, timerVars, handles, active, sun, troubles>>

(* A client's command, and a client (or a scenario) that switches a rule.   *)
SetCommands(d, c) ==
  /\ command' = [command EXCEPT ![d] = c]
  /\ Commanded(d, {})
  /\ UNCHANGED <<minute, timerVars, messageVars, active, sun, troubles>>

SetActivity(r) ==
  /\ active' = [active EXCEPT ![r] = ~@]
  /\ Commanded(Rule[r].receiver, {})
  /\ UNCHANGED <<minute, timerVars, messageVars, command, sun, troubles>>

(***************************************************************************)
(* The next minute.  The thread that sleeps polls five times a second; a   *)
(* round lasts beyond its minute only as a trouble.                        *)
(***************************************************************************)
Tick ==
  /\ \/ ~Awake /\ startValue = minute /\ UNCHANGED troubles
     \/ Awake /\ troubles < MaxTroubles /\ troubles' = troubles + 1
  /\ minute' = (minute + 1) % (Hours * HourLength)
  /\ disturbed' = {}
  /\ UNCHANGED <<timerVars, messageVars, active, command, sun, wanted>>

(* A new process: the minute it starts in has no round of its own.          *)
Restart ==
  /\ troubles < MaxTroubles
  /\ troubles' = troubles + 1
  /\ startValue' = minute /\ current' = minute
  /\ calls' = <<>>
  /\ sends' = [t \in Threads |-> {}]
  /\ checked' = [t \in Threads |-> FALSE]
  /\ handles' = [w \in Workers |-> Nobody]
  /\ disturbed' = Receivers
  /\ wanted' = [r \in Rules |-> "any"]
  /\ UNCHANGED <<minute, active, command, sun>>

Init ==
  /\ minute = 0 /\ startValue = 0 /\ current = 0
  /\ calls = <<>>
  /\ sends = [t \in Threads |-> {}]
  /\ checked = [t \in Threads |-> FALSE]
  /\ handles = [w \in Workers |-> Nobody]
  /\ active = [r \in Rules |-> TRUE]
  /\ command = [d \in Receivers |-> "off"]
  /\ sun \in SunTimes
  /\ troubles = 0
  /\ disturbed = Receivers
  /\ wanted = [r \in Rules |-> "any"]

TimerStep == Poll \/ TimerMessage \/ CheckCommand(Timer) \/ StoreCommand(Timer) \/ RoundDone

Next ==
  \/ TimerStep
  \/ \E w \in Workers : Report(w) \/ Reported(w) \/ CheckCommand(w) \/ StoreCommand(w)
  \/ \E d \in Receivers, c \in Commands : SetCommands(d, c)
  \/ \E r \in Switched : SetActivity(r)
  \/ Tick
  \/ Restart

(* The thread of the timer runs, and time passes.                           *)
FairSpec == Init /\ [][Next]_rulesVars /\ WF_rulesVars(TimerStep) /\ WF_rulesVars(Tick)
------------------------------------------------------------------------------
(* The active rules of this minute for receiver d.                          *)
IsDue(r) ==
  /\ active[r]
  /\ \/ Rule[r].kind = "timer" /\ Rule[r].at = minute
     \/ Rule[r].kind = "sunrise" /\ SunTime(sun.sunrise) = HourMinute(minute)
     \/ Rule[r].kind = "sunset" /\ SunTime(sun.sunset) = HourMinute(minute)

(***************************************************************************)
(* When the timer's thread has nothing to do, every receiver of a rule of  *)
(* this minute has the command of such a rule, whether the round of the    *)
(* minute before ended in time or in this minute, and with the rules of    *)
(* three messages mixed; unless a client, a report or a failing store came *)
(* between in this minute, or the server started in it.                    *)
(***************************************************************************)
DueCommandStored ==
  ~Awake /\ startValue = minute =>
    \A d \in Receivers \ disturbed :
      LET due == {r \in Rules : IsDue(r) /\ Rule[r].receiver = d}
      IN  due # {} => \E r \in due : command[d] = Rule[r].command

(***************************************************************************)
(* A thermostat has hysteresis: whenever no report of its thermometer is   *)
(* being handled, its receiver has what the last report outside the delta  *)
(* asked for, unless somebody else commanded it since, a store failed, the *)
(* rule was switched, the server restarted, or reports overlapped.         *)
(***************************************************************************)
ThermostatFollows ==
  \A r \in Rules :
    wanted[r] # "any" /\ (\A w \in Workers : handles[w] # Rule[r].provider)
      => command[Rule[r].receiver] = wanted[r]

(* The rule's condition holds and its command is compared or stored.        *)
Fires(r) == \E s \in sends[Timer] : IsNext(Timer, s) /\ s.rule = r

(***************************************************************************)
(* A rule of the clock that stays switched on fires again and again, day   *)
(* after day, through slow rounds and restarts.  The sunrise (or sunset)   *)
(* whose minute is rounded up to a whole hour is the exception: its rules  *)
(* never fire that day.                                                    *)
(***************************************************************************)
RoundedAway(r) ==
  \/ Rule[r].kind = "sunrise" /\ SunTime(sun.sunrise)[2] = HourLength
  \/ Rule[r].kind = "sunset" /\ SunTime(sun.sunset)[2] = HourLength

ActiveRuleFires ==
  \A r \in Rules :
    Rule[r].kind \in {"timer", "sunrise", "sunset"} =>
      ([]<>Fires(r) \/ []<>(~active[r]) \/ <>[]RoundedAway(r))
==============================================================================
