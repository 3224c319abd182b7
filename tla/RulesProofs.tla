----------------------------- MODULE RulesProofs ------------------------------
(***************************************************************************)
(* Proofs about Rules, for any rules, receivers, workers, lengths of a day *)
(* and numbers of troubles: the types, and the two promises of safety.     *)
(* That a rule fires again and again is liveness, which only TLC checks.   *)
(***************************************************************************)
EXTENDS Rules, TLAPS

DayLength == Hours * HourLength

(* What the timer's thread has left of its three messages.                  *)
ClockCalls ==
  {<<>>, <<"SunsetEvent">>, <<"SunriseEvent", "SunsetEvent">>,
   <<"TimerEvent", "SunriseEvent", "SunsetEvent">>}

AllSends == {Send(r, c) : r \in Rules, c \in Commands}

RulesTypeOK ==
  /\ minute \in Minutes /\ startValue \in Minutes /\ current \in Minutes
  /\ calls \in ClockCalls
  /\ sends \in [Threads -> SUBSET AllSends]
  /\ checked \in [Threads -> BOOLEAN]
  /\ handles \in [Workers -> DOMAIN Providers \cup {Nobody}]
  /\ active \in [Rules -> BOOLEAN]
  /\ command \in [Receivers -> Commands]
  /\ sun \in SunTimes
  /\ troubles \in 0..MaxTroubles
  /\ disturbed \in SUBSET Receivers
  /\ wanted \in [Rules -> Commands \cup {"any"}]
------------------------------------------------------------------------------
LEMMA DayLengthType == DayLength \in Nat /\ DayLength > 1 /\ Minutes = 0..(DayLength - 1)
BY RulesAssumption DEF DayLength, Minutes

(* The minute after the last one of a day is the first one.                 *)
LEMMA NextMinute ==
  ASSUME NEW m \in Minutes
  PROVE  /\ (m + 1) % (Hours * HourLength) = IF m = DayLength - 1 THEN 0 ELSE m + 1
         /\ (m + 1) % (Hours * HourLength) \in Minutes
<1> DEFINE n == DayLength
<1>1. n \in Nat /\ n > 1 /\ m \in 0..(n - 1) /\ Minutes = 0..(n - 1) /\ Hours * HourLength = n
  BY DayLengthType DEF DayLength
<1> HIDE DEF n
<1>2. CASE m = n - 1
  <2>1. m + 1 = n
    BY <1>1, <1>2
  <2>2. n % n = 0
    BY <1>1
  <2> QED
    BY <1>1, <1>2, <2>1, <2>2 DEF n
<1>3. CASE m # n - 1
  <2>1. m + 1 \in 0..(n - 1)
    BY <1>1, <1>3
  <2>2. (m + 1) % n = m + 1
    BY <1>1, <2>1
  <2> QED
    BY <1>1, <1>3, <2>1, <2>2 DEF n
<1> QED
  BY <1>2, <1>3

LEMMA RuleKinds ==
  ASSUME NEW r \in Rules
  PROVE  /\ Rule[r].kind \in {"timer", "sunrise", "sunset", "thermometer", "relay", "thermostat"}
         /\ Rule[r].kind = "timer" <=> Rule[r].provider = "TimerEvent"
         /\ Rule[r].kind = "sunrise" <=> Rule[r].provider = "SunriseEvent"
         /\ Rule[r].kind = "sunset" <=> Rule[r].provider = "SunsetEvent"
         /\ Rule[r].receiver \in Receivers
         /\ Rule[r].kind = "thermostat" \/ Rule[r].command \in Commands
BY RulesAssumption

(* Whatever a message says, a rule commands its own receiver.               *)
LEMMA SendsOfItself ==
  ASSUME NEW r \in Rules, NEW m, NEW s \in SendsOf(r, m)
  PROVE  \E c \in Commands : s = Send(r, c)
<1>1. CASE Rule[r].kind = "timer"
  BY <1>1, RuleKinds DEF SendsOf, ProcessTimerEvent, Sends
<1>2. CASE Rule[r].kind = "sunrise" \/ Rule[r].kind = "sunset"
  BY <1>2, RuleKinds DEF SendsOf, ProcessSunEvent, Sends
<1>3. CASE Rule[r].kind = "thermometer"
  BY <1>3, RuleKinds DEF SendsOf, ProcessThermometerEvent, Sends
<1>4. CASE Rule[r].kind = "relay"
  BY <1>4, RuleKinds DEF SendsOf, ProcessRelayEvent, Sends
<1>5. CASE Rule[r].kind = "thermostat"
  BY <1>5 DEF SendsOf, ProcessThermostatEvent, Sends, Commands
<1> QED
  BY <1>1, <1>2, <1>3, <1>4, <1>5, RuleKinds

(* The sends of a message are those of its provider's active rules.         *)
LEMMA MessageSends ==
  ASSUME NEW m, NEW s
  PROVE  s \in ProcessMessage(m) <=>
           \E r \in Rules : Rule[r].provider = m.provider /\ active[r] /\ s \in SendsOf(r, m)
BY DEF ProcessMessage, GetByProvider

LEMMA MessageSendsType == ASSUME NEW m PROVE ProcessMessage(m) \subseteq AllSends
BY MessageSends, SendsOfItself DEF AllSends

LEMMA SendFields ==
  ASSUME NEW s \in AllSends
  PROVE  /\ s.rule \in Rules /\ s.receiver = Rule[s.rule].receiver /\ s.receiver \in Receivers
         /\ s.command \in Commands
         /\ s = Send(s.rule, s.command)
<1>1. PICK r \in Rules, c \in Commands : s = Send(r, c)
  BY DEF AllSends
<1> QED
  BY <1>1, RuleKinds DEF Send

LEMMA TurnType ==
  ASSUME NEW s \in AllSends
  PROVE  Turn(s) \in Int
<1>1. \E i \in DOMAIN Order : Order[i] = s.rule
  BY SendFields DEF Rules
<1>2. DOMAIN Order \subseteq Int
  BY RulesAssumption
<1> DEFINE turn == CHOOSE i \in DOMAIN Order : Order[i] = s.rule
<1>3. turn \in Int
  BY <1>1, <1>2
<1> HIDE DEF turn
<1> QED
  BY <1>3 DEF Turn, turn

(* Two sends of a rule that have the same turn are the same.                *)
LEMMA TurnsDiffer ==
  ASSUME NEW s \in AllSends, NEW x \in AllSends, s.rule = x.rule, Turn(s) = Turn(x)
  PROVE  s = x
<1>1. s.command \in Commands /\ x.command \in Commands
  BY SendFields
<1> DEFINE turn == CHOOSE i \in DOMAIN Order : Order[i] = s.rule
<1>2. /\ Turn(s) = 2 * turn + (IF s.command = "off" THEN 1 ELSE 0)
      /\ Turn(x) = 2 * turn + (IF x.command = "off" THEN 1 ELSE 0)
  BY DEF Turn
<1>3. turn \in Int
  <2>1. \E i \in DOMAIN Order : Order[i] = s.rule
    BY SendFields DEF Rules
  <2>2. DOMAIN Order \subseteq Int
    BY RulesAssumption
  <2> QED
    BY <2>1, <2>2
<1> HIDE DEF turn
<1>4. 2 * turn + (IF s.command = "off" THEN 1 ELSE 0)
        = 2 * turn + (IF x.command = "off" THEN 1 ELSE 0)
  BY <1>2
<1>5. s.command = "off" <=> x.command = "off"
  BY <1>3, <1>4
<1>6. s.command = x.command
  BY <1>1, <1>5 DEF Commands
<1> QED
  BY <1>6, SendFields

(* A thermostat that sends both sends its "off" last.                       *)
LEMMA OnBeforeOff ==
  ASSUME NEW r \in Rules
  PROVE  /\ \A c \in Commands : Send(r, c).command = c /\ Send(r, c).rule = r
         /\ \A c \in Commands : Turn(Send(r, c)) <= Turn(Send(r, c))
         /\ Turn(Send(r, "on")) <= Turn(Send(r, "off"))
<1> DEFINE turn == CHOOSE i \in DOMAIN Order : Order[i] = r
<1>1. turn \in Int
  <2>1. \E i \in DOMAIN Order : Order[i] = r
    BY DEF Rules
  <2>2. DOMAIN Order \subseteq Int
    BY RulesAssumption
  <2> QED
    BY <2>1, <2>2
<1>2. ASSUME NEW c \in Commands
      PROVE  /\ Turn(Send(r, c)) = 2 * turn + (IF c = "off" THEN 1 ELSE 0)
             /\ Send(r, c).command = c /\ Send(r, c).rule = r
  BY DEF Turn, Send
<1> HIDE DEF turn
<1> QED
  BY <1>1, <1>2 DEF Commands

LEMMA ClockCallsFacts ==
  ASSUME NEW c \in ClockCalls, c # <<>>
  PROVE  /\ Tail(c) \in ClockCalls
         /\ RulesSee(Head(c))
         /\ Head(c) \in {"TimerEvent", "SunriseEvent", "SunsetEvent"}
         /\ \A i \in DOMAIN c : c[i] = Head(c) \/ \E j \in DOMAIN Tail(c) : Tail(c)[j] = c[i]
<1>1. CASE c = <<"SunsetEvent">>
  BY <1>1 DEF ClockCalls, RulesSee
<1>2. CASE c = <<"SunriseEvent", "SunsetEvent">>
  <2>1. Tail(c) = <<"SunsetEvent">> /\ Head(c) = "SunriseEvent"
    BY <1>2
  <2> QED
    BY <1>2, <2>1 DEF ClockCalls, RulesSee
<1>3. CASE c = <<"TimerEvent", "SunriseEvent", "SunsetEvent">>
  <2>1. Tail(c) = <<"SunriseEvent", "SunsetEvent">> /\ Head(c) = "TimerEvent"
    BY <1>3
  <2>2. \A i \in DOMAIN c : i = 1 \/ (i - 1 \in DOMAIN Tail(c) /\ Tail(c)[i - 1] = c[i])
    BY <1>3, <2>1
  <2> QED
    BY <1>3, <2>1, <2>2 DEF ClockCalls, RulesSee
<1> QED
  BY <1>1, <1>2, <1>3 DEF ClockCalls
------------------------------------------------------------------------------
(* What somebody's command does to the history.                             *)
LEMMA CommandedFacts ==
  ASSUME RulesTypeOK, NEW d \in Receivers, NEW by, Commanded(d, by)
  PROVE  /\ disturbed' \in SUBSET Receivers
         /\ disturbed \subseteq disturbed'
         /\ by # {Timer} => d \in disturbed'
         /\ wanted' \in [Rules -> Commands \cup {"any"}]
         /\ \A r \in Rules : wanted'[r] = "any" \/ wanted'[r] = wanted[r]
         /\ \A r \in Rules : Rule[r].receiver = d /\ r \notin by => wanted'[r] = "any"
BY DEF RulesTypeOK, Commanded

LEMMA InitType == ASSUME Init PROVE RulesTypeOK
<1>1. minute \in Minutes /\ startValue \in Minutes /\ current \in Minutes
  BY DayLengthType DEF Init
<1> QED
  BY <1>1, RulesAssumption DEF Init, RulesTypeOK, ClockCalls, Commands, Threads

LEMMA PollType == ASSUME RulesTypeOK, Poll PROVE RulesTypeOK'
BY DEF RulesTypeOK, Poll, ClockCalls, messageVars, historyVars

LEMMA TimerMessageType == ASSUME RulesTypeOK, TimerMessage PROVE RulesTypeOK'
<1>1. calls' \in ClockCalls
  BY ClockCallsFacts DEF RulesTypeOK, TimerMessage
<1>2. sends' \in [Threads -> SUBSET AllSends]
  BY MessageSendsType DEF RulesTypeOK, TimerMessage
<1> QED
  BY <1>1, <1>2 DEF RulesTypeOK, TimerMessage, historyVars

LEMMA RoundDoneType == ASSUME RulesTypeOK, RoundDone PROVE RulesTypeOK'
BY DEF RulesTypeOK, RoundDone, messageVars, historyVars

LEMMA CheckCommandType ==
  ASSUME RulesTypeOK, NEW t \in Threads, CheckCommand(t) PROVE RulesTypeOK'
<1>1. PICK s \in sends[t] :
        IF command[s.receiver] = s.command
          THEN sends' = [sends EXCEPT ![t] = @ \ {s}] /\ UNCHANGED checked
          ELSE checked' = [checked EXCEPT ![t] = TRUE] /\ UNCHANGED sends
  BY DEF CheckCommand
<1>2. sends \in [Threads -> SUBSET AllSends] /\ checked \in [Threads -> BOOLEAN]
  BY DEF RulesTypeOK
<1>3. sends' \in [Threads -> SUBSET AllSends]
  BY <1>1, <1>2
<1>4. checked' \in [Threads -> BOOLEAN]
  BY <1>1, <1>2
<1> QED
  BY <1>3, <1>4 DEF RulesTypeOK, CheckCommand, timerVars, historyVars

LEMMA StoreCommandType ==
  ASSUME RulesTypeOK, NEW t \in Threads, StoreCommand(t) PROVE RulesTypeOK'
<1>1. PICK s \in sends[t] :
        /\ sends' = [sends EXCEPT ![t] = @ \ {s}]
        /\ \/ /\ command' = [command EXCEPT ![s.receiver] = s.command]
              /\ Commanded(s.receiver, IF t = Timer THEN {Timer} ELSE {s.rule})
           \/ UNCHANGED command /\ Commanded(s.receiver, {})
  BY DEF StoreCommand
<1>2. s \in AllSends
  BY DEF RulesTypeOK
<1>3. sends' \in [Threads -> SUBSET AllSends]
  BY <1>1 DEF RulesTypeOK
<1>4. command' \in [Receivers -> Commands]
  BY <1>1, <1>2, SendFields DEF RulesTypeOK
<1>5. disturbed' \in SUBSET Receivers /\ wanted' \in [Rules -> Commands \cup {"any"}]
  BY <1>1, <1>2, SendFields, CommandedFacts
<1> QED
  BY <1>3, <1>4, <1>5 DEF RulesTypeOK, StoreCommand, timerVars

LEMMA ReportType ==
  ASSUME RulesTypeOK, NEW w \in Workers, Report(w) PROVE RulesTypeOK'
<1>1. PICK p \in DOMAIN Providers : \E v \in Values[Providers[p]] :
        /\ handles' = [handles EXCEPT ![w] = p]
        /\ sends' = [sends EXCEPT ![w] = ProcessMessage([provider |-> p, value |-> v])]
        /\ wanted' = [r \in Rules |->
             IF Rule[r].kind # "thermostat" \/ Rule[r].provider # p \/ ~active[r]
                  \/ v = InvalidTemperature \/ ~(Cold(r, v) \/ Hot(r, v))
               THEN wanted[r]
             ELSE IF \E other \in Workers : handles[other] = p THEN "any"
             ELSE IF Hot(r, v) THEN "off" ELSE "on"]
  BY DEF Report
<1>2. sends' \in [Threads -> SUBSET AllSends]
  BY <1>1, MessageSendsType DEF RulesTypeOK, Threads
<1>3. handles' \in [Workers -> DOMAIN Providers \cup {Nobody}]
  BY <1>1 DEF RulesTypeOK
<1>4. wanted' \in [Rules -> Commands \cup {"any"}]
  BY <1>1 DEF RulesTypeOK, Commands
<1> QED
  BY <1>2, <1>3, <1>4 DEF RulesTypeOK, Report, timerVars

LEMMA ReportedType ==
  ASSUME RulesTypeOK, NEW w \in Workers, Reported(w) PROVE RulesTypeOK'
BY DEF RulesTypeOK, Reported, timerVars, historyVars

LEMMA SetCommandsType ==
  ASSUME RulesTypeOK, NEW d \in Receivers, NEW c \in Commands, SetCommands(d, c)
  PROVE  RulesTypeOK'
<1>1. command' \in [Receivers -> Commands]
  BY DEF RulesTypeOK, SetCommands
<1>2. disturbed' \in SUBSET Receivers /\ wanted' \in [Rules -> Commands \cup {"any"}]
  BY CommandedFacts DEF SetCommands
<1> QED
  BY <1>1, <1>2 DEF RulesTypeOK, SetCommands, timerVars, messageVars

LEMMA SetActivityType ==
  ASSUME RulesTypeOK, NEW r \in Switched, SetActivity(r) PROVE RulesTypeOK'
<1>1. r \in Rules /\ Rule[r].receiver \in Receivers
  BY RulesAssumption
<1>2. active' \in [Rules -> BOOLEAN]
  BY <1>1 DEF RulesTypeOK, SetActivity
<1>3. disturbed' \in SUBSET Receivers /\ wanted' \in [Rules -> Commands \cup {"any"}]
  BY <1>1, CommandedFacts DEF SetActivity
<1> QED
  BY <1>2, <1>3 DEF RulesTypeOK, SetActivity, timerVars, messageVars

LEMMA TickType == ASSUME RulesTypeOK, Tick PROVE RulesTypeOK'
<1>1. minute' \in Minutes
  BY NextMinute DEF RulesTypeOK, Tick
<1>2. troubles' \in 0..MaxTroubles
  BY RulesAssumption DEF RulesTypeOK, Tick
<1> QED
  BY <1>1, <1>2 DEF RulesTypeOK, Tick, timerVars, messageVars

LEMMA RestartType == ASSUME RulesTypeOK, Restart PROVE RulesTypeOK'
<1>1. troubles' \in 0..MaxTroubles
  BY RulesAssumption DEF RulesTypeOK, Restart
<1> QED
  BY <1>1 DEF RulesTypeOK, Restart, ClockCalls

(* The threads, their messages and the switches keep their types.           *)
THEOREM TypeCorrect == FairSpec => []RulesTypeOK
<1>1. Init => RulesTypeOK
  BY InitType
<1>2. RulesTypeOK /\ [Next]_rulesVars => RulesTypeOK'
  <2> SUFFICES ASSUME RulesTypeOK, [Next]_rulesVars PROVE RulesTypeOK'
    OBVIOUS
  <2>1. CASE TimerStep
    BY <2>1, PollType, TimerMessageType, RoundDoneType, CheckCommandType, StoreCommandType
       DEF TimerStep, Threads
  <2>2. ASSUME NEW w \in Workers,
               Report(w) \/ Reported(w) \/ CheckCommand(w) \/ StoreCommand(w)
        PROVE  RulesTypeOK'
    BY <2>2, ReportType, ReportedType, CheckCommandType, StoreCommandType DEF Threads
  <2>3. ASSUME NEW d \in Receivers, NEW c \in Commands, SetCommands(d, c) PROVE RulesTypeOK'
    BY <2>3, SetCommandsType
  <2>4. ASSUME NEW r \in Switched, SetActivity(r) PROVE RulesTypeOK'
    BY <2>4, SetActivityType
  <2>5. CASE Tick
    BY <2>5, TickType
  <2>6. CASE Restart
    BY <2>6, RestartType
  <2>7. CASE UNCHANGED rulesVars
    BY <2>7 DEF RulesTypeOK, rulesVars, timerVars, messageVars, historyVars
  <2> QED
    BY <2>1, <2>2, <2>3, <2>4, <2>5, <2>6, <2>7 DEF Next
<1> QED
  BY <1>1, <1>2, PTL DEF FairSpec
------------------------------------------------------------------------------
(***************************************************************************)
(* The rules of a minute.  A round that has begun has not stored its       *)
(* minute yet, and lasts for fewer minutes than a day has, so that it is   *)
(* not taken for one of the minute it began in.  Within that minute every  *)
(* send of the timer's thread is due, and for every receiver of a rule     *)
(* that is due the message is to come, a send is pending, or such a rule's *)
(* command is stored.                                                      *)
(***************************************************************************)
Due(d) == {r \in Rules : IsDue(r) /\ Rule[r].receiver = d}

Served(d) ==
  \E r \in Due(d) :
    \/ \E i \in DOMAIN calls : calls[i] = Rule[r].provider
    \/ \E s \in sends[Timer] : s.receiver = d
    \/ command[d] = Rule[r].command

RoundStarted == (calls # <<>> \/ sends[Timer] # {}) => current # startValue

RoundLasts ==
  Awake => \E k \in 0..troubles : minute = current + k \/ minute = current + k - DayLength

OnlyDue(d) ==
  \A s \in sends[Timer] : s.receiver = d => IsDue(s.rule) /\ s.command = Rule[s.rule].command

InRound ==
  Awake /\ minute = current =>
    \A d \in Receivers \ disturbed : OnlyDue(d) /\ (Due(d) # {} => Served(d))

DueInv == RulesTypeOK /\ RoundStarted /\ RoundLasts /\ InRound /\ DueCommandStored

(* The clock's messages send the commands of the rules that are due.        *)
LEMMA DueIffSent ==
  ASSUME RulesTypeOK, NEW r \in Rules, calls # <<>>, Rule[r].provider = Head(calls),
         NEW m, m = [provider |-> Head(calls), minute |-> minute], active[r]
  PROVE  SendsOf(r, m) = IF IsDue(r) THEN {Send(r, Rule[r].command)} ELSE {}
<1>1. /\ m.provider = Head(calls) /\ m.minute = minute
      /\ Head(calls) \in {"TimerEvent", "SunriseEvent", "SunsetEvent"}
  BY ClockCallsFacts DEF RulesTypeOK
<1>2. CASE Head(calls) = "TimerEvent"
  <2>1. Rule[r].kind = "timer"
    BY <1>2, RuleKinds
  <2> QED
    BY <2>1, <1>1 DEF SendsOf, ProcessTimerEvent, Sends, IsDue
<1>3. CASE Head(calls) = "SunriseEvent"
  <2>1. Rule[r].kind = "sunrise"
    BY <1>3, RuleKinds
  <2> QED
    BY <2>1, <1>1 DEF SendsOf, ProcessSunEvent, Sends, IsDue
<1>4. CASE Head(calls) = "SunsetEvent"
  <2>1. Rule[r].kind = "sunset"
    BY <1>4, RuleKinds
  <2> QED
    BY <2>1, <1>1 DEF SendsOf, ProcessSunEvent, Sends, IsDue
<1> QED
  BY <1>1, <1>2, <1>3, <1>4

LEMMA InitDue == ASSUME Init PROVE DueInv
<1>1. ~Awake /\ disturbed = Receivers
  BY DEF Init, Awake, Threads
<1>2. RoundStarted
  BY DEF Init, RoundStarted, Threads
<1> QED
  BY <1>1, <1>2, InitType DEF DueInv, RoundLasts, InRound, DueCommandStored

LEMMA PollDue == ASSUME DueInv, Poll PROVE DueInv'
<1>1. RulesTypeOK'
  BY PollType DEF DueInv
<1>2. /\ calls' = <<"TimerEvent", "SunriseEvent", "SunsetEvent">>
      /\ current' = minute' /\ current' # startValue' /\ sends'[Timer] = {}
      /\ calls' # <<>>
  BY DEF Poll, Awake, messageVars
<1>3. Awake'
  BY <1>2 DEF Awake
<1>4. RoundLasts'
  <2>1. troubles' \in 0..MaxTroubles /\ current' \in 0..(DayLength - 1)
    BY <1>1, DayLengthType DEF RulesTypeOK
  <2>2. troubles' \in Nat /\ current' \in Int
    <3>1. MaxTroubles \in Nat /\ DayLength \in Nat
      BY RulesAssumption, DayLengthType
    <3> QED
      BY <2>1, <3>1
  <2>3. \A x \in Nat, y \in Int : 0 \in 0..x /\ y = y + 0
    OBVIOUS
  <2> QED
    BY <2>2, <2>3, <1>2 DEF RoundLasts
<1>5. InRound'
  <2> SUFFICES ASSUME NEW d \in Receivers, Due(d)' # {} PROVE Served(d)'
    BY <1>2 DEF InRound, OnlyDue
  <2>1. PICK r \in Rules : r \in Due(d)'
    BY DEF Due
  <2>2. Rule[r].provider \in {"TimerEvent", "SunriseEvent", "SunsetEvent"}
    BY <2>1, RuleKinds DEF Due, IsDue
  <2>3. /\ {1, 2, 3} \subseteq DOMAIN calls' /\ calls'[1] = "TimerEvent"
        /\ calls'[2] = "SunriseEvent" /\ calls'[3] = "SunsetEvent"
    BY <1>2
  <2>4. \E i \in DOMAIN calls' : calls'[i] = Rule[r].provider
    BY <2>2, <2>3
  <2> QED
    BY <2>1, <2>4 DEF Served
<1>6. DueCommandStored'
  BY <1>3 DEF DueCommandStored
<1> QED
  BY <1>1, <1>2, <1>4, <1>5, <1>6 DEF DueInv, RoundStarted

LEMMA TimerMessageDue == ASSUME DueInv, TimerMessage PROVE DueInv'
<1> DEFINE m == [provider |-> Head(calls), minute |-> minute]
<1>1. RulesTypeOK'
  BY TimerMessageType DEF DueInv
<1>2. /\ calls # <<>> /\ calls' = Tail(calls) /\ sends[Timer] = {}
      /\ sends'[Timer] = ProcessMessage(m)
  BY ClockCallsFacts DEF TimerMessage, DueInv, RulesTypeOK, Threads
<1>3. UNCHANGED <<minute, startValue, current, active, command, sun, troubles, disturbed>>
  BY DEF TimerMessage, historyVars
<1>4. current # startValue
  BY <1>2 DEF DueInv, RoundStarted
<1>5. Awake /\ Awake'
  BY <1>3, <1>4 DEF Awake
<1>6. RoundLasts'
  BY <1>3, <1>5 DEF DueInv, RoundLasts
<1>7. InRound'
  <2> SUFFICES ASSUME minute = current, NEW d \in Receivers \ disturbed
               PROVE  OnlyDue(d)' /\ (Due(d)' # {} => Served(d)')
    BY <1>3 DEF InRound
  <2>1. \A r \in Rules : IsDue(r)' = IsDue(r)
    BY <1>3 DEF IsDue
  <2>2. OnlyDue(d)'
    <3> SUFFICES ASSUME NEW s \in ProcessMessage(m)
                 PROVE  IsDue(s.rule)' /\ s.command = Rule[s.rule].command
      BY <1>2 DEF OnlyDue
    <3>1. PICK r \in Rules : Rule[r].provider = m.provider /\ active[r] /\ s \in SendsOf(r, m)
      BY MessageSends
    <3>2. IsDue(r) /\ s = Send(r, Rule[r].command)
      BY <3>1, <1>2, DueIffSent DEF DueInv
    <3> QED
      BY <3>2, <2>1 DEF Send
  <2>3. ASSUME Due(d)' # {} PROVE Served(d)'
    <3>1. PICK r \in Due(d) : \/ \E i \in DOMAIN calls : calls[i] = Rule[r].provider
                              \/ command[d] = Rule[r].command
      <4>1. Due(d) # {}
        BY <2>1, <2>3 DEF Due
      <4>2. Served(d)
        BY <4>1, <1>5 DEF DueInv, InRound
      <4> QED
        BY <4>2, <1>2 DEF Served
    <3>2. r \in Rules /\ IsDue(r) /\ Rule[r].receiver = d /\ r \in Due(d)'
      BY <2>1 DEF Due
    <3>3. CASE command[d] = Rule[r].command
      BY <3>2, <3>3, <1>3 DEF Served
    <3>4. CASE Rule[r].provider = Head(calls)
      <4>1. Send(r, Rule[r].command) \in sends'[Timer]
        <5>1. active[r] /\ m.provider = Head(calls)
          BY <3>2 DEF IsDue
        <5>2. Send(r, Rule[r].command) \in SendsOf(r, m)
          BY <3>2, <3>4, <5>1, <1>2, DueIffSent DEF DueInv
        <5> QED
          BY <3>2, <3>4, <5>1, <5>2, <1>2, MessageSends
      <4>2. Send(r, Rule[r].command).receiver = d
        BY <3>2 DEF Send
      <4> QED
        BY <3>2, <4>1, <4>2 DEF Served
    <3>5. CASE \E i \in DOMAIN calls : calls[i] = Rule[r].provider /\ calls[i] # Head(calls)
      <4>1. \E j \in DOMAIN calls' : calls'[j] = Rule[r].provider
        BY <3>5, <1>2, ClockCallsFacts DEF DueInv, RulesTypeOK
      <4> QED
        BY <3>2, <4>1 DEF Served
    <3> QED
      BY <3>1, <3>3, <3>4, <3>5
  <2> QED
    BY <2>2, <2>3
<1>8. DueCommandStored'
  BY <1>5 DEF DueCommandStored
<1> QED
  BY <1>1, <1>3, <1>4, <1>6, <1>7, <1>8 DEF DueInv, RoundStarted

LEMMA RoundDoneDue == ASSUME DueInv, RoundDone PROVE DueInv'
<1>1. RulesTypeOK'
  BY RoundDoneType DEF DueInv
<1>2. /\ calls = <<>> /\ sends[Timer] = {} /\ current # startValue
      /\ calls' = <<>> /\ sends'[Timer] = {} /\ startValue' = current /\ current' = current
      /\ UNCHANGED <<minute, active, command, sun, disturbed>>
  BY DEF RoundDone, messageVars, historyVars
<1>3. Awake /\ ~Awake'
  BY <1>2 DEF Awake
<1>4. DueCommandStored'
  <2> SUFFICES ASSUME minute = current, NEW d \in Receivers \ disturbed, Due(d)' # {}
               PROVE  \E r \in Due(d)' : command'[d] = Rule[r].command
    BY <1>2 DEF DueCommandStored, Due
  <2>1. Due(d)' = Due(d)
    BY <1>2 DEF Due, IsDue
  <2>2. Served(d)
    BY <2>1, <1>3 DEF DueInv, InRound
  <2>3. DOMAIN calls = {}
    BY <1>2
  <2> QED
    BY <1>2, <2>1, <2>2, <2>3 DEF Served
<1> QED
  BY <1>1, <1>2, <1>3, <1>4 DEF DueInv, RoundStarted, RoundLasts, InRound

(* A step of somebody else spares the rules and the command of a receiver,  *)
(* or counts it as disturbed.                                              *)
LEMMA OthersDue ==
  ASSUME DueInv, RulesTypeOK', UNCHANGED <<minute, timerVars, sun, troubles>>,
         sends'[Timer] = sends[Timer], disturbed \subseteq disturbed',
         \A d \in Receivers \ disturbed' :
           /\ command'[d] = command[d]
           /\ \A r \in Rules : Rule[r].receiver = d => active'[r] = active[r]
  PROVE  DueInv'
<1>1. Awake' = Awake /\ UNCHANGED <<minute, startValue, current, calls, sun, troubles>>
  BY DEF Awake, timerVars
<1>2. RoundStarted' /\ RoundLasts'
  BY <1>1 DEF DueInv, RoundStarted, RoundLasts
<1>3. ASSUME NEW d \in Receivers \ disturbed'
      PROVE  /\ \A r \in Rules : Rule[r].receiver = d => (IsDue(r)' <=> IsDue(r))
             /\ Due(d)' = Due(d)
             /\ d \in Receivers \ disturbed
  BY <1>1, <1>3 DEF Due, IsDue
<1>4. InRound'
  <2> SUFFICES ASSUME Awake, minute = current, NEW d \in Receivers \ disturbed'
               PROVE  OnlyDue(d)' /\ (Due(d)' # {} => Served(d)')
    BY <1>1 DEF InRound
  <2>1. OnlyDue(d) /\ (Due(d) # {} => Served(d))
    BY <1>3 DEF DueInv, InRound
  <2>2. OnlyDue(d)'
    <3> SUFFICES ASSUME NEW s \in sends[Timer], s.receiver = d
                 PROVE  IsDue(s.rule)' /\ s.command = Rule[s.rule].command
      BY DEF OnlyDue
    <3>1. s.rule \in Rules /\ s.receiver = Rule[s.rule].receiver
      BY SendFields DEF DueInv, RulesTypeOK, Threads
    <3> QED
      BY <3>1, <2>1, <1>3 DEF OnlyDue
  <2>3. Served(d) => Served(d)'
    BY <1>1, <1>3 DEF Served
  <2> QED
    BY <2>1, <2>2, <2>3, <1>3
<1>5. DueCommandStored'
  <2> SUFFICES ASSUME ~Awake, startValue = minute, NEW d \in Receivers \ disturbed', Due(d)' # {}
               PROVE  \E r \in Due(d)' : command'[d] = Rule[r].command
    BY <1>1 DEF DueCommandStored, Due
  <2>1. d \in Receivers \ disturbed /\ Due(d) # {} /\ Due(d)' = Due(d) /\ command'[d] = command[d]
    BY <1>3
  <2>2. \E r \in Due(d) : command[d] = Rule[r].command
    BY <2>1 DEF DueInv, DueCommandStored, Due
  <2> QED
    BY <2>1, <2>2
<1> QED
  BY <1>2, <1>4, <1>5 DEF DueInv

(* The timer's thread has found a command stored, or has tried to store it. *)
LEMMA SentDue ==
  ASSUME DueInv, RulesTypeOK', UNCHANGED <<minute, timerVars, active, sun, troubles>>,
         NEW s \in sends[Timer], sends'[Timer] = sends[Timer] \ {s},
         disturbed \subseteq disturbed',
         s.receiver \in disturbed' \/ command'[s.receiver] = s.command,
         \A d \in Receivers : d # s.receiver => command'[d] = command[d]
  PROVE  DueInv'
<1>1. UNCHANGED <<minute, startValue, current, calls, sun, troubles>> /\ current # startValue
  BY DEF timerVars, DueInv, RoundStarted
<1>2. Awake /\ Awake'
  BY <1>1 DEF Awake
<1>3. RoundStarted' /\ RoundLasts' /\ DueCommandStored'
  BY <1>1, <1>2 DEF DueInv, RoundStarted, RoundLasts, DueCommandStored
<1>4. \A r \in Rules : IsDue(r)' <=> IsDue(r)
  BY <1>1 DEF IsDue
<1>5. \A x \in sends[Timer] : x.rule \in Rules /\ x.receiver = Rule[x.rule].receiver
  BY SendFields DEF DueInv, RulesTypeOK, Threads
<1>6. InRound'
  <2> SUFFICES ASSUME minute = current, NEW d \in Receivers \ disturbed'
               PROVE  OnlyDue(d)' /\ (Due(d)' # {} => Served(d)')
    BY <1>1 DEF InRound
  <2>1. OnlyDue(d) /\ (Due(d) # {} => Served(d)) /\ Due(d)' = Due(d)
    BY <1>2, <1>4 DEF DueInv, InRound, Due
  <2>2. OnlyDue(d)'
    BY <2>1, <1>4, <1>5 DEF OnlyDue
  <2>3. CASE s.receiver = d
    <3>1. s.rule \in Due(d)' /\ command'[d] = Rule[s.rule].command
      BY <2>1, <2>3, <1>4, <1>5 DEF OnlyDue, Due
    <3> QED
      BY <3>1, <2>2 DEF Served
  <2>4. CASE s.receiver # d
    <3>1. Served(d) => Served(d)'
      BY <2>1, <2>4, <1>1 DEF Served
    <3> QED
      BY <3>1, <2>1, <2>2
  <2> QED
    BY <2>3, <2>4
<1> QED
  BY <1>3, <1>6 DEF DueInv

LEMMA TimerIsNoWorker == Timer \in Threads /\ Timer \notin Workers /\ Timer \notin Rules
BY RulesAssumption DEF Threads

LEMMA CheckCommandDue == ASSUME DueInv, NEW t \in Threads, CheckCommand(t) PROVE DueInv'
<1>1. RulesTypeOK /\ RulesTypeOK'
  BY CheckCommandType DEF DueInv
<1>2. PICK s \in sends[t] :
        IF command[s.receiver] = s.command
          THEN sends' = [sends EXCEPT ![t] = @ \ {s}] /\ UNCHANGED checked
          ELSE checked' = [checked EXCEPT ![t] = TRUE] /\ UNCHANGED sends
  BY DEF CheckCommand
<1>3. UNCHANGED <<minute, timerVars, active, command, sun, troubles, disturbed>>
  BY DEF CheckCommand, historyVars
<1>4. CASE t = Timer /\ command[s.receiver] = s.command
  <2>1. sends'[Timer] = sends[Timer] \ {s}
    BY <1>1, <1>2, <1>4 DEF RulesTypeOK
  <2> QED
    BY <1>1, <1>3, <1>4, <2>1, SentDue
<1>5. CASE ~(t = Timer /\ command[s.receiver] = s.command)
  <2>1. sends'[Timer] = sends[Timer]
    BY <1>1, <1>2, <1>5, TimerIsNoWorker DEF RulesTypeOK
  <2> QED
    BY <1>1, <1>3, <2>1, OthersDue
<1> QED
  BY <1>4, <1>5

LEMMA StoreCommandDue == ASSUME DueInv, NEW t \in Threads, StoreCommand(t) PROVE DueInv'
<1>1. RulesTypeOK /\ RulesTypeOK'
  BY StoreCommandType DEF DueInv
<1>2. PICK s \in sends[t] :
        /\ sends' = [sends EXCEPT ![t] = @ \ {s}]
        /\ \/ /\ command' = [command EXCEPT ![s.receiver] = s.command]
              /\ Commanded(s.receiver, IF t = Timer THEN {Timer} ELSE {s.rule})
           \/ UNCHANGED command /\ Commanded(s.receiver, {})
  BY DEF StoreCommand
<1>3. UNCHANGED <<minute, timerVars, active, sun, troubles>>
  BY DEF StoreCommand
<1>4. s.receiver \in Receivers /\ s.rule \in Rules
  BY <1>1, SendFields DEF RulesTypeOK
<1>5. disturbed \subseteq disturbed'
  BY <1>1, <1>2, <1>4, CommandedFacts
<1>6. /\ \A d \in Receivers : d # s.receiver => command'[d] = command[d]
      /\ s.receiver \in disturbed' \/ (t = Timer /\ command'[s.receiver] = s.command)
  <2>1. CASE Commanded(s.receiver, {}) /\ UNCHANGED command
    BY <2>1, <1>1, <1>4, CommandedFacts
  <2>2. CASE /\ command' = [command EXCEPT ![s.receiver] = s.command]
             /\ Commanded(s.receiver, IF t = Timer THEN {Timer} ELSE {s.rule})
    <3>1. t # Timer => s.receiver \in disturbed'
      <4> SUFFICES ASSUME t # Timer PROVE s.receiver \in disturbed'
        OBVIOUS
      <4>1. Commanded(s.receiver, {s.rule}) /\ {s.rule} # {Timer}
        BY <2>2, <1>4, TimerIsNoWorker
      <4> QED
        BY <4>1, <1>1, <1>4, CommandedFacts
    <3> QED
      BY <3>1, <2>2, <1>1, <1>4 DEF RulesTypeOK
  <2> QED
    BY <1>2, <2>1, <2>2
<1>7. CASE t = Timer
  <2>1. sends'[Timer] = sends[Timer] \ {s}
    BY <1>1, <1>2, <1>7 DEF RulesTypeOK
  <2> QED
    BY <1>1, <1>3, <1>5, <1>6, <1>7, <2>1, SentDue
<1>8. CASE t # Timer
  <2>1. sends'[Timer] = sends[Timer]
    BY <1>1, <1>2, <1>8, TimerIsNoWorker DEF RulesTypeOK
  <2> QED
    BY <1>1, <1>3, <1>5, <1>6, <1>8, <2>1, OthersDue
<1> QED
  BY <1>7, <1>8

LEMMA ReportDue ==
  ASSUME DueInv, NEW w \in Workers, Report(w) \/ Reported(w) PROVE DueInv'
<1>1. RulesTypeOK /\ RulesTypeOK'
  BY ReportType, ReportedType DEF DueInv
<1>2. UNCHANGED <<minute, timerVars, active, command, sun, troubles, disturbed>>
  BY DEF Report, Reported, historyVars
<1>3. sends'[Timer] = sends[Timer]
  BY <1>1, TimerIsNoWorker DEF Report, Reported, RulesTypeOK
<1> QED
  BY <1>1, <1>2, <1>3, OthersDue

LEMMA ClientDue ==
  ASSUME DueInv,
         \/ \E d \in Receivers, c \in Commands : SetCommands(d, c)
         \/ \E r \in Switched : SetActivity(r)
  PROVE  DueInv'
<1>1. RulesTypeOK
  BY DEF DueInv
<1>2. ASSUME NEW d \in Receivers, NEW c \in Commands, SetCommands(d, c) PROVE DueInv'
  <2>1. /\ UNCHANGED <<minute, timerVars, messageVars, active, sun, troubles>>
        /\ command' = [command EXCEPT ![d] = c] /\ Commanded(d, {})
    BY <1>2 DEF SetCommands
  <2>2. d \in disturbed' /\ disturbed \subseteq disturbed'
    BY <1>1, <2>1, CommandedFacts
  <2>3. \A e \in Receivers \ disturbed' : command'[e] = command[e]
    BY <1>1, <2>1, <2>2 DEF RulesTypeOK
  <2>4. RulesTypeOK' /\ sends'[Timer] = sends[Timer]
    BY <1>1, <1>2, <2>1, SetCommandsType DEF messageVars
  <2> QED
    BY <2>1, <2>2, <2>3, <2>4, OthersDue
<1>3. ASSUME NEW r \in Switched, SetActivity(r) PROVE DueInv'
  <2>1. /\ UNCHANGED <<minute, timerVars, messageVars, command, sun, troubles>>
        /\ active' = [active EXCEPT ![r] = ~@] /\ Commanded(Rule[r].receiver, {})
    BY <1>3 DEF SetActivity
  <2>2. r \in Rules /\ Rule[r].receiver \in Receivers
    BY RulesAssumption
  <2>3. Rule[r].receiver \in disturbed' /\ disturbed \subseteq disturbed'
    <3>1. Commanded(Rule[r].receiver, {}) /\ {} # {Timer}
      BY <2>1
    <3> QED
      BY <1>1, <2>2, <3>1, CommandedFacts
  <2>4. \A x \in Rules : x # r => active'[x] = active[x]
    BY <1>1, <2>1 DEF RulesTypeOK
  <2>5. RulesTypeOK' /\ sends'[Timer] = sends[Timer]
    BY <1>1, <1>3, <2>1, SetActivityType DEF messageVars
  <2> QED
    BY <2>1, <2>3, <2>4, <2>5, OthersDue
<1> QED
  BY <1>2, <1>3

(* A round that lasts ends before the same minute of the next day.          *)
LEMMA TickDue == ASSUME DueInv, Tick PROVE DueInv'
<1>1. RulesTypeOK /\ RulesTypeOK'
  BY TickType DEF DueInv
<1>2. UNCHANGED <<startValue, current, calls, sends>> /\ (Awake' <=> Awake)
  BY DEF Tick, timerVars, messageVars, Awake
<1>3. /\ DayLength \in Nat /\ DayLength > 1 /\ MaxTroubles \in Nat /\ MaxTroubles < DayLength
      /\ minute \in 0..(DayLength - 1) /\ current \in 0..(DayLength - 1)
      /\ startValue \in 0..(DayLength - 1) /\ troubles \in 0..MaxTroubles
  BY <1>1, DayLengthType, RulesAssumption DEF RulesTypeOK, DayLength
<1>4. minute' = IF minute = DayLength - 1 THEN 0 ELSE minute + 1
  BY <1>1, NextMinute DEF Tick, RulesTypeOK
<1>5. CASE ~Awake
  <2>1. startValue = minute
    BY <1>5 DEF Tick
  <2>2. startValue' # minute'
    BY <1>2, <1>3, <1>4, <2>1
  <2> QED
    BY <1>1, <1>2, <1>5, <2>2
       DEF DueInv, RoundStarted, RoundLasts, InRound, DueCommandStored
<1>6. CASE Awake
  <2>1. troubles < MaxTroubles /\ troubles' = troubles + 1
    BY <1>6 DEF Tick
  <2>2. PICK k \in 0..troubles : minute = current + k \/ minute = current + k - DayLength
    BY <1>6 DEF DueInv, RoundLasts
  <2>3. /\ k + 1 \in 0..troubles' /\ k + 1 < DayLength
        /\ minute' = current' + (k + 1) \/ minute' = current' + (k + 1) - DayLength
    BY <1>2, <1>3, <1>4, <2>1, <2>2
  <2>4. minute' # current'
    BY <1>2, <1>3, <2>2, <2>3
  <2>5. RoundLasts'
    BY <2>3 DEF RoundLasts
  <2> QED
    BY <1>1, <1>2, <1>6, <2>4, <2>5 DEF DueInv, RoundStarted, InRound, DueCommandStored
<1> QED
  BY <1>5, <1>6

LEMMA RestartDue == ASSUME DueInv, Restart PROVE DueInv'
<1>1. RulesTypeOK'
  BY RestartType DEF DueInv
<1>2. /\ calls' = <<>> /\ sends'[Timer] = {} /\ startValue' = current' /\ disturbed' = Receivers
      /\ ~Awake'
  BY DEF Restart, Threads, Awake
<1> QED
  BY <1>1, <1>2 DEF DueInv, RoundStarted, RoundLasts, InRound, DueCommandStored

(* The command of a rule of this minute is stored when the timer's thread   *)
(* has nothing to do, unless somebody else commanded the receiver.          *)
THEOREM DueIsStored == FairSpec => []DueCommandStored
<1>1. Init => DueInv
  BY InitDue
<1>2. DueInv /\ [Next]_rulesVars => DueInv'
  <2> SUFFICES ASSUME DueInv, [Next]_rulesVars PROVE DueInv'
    OBVIOUS
  <2>1. CASE TimerStep
    BY <2>1, PollDue, TimerMessageDue, RoundDoneDue, CheckCommandDue, StoreCommandDue,
       TimerIsNoWorker DEF TimerStep
  <2>2. ASSUME NEW w \in Workers,
               Report(w) \/ Reported(w) \/ CheckCommand(w) \/ StoreCommand(w)
        PROVE  DueInv'
    BY <2>2, ReportDue, CheckCommandDue, StoreCommandDue DEF Threads
  <2>3. CASE \/ \E d \in Receivers, c \in Commands : SetCommands(d, c)
             \/ \E r \in Switched : SetActivity(r)
    BY <2>3, ClientDue
  <2>4. CASE Tick
    BY <2>4, TickDue
  <2>5. CASE Restart
    BY <2>5, RestartDue
  <2>6. CASE UNCHANGED rulesVars
    <3>1. UNCHANGED <<minute, startValue, current, calls, sends, checked, handles, active,
                      command, sun, troubles, disturbed, wanted>>
      BY <2>6 DEF rulesVars, timerVars, messageVars, historyVars
    <3>2. RulesTypeOK'
      BY <3>1 DEF DueInv, RulesTypeOK
    <3> QED
      BY <3>1, <3>2, OthersDue DEF timerVars
  <2> QED
    BY <2>1, <2>2, <2>3, <2>4, <2>5, <2>6 DEF Next
<1>3. DueInv => DueCommandStored
  BY DEF DueInv
<1> QED
  BY <1>1, <1>2, <1>3, PTL DEF FairSpec
------------------------------------------------------------------------------
(***************************************************************************)
(* The thermostats.  While a thermostat is to be obeyed, either none of    *)
(* its sends is pending and its receiver has the command, or one worker    *)
(* alone has its sends and the last of them is the command.                *)
(***************************************************************************)
Of(w, r) == {s \in sends[w] : s.rule = r}

LastIs(w, r, c) ==
  \E s \in Of(w, r) : s.command = c /\ \A x \in Of(w, r) : Turn(x) <= Turn(s)

Obeys(r) ==
  \/ command[Rule[r].receiver] = wanted[r] /\ \A w \in Workers : Of(w, r) = {}
  \/ \E w \in Workers : LastIs(w, r, wanted[r]) /\ \A v \in Workers \ {w} : Of(v, r) = {}

ThermostatsObeyed ==
  \A r \in Rules : wanted[r] # "any" => Rule[r].kind = "thermostat" /\ Obeys(r)

(* A worker's sends are those of the message it handles.                    *)
OwnSends ==
  \A w \in Workers : \A s \in sends[w] :
    handles[w] # Nobody /\ handles[w] = Rule[s.rule].provider

ThermostatInv == RulesTypeOK /\ ThermostatsObeyed /\ OwnSends

(* What keeps a thermostat obeyed: who does not command its receiver and    *)
(* does not touch its sends, or makes it a matter of indifference.         *)
LEMMA OthersObey ==
  ASSUME NEW r \in Rules, wanted[r] # "any" => Rule[r].kind = "thermostat" /\ Obeys(r),
         \/ wanted'[r] = "any"
         \/ /\ wanted'[r] = wanted[r]
            /\ command'[Rule[r].receiver] = command[Rule[r].receiver]
            /\ \A w \in Workers : Of(w, r)' = Of(w, r)
  PROVE  wanted'[r] # "any" => Rule[r].kind = "thermostat" /\ Obeys(r)'
<1> SUFFICES ASSUME wanted'[r] # "any",
                    /\ wanted'[r] = wanted[r]
                    /\ command'[Rule[r].receiver] = command[Rule[r].receiver]
                    /\ \A w \in Workers : Of(w, r)' = Of(w, r)
             PROVE  Rule[r].kind = "thermostat" /\ Obeys(r)'
  OBVIOUS
<1>1. Rule[r].kind = "thermostat" /\ Obeys(r)
  OBVIOUS
<1>2. \A w \in Workers : LastIs(w, r, wanted[r]) => LastIs(w, r, wanted[r])'
  BY DEF LastIs
<1> QED
  BY <1>1, <1>2 DEF Obeys

(* The worker has dealt with the next of its sends, which is then the       *)
(* receiver's command: its rule is obeyed as before.                       *)
LEMMA SenderObeys ==
  ASSUME RulesTypeOK, NEW w \in Workers, NEW s, IsNext(w, s),
         sends' = [sends EXCEPT ![w] = @ \ {s}],
         wanted[s.rule] # "any" => Rule[s.rule].kind = "thermostat" /\ Obeys(s.rule),
         command'[s.receiver] = s.command,
         wanted'[s.rule] \in {wanted[s.rule], "any"}
  PROVE  wanted'[s.rule] # "any" => Rule[s.rule].kind = "thermostat" /\ Obeys(s.rule)'
<1> DEFINE r == s.rule
<1>1. s \in sends[w] /\ s \in AllSends /\ r \in Rules /\ s.receiver = Rule[r].receiver
  BY SendFields DEF IsNext, RulesTypeOK, Threads
<1> SUFFICES ASSUME wanted'[r] # "any" PROVE Rule[r].kind = "thermostat" /\ Obeys(r)'
  OBVIOUS
<1>2. Rule[r].kind = "thermostat" /\ Obeys(r) /\ wanted'[r] = wanted[r]
  OBVIOUS
<1>3. s \in Of(w, r)
  BY <1>1 DEF Of
<1>4. \E v \in Workers : LastIs(v, r, wanted[r]) /\ \A u \in Workers \ {v} : Of(u, r) = {}
  BY <1>2, <1>3 DEF Obeys
<1>5. LastIs(w, r, wanted[r]) /\ \A u \in Workers \ {w} : Of(u, r) = {}
  BY <1>3, <1>4
<1>6. PICK last \in Of(w, r) :
        last.command = wanted[r] /\ \A x \in Of(w, r) : Turn(x) <= Turn(last)
  BY <1>5 DEF LastIs
<1>7. Of(w, r)' = Of(w, r) \ {s} /\ \A u \in Workers \ {w} : Of(u, r)' = {}
  <2>1. sends'[w] = sends[w] \ {s} /\ \A u \in Workers \ {w} : sends'[u] = sends[u]
    BY DEF RulesTypeOK, Threads
  <2> QED
    BY <1>5, <2>1 DEF Of
<1>8. \A x \in Of(w, r) : x \in AllSends /\ x.rule = r /\ Turn(x) \in Int /\ Turn(s) <= Turn(x)
  BY TurnType DEF Of, RulesTypeOK, Threads, IsNext
<1>9. CASE last = s
  <2>1. \A x \in Of(w, r) : x = s
    <3> SUFFICES ASSUME NEW x \in Of(w, r) PROVE x = s
      OBVIOUS
    <3>1. Turn(x) = Turn(s)
      BY <1>3, <1>6, <1>8, <1>9
    <3> QED
      BY <1>1, <1>8, <3>1, TurnsDiffer
  <2>2. \A u \in Workers : Of(u, r)' = {}
    BY <1>7, <2>1
  <2>3. command'[Rule[r].receiver] = wanted'[r]
    BY <1>1, <1>2, <1>6, <1>9
  <2> QED
    BY <1>2, <2>2, <2>3 DEF Obeys
<1>10. CASE last # s
  <2>1. last \in Of(w, r)' /\ \A x \in Of(w, r)' : Turn(x) <= Turn(last)
    BY <1>6, <1>7, <1>10
  <2>2. LastIs(w, r, wanted[r])'
    BY <1>2, <1>6, <2>1 DEF LastIs
  <2> QED
    BY <1>2, <1>7, <2>2 DEF Obeys
<1> QED
  BY <1>9, <1>10

LEMMA InitThermostat == ASSUME Init PROVE ThermostatInv
BY InitType DEF Init, ThermostatInv, ThermostatsObeyed, OwnSends, Threads

(* A step that no worker makes: the sends of the workers stay.              *)
LEMMA NoWorkerThermostat ==
  ASSUME ThermostatInv, RulesTypeOK', UNCHANGED handles,
         \A w \in Workers : sends'[w] = sends[w],
         \A r \in Rules : \/ wanted'[r] = "any"
                          \/ /\ wanted'[r] = wanted[r]
                             /\ command'[Rule[r].receiver] = command[Rule[r].receiver]
  PROVE  ThermostatInv'
<1>1. \A w \in Workers, r \in Rules : Of(w, r)' = Of(w, r)
  BY DEF Of
<1>2. ThermostatsObeyed'
  BY <1>1, OthersObey DEF ThermostatInv, ThermostatsObeyed
<1> QED
  BY <1>2 DEF ThermostatInv, OwnSends

(* A worker has dealt with the next of its sends.                           *)
LEMMA SentThermostat ==
  ASSUME ThermostatInv, RulesTypeOK', UNCHANGED handles, NEW w \in Workers, NEW s,
         IsNext(w, s), sends' = [sends EXCEPT ![w] = @ \ {s}],
         \/ UNCHANGED <<command, wanted>> /\ command[s.receiver] = s.command
         \/ /\ command' = [command EXCEPT ![s.receiver] = s.command]
            /\ Commanded(s.receiver, {s.rule})
         \/ UNCHANGED command /\ Commanded(s.receiver, {})
  PROVE  ThermostatInv'
<1>1. RulesTypeOK /\ ThermostatsObeyed /\ OwnSends
  BY DEF ThermostatInv
<1>2. /\ s \in sends[w] /\ s \in AllSends /\ s.rule \in Rules
      /\ s.receiver = Rule[s.rule].receiver /\ s.receiver \in Receivers
  BY <1>1, SendFields DEF IsNext, RulesTypeOK, Threads
<1>3. sends'[w] = sends[w] \ {s} /\ \A v \in Workers : v # w => sends'[v] = sends[v]
  BY <1>1 DEF RulesTypeOK, Threads
<1>4. OwnSends'
  BY <1>1, <1>3 DEF OwnSends
<1>5. ASSUME NEW r \in Rules
      PROVE  wanted'[r] # "any" => Rule[r].kind = "thermostat" /\ Obeys(r)'
  <2>1. wanted[r] # "any" => Rule[r].kind = "thermostat" /\ Obeys(r)
    BY <1>1 DEF ThermostatsObeyed
  <2>2. \A x \in Rules : wanted'[x] \in {wanted[x], "any"}
    BY <1>1, <1>2, CommandedFacts
  <2>3. CASE r = s.rule
    <3>1. CASE command'[s.receiver] = s.command
      BY <1>1, <1>2, <2>1, <2>2, <2>3, <3>1, SenderObeys
    <3>2. CASE command'[s.receiver] # s.command
      <4>1. Commanded(s.receiver, {})
        BY <1>1, <1>2, <3>2 DEF RulesTypeOK
      <4>2. wanted'[r] = "any"
        BY <1>1, <1>2, <2>3, <4>1, CommandedFacts
      <4> QED
        BY <4>2
    <3> QED
      BY <3>1, <3>2
  <2>4. CASE r # s.rule
    <3>1. \A v \in Workers : Of(v, r)' = Of(v, r)
      BY <1>3, <2>4 DEF Of
    <3>2. wanted'[r] = "any" \/ command'[Rule[r].receiver] = command[Rule[r].receiver]
      <4>1. CASE UNCHANGED <<command, wanted>>
        BY <4>1
      <4>2. CASE Commanded(s.receiver, {s.rule}) \/ Commanded(s.receiver, {})
        <5>1. Rule[r].receiver = s.receiver => wanted'[r] = "any"
          BY <1>1, <1>2, <2>4, <4>2, CommandedFacts
        <5>2. Rule[r].receiver # s.receiver
                => command'[Rule[r].receiver] = command[Rule[r].receiver]
          BY <1>1, RuleKinds DEF RulesTypeOK
        <5> QED
          BY <5>1, <5>2
      <4> QED
        BY <4>1, <4>2
    <3> QED
      BY <2>1, <2>2, <3>1, <3>2, OthersObey
  <2> QED
    BY <2>3, <2>4
<1> QED
  BY <1>4, <1>5 DEF ThermostatInv, ThermostatsObeyed

LEMMA CheckCommandThermostat ==
  ASSUME ThermostatInv, NEW t \in Threads, CheckCommand(t) PROVE ThermostatInv'
<1>1. RulesTypeOK /\ RulesTypeOK'
  BY CheckCommandType DEF ThermostatInv
<1>2. PICK s \in sends[t] :
        /\ IsNext(t, s)
        /\ IF command[s.receiver] = s.command
             THEN sends' = [sends EXCEPT ![t] = @ \ {s}] /\ UNCHANGED checked
             ELSE checked' = [checked EXCEPT ![t] = TRUE] /\ UNCHANGED sends
  BY DEF CheckCommand
<1>3. UNCHANGED <<handles, command, wanted>>
  BY DEF CheckCommand, historyVars
<1>4. CASE t \in Workers /\ command[s.receiver] = s.command
  BY <1>1, <1>2, <1>3, <1>4, SentThermostat
<1>5. CASE ~(t \in Workers /\ command[s.receiver] = s.command)
  <2>1. \A w \in Workers : sends'[w] = sends[w]
    BY <1>1, <1>2, <1>5 DEF RulesTypeOK, Threads
  <2> QED
    BY <1>1, <1>3, <2>1, NoWorkerThermostat
<1> QED
  BY <1>4, <1>5

LEMMA StoreCommandThermostat ==
  ASSUME ThermostatInv, NEW t \in Threads, StoreCommand(t) PROVE ThermostatInv'
<1>1. RulesTypeOK /\ RulesTypeOK'
  BY StoreCommandType DEF ThermostatInv
<1>2. PICK s \in sends[t] :
        /\ IsNext(t, s)
        /\ sends' = [sends EXCEPT ![t] = @ \ {s}]
        /\ \/ /\ command' = [command EXCEPT ![s.receiver] = s.command]
              /\ Commanded(s.receiver, IF t = Timer THEN {Timer} ELSE {s.rule})
           \/ UNCHANGED command /\ Commanded(s.receiver, {})
  BY DEF StoreCommand
<1>3. UNCHANGED handles
  BY DEF StoreCommand
<1>4. CASE t \in Workers
  <2>1. t # Timer
    BY <1>4, TimerIsNoWorker
  <2> QED
    BY <1>1, <1>2, <1>3, <1>4, <2>1, SentThermostat
<1>5. CASE t = Timer
  <2>1. \A w \in Workers : sends'[w] = sends[w]
    BY <1>1, <1>2, <1>5, TimerIsNoWorker DEF RulesTypeOK, Threads
  <2>2. s.receiver \in Receivers
    BY <1>1, SendFields DEF RulesTypeOK
  <2>3. ASSUME NEW r \in Rules
        PROVE  \/ wanted'[r] = "any"
               \/ /\ wanted'[r] = wanted[r]
                  /\ command'[Rule[r].receiver] = command[Rule[r].receiver]
    <3>1. Commanded(s.receiver, {Timer}) \/ Commanded(s.receiver, {})
      BY <1>2, <1>5
    <3>2. wanted'[r] \in {wanted[r], "any"}
      BY <1>1, <2>2, <3>1, CommandedFacts
    <3>3. Rule[r].receiver = s.receiver => wanted'[r] = "any"
      BY <1>1, <2>2, <3>1, CommandedFacts, TimerIsNoWorker
    <3>4. Rule[r].receiver # s.receiver
            => command'[Rule[r].receiver] = command[Rule[r].receiver]
      BY <1>1, <1>2, RuleKinds DEF RulesTypeOK
    <3> QED
      BY <3>2, <3>3, <3>4
  <2> QED
    BY <1>1, <1>3, <2>1, <2>3, NoWorkerThermostat
<1> QED
  BY <1>4, <1>5 DEF Threads

(* A report that asks a thermostat for something sends it last, and no      *)
(* other report of the thermometer is being handled.                       *)
LEMMA ReportThermostat ==
  ASSUME ThermostatInv, NEW w \in Workers, Report(w) PROVE ThermostatInv'
<1>1. RulesTypeOK /\ RulesTypeOK' /\ ThermostatsObeyed /\ OwnSends
  BY ReportType DEF ThermostatInv
<1>2. PICK p \in DOMAIN Providers : \E v \in Values[Providers[p]] :
        /\ handles[w] = Nobody
        /\ handles' = [handles EXCEPT ![w] = p]
        /\ sends' = [sends EXCEPT ![w] = ProcessMessage([provider |-> p, value |-> v])]
        /\ wanted' = [r \in Rules |->
             IF Rule[r].kind # "thermostat" \/ Rule[r].provider # p \/ ~active[r]
                  \/ v = InvalidTemperature \/ ~(Cold(r, v) \/ Hot(r, v))
               THEN wanted[r]
             ELSE IF \E other \in Workers : handles[other] = p THEN "any"
             ELSE IF Hot(r, v) THEN "off" ELSE "on"]
  BY DEF Report
<1>3. PICK v \in Values[Providers[p]] :
        /\ handles[w] = Nobody
        /\ handles' = [handles EXCEPT ![w] = p]
        /\ sends' = [sends EXCEPT ![w] = ProcessMessage([provider |-> p, value |-> v])]
        /\ wanted' = [r \in Rules |->
             IF Rule[r].kind # "thermostat" \/ Rule[r].provider # p \/ ~active[r]
                  \/ v = InvalidTemperature \/ ~(Cold(r, v) \/ Hot(r, v))
               THEN wanted[r]
             ELSE IF \E other \in Workers : handles[other] = p THEN "any"
             ELSE IF Hot(r, v) THEN "off" ELSE "on"]
  BY <1>2
<1> DEFINE m == [provider |-> p, value |-> v]
<1>4. UNCHANGED command
  BY DEF Report
<1>5. /\ sends'[w] = ProcessMessage(m) /\ handles'[w] = p
      /\ \A u \in Workers : u # w => sends'[u] = sends[u] /\ handles'[u] = handles[u]
  BY <1>1, <1>3 DEF RulesTypeOK, Threads
<1>6. \A s \in sends'[w] : /\ Rule[s.rule].provider = p /\ s.rule \in Rules /\ active[s.rule]
                           /\ s \in SendsOf(s.rule, m)
  <2> SUFFICES ASSUME NEW s \in ProcessMessage(m)
               PROVE  /\ Rule[s.rule].provider = p /\ s.rule \in Rules /\ active[s.rule]
                      /\ s \in SendsOf(s.rule, m)
    BY <1>5
  <2>1. PICK r \in Rules : Rule[r].provider = m.provider /\ active[r] /\ s \in SendsOf(r, m)
    BY MessageSends
  <2>2. s.rule = r
    BY <2>1, SendsOfItself DEF Send
  <2> QED
    BY <2>1, <2>2
<1>7. OwnSends'
  BY <1>1, <1>5, <1>6, RulesAssumption DEF OwnSends
<1>8. sends[w] = {}
  BY <1>1, <1>3 DEF OwnSends
<1>9. ASSUME NEW r \in Rules
      PROVE  wanted'[r] # "any" => Rule[r].kind = "thermostat" /\ Obeys(r)'
  <2>1. wanted[r] # "any" => Rule[r].kind = "thermostat" /\ Obeys(r)
    BY <1>1 DEF ThermostatsObeyed
  <2>2. CASE \/ Rule[r].kind # "thermostat" \/ Rule[r].provider # p \/ ~active[r]
             \/ v = InvalidTemperature \/ ~(Cold(r, v) \/ Hot(r, v))
    <3>1. wanted'[r] = wanted[r]
      BY <1>3, <2>2
    <3>2. CASE Rule[r].kind # "thermostat"
      BY <2>1, <3>1, <3>2
    <3>3. CASE Rule[r].kind = "thermostat"
      <4>1. Of(w, r)' = {} /\ Of(w, r) = {}
        <5>1. CASE Rule[r].provider # p \/ ~active[r]
          BY <1>6, <1>8, <5>1 DEF Of
        <5>2. CASE v = InvalidTemperature \/ ~(Cold(r, v) \/ Hot(r, v))
          <6>1. SendsOf(r, m) = {}
            BY <3>3, <5>2 DEF SendsOf, ProcessThermostatEvent, Sends
          <6> QED
            BY <1>6, <1>8, <6>1 DEF Of
        <5> QED
          BY <2>2, <3>3, <5>1, <5>2
      <4>2. \A u \in Workers : Of(u, r)' = Of(u, r)
        BY <1>5, <4>1 DEF Of
      <4> QED
        BY <1>4, <2>1, <3>1, <4>2, OthersObey
    <3> QED
      BY <3>2, <3>3
  <2>3. CASE /\ Rule[r].kind = "thermostat" /\ Rule[r].provider = p /\ active[r]
             /\ v # InvalidTemperature /\ (Cold(r, v) \/ Hot(r, v))
    <3> SUFFICES ASSUME wanted'[r] # "any" PROVE Obeys(r)'
      BY <2>3
    <3>1. /\ \A other \in Workers : handles[other] # p
          /\ wanted'[r] = IF Hot(r, v) THEN "off" ELSE "on"
      BY <1>3, <2>3
    <3>2. \A u \in Workers \ {w} : Of(u, r)' = {}
      BY <1>1, <1>5, <2>3, <3>1 DEF Of, OwnSends
    <3>3. SendsOf(r, m) = Sends(Cold(r, v), r, "on") \cup Sends(Hot(r, v), r, "off")
      BY <2>3 DEF SendsOf, ProcessThermostatEvent
    <3>4. Of(w, r)' = SendsOf(r, m)
      <4>1. \A s \in SendsOf(r, m) : s.rule = r /\ s \in ProcessMessage(m)
        BY <2>3, MessageSends, SendsOfItself DEF Send
      <4> QED
        BY <1>5, <1>6, <4>1 DEF Of
    <3>5. /\ Send(r, "on").command = "on" /\ Send(r, "off").command = "off"
          /\ Send(r, "on").rule = r /\ Send(r, "off").rule = r
          /\ Turn(Send(r, "on")) <= Turn(Send(r, "off"))
          /\ \A c \in Commands : Turn(Send(r, c)) <= Turn(Send(r, c))
      BY OnBeforeOff DEF Commands
    <3>6. LastIs(w, r, wanted[r])'
      <4>1. CASE Hot(r, v)
        <5>1. Send(r, "off") \in Of(w, r)' /\ Of(w, r)' \subseteq {Send(r, "on"), Send(r, "off")}
          BY <3>3, <3>4, <4>1 DEF Sends
        <5> QED
          BY <3>1, <3>5, <4>1, <5>1 DEF LastIs, Commands
      <4>2. CASE ~Hot(r, v)
        <5>1. Of(w, r)' = {Send(r, "on")}
          BY <2>3, <3>3, <3>4, <4>2 DEF Sends
        <5> QED
          BY <3>1, <3>5, <4>2, <5>1 DEF LastIs, Commands
      <4> QED
        BY <4>1, <4>2
    <3> QED
      BY <3>2, <3>6 DEF Obeys
  <2> QED
    BY <2>2, <2>3
<1> QED
  BY <1>1, <1>7, <1>9 DEF ThermostatInv, ThermostatsObeyed

LEMMA ReportedThermostat ==
  ASSUME ThermostatInv, NEW w \in Workers, Reported(w) PROVE ThermostatInv'
<1>1. RulesTypeOK /\ RulesTypeOK' /\ OwnSends /\ ThermostatsObeyed
  BY ReportedType DEF ThermostatInv
<1>2. sends[w] = {} /\ UNCHANGED <<sends, command, wanted>>
  BY DEF Reported, historyVars
<1>3. OwnSends'
  BY <1>1, <1>2 DEF OwnSends, Reported, RulesTypeOK
<1>4. \A u \in Workers, r \in Rules : Of(u, r)' = Of(u, r)
  BY <1>2 DEF Of
<1>5. ThermostatsObeyed'
  BY <1>1, <1>2, <1>4, OthersObey DEF ThermostatsObeyed
<1> QED
  BY <1>1, <1>3, <1>5 DEF ThermostatInv

LEMMA ClientThermostat ==
  ASSUME ThermostatInv,
         \/ \E d \in Receivers, c \in Commands : SetCommands(d, c)
         \/ \E r \in Switched : SetActivity(r)
  PROVE  ThermostatInv'
<1>1. RulesTypeOK
  BY DEF ThermostatInv
<1>2. ASSUME NEW d \in Receivers, NEW c \in Commands, SetCommands(d, c) PROVE ThermostatInv'
  <2>1. /\ UNCHANGED <<handles, sends>> /\ RulesTypeOK'
        /\ command' = [command EXCEPT ![d] = c] /\ Commanded(d, {})
    BY <1>1, <1>2, SetCommandsType DEF SetCommands, messageVars
  <2>2. \A x \in Rules : \/ wanted'[x] = "any"
                         \/ /\ wanted'[x] = wanted[x]
                            /\ command'[Rule[x].receiver] = command[Rule[x].receiver]
    <3> SUFFICES ASSUME NEW x \in Rules, wanted'[x] # "any"
                 PROVE  /\ wanted'[x] = wanted[x]
                        /\ command'[Rule[x].receiver] = command[Rule[x].receiver]
      OBVIOUS
    <3>1. wanted'[x] = wanted[x] /\ Rule[x].receiver # d
      BY <1>1, <2>1, CommandedFacts
    <3> QED
      BY <1>1, <2>1, <3>1, RuleKinds DEF RulesTypeOK
  <2> QED
    BY <2>1, <2>2, NoWorkerThermostat
<1>3. ASSUME NEW r \in Switched, SetActivity(r) PROVE ThermostatInv'
  <2>1. Rule[r].receiver \in Receivers
    BY RulesAssumption
  <2>2. UNCHANGED <<handles, sends, command>> /\ RulesTypeOK' /\ Commanded(Rule[r].receiver, {})
    BY <1>1, <1>3, SetActivityType DEF SetActivity, messageVars
  <2>3. \A x \in Rules : wanted'[x] = "any" \/ wanted'[x] = wanted[x]
    BY <1>1, <2>1, <2>2, CommandedFacts
  <2> QED
    BY <2>2, <2>3, NoWorkerThermostat
<1> QED
  BY <1>2, <1>3

LEMMA RestartThermostat == ASSUME ThermostatInv, Restart PROVE ThermostatInv'
<1>1. RulesTypeOK'
  BY RestartType DEF ThermostatInv
<1> QED
  BY <1>1 DEF Restart, ThermostatInv, ThermostatsObeyed, OwnSends, Threads

(* Whenever no report of its thermometer is being handled, the receiver of  *)
(* a thermostat has what the last report asked for.                        *)
THEOREM ThermostatsAreFollowed == FairSpec => []ThermostatFollows
<1>1. Init => ThermostatInv
  BY InitThermostat
<1>2. ThermostatInv /\ [Next]_rulesVars => ThermostatInv'
  <2> SUFFICES ASSUME ThermostatInv, [Next]_rulesVars PROVE ThermostatInv'
    OBVIOUS
  <2>1. RulesTypeOK
    BY DEF ThermostatInv
  <2>2. CASE Poll \/ TimerMessage \/ RoundDone \/ Tick
    <3>1. RulesTypeOK'
      BY <2>1, <2>2, PollType, TimerMessageType, RoundDoneType, TickType
    <3>2. UNCHANGED <<handles, command, wanted>>
      BY <2>2 DEF Poll, TimerMessage, RoundDone, Tick, messageVars, historyVars
    <3>3. \A w \in Workers : sends'[w] = sends[w]
      BY <2>1, <2>2, TimerIsNoWorker
         DEF Poll, TimerMessage, RoundDone, Tick, messageVars, RulesTypeOK, Threads
    <3> QED
      BY <3>1, <3>2, <3>3, NoWorkerThermostat
  <2>3. CASE CheckCommand(Timer) \/ StoreCommand(Timer)
    BY <2>3, CheckCommandThermostat, StoreCommandThermostat, TimerIsNoWorker
  <2>4. ASSUME NEW w \in Workers,
               Report(w) \/ Reported(w) \/ CheckCommand(w) \/ StoreCommand(w)
        PROVE  ThermostatInv'
    BY <2>4, ReportThermostat, ReportedThermostat, CheckCommandThermostat,
       StoreCommandThermostat DEF Threads
  <2>5. CASE \/ \E d \in Receivers, c \in Commands : SetCommands(d, c)
             \/ \E r \in Switched : SetActivity(r)
    BY <2>5, ClientThermostat
  <2>6. CASE Restart
    BY <2>6, RestartThermostat
  <2>7. CASE UNCHANGED rulesVars
    <3>1. UNCHANGED <<minute, startValue, current, calls, sends, checked, handles, active,
                      command, sun, troubles, disturbed, wanted>>
      BY <2>7 DEF rulesVars, timerVars, messageVars, historyVars
    <3>2. RulesTypeOK'
      BY <3>1, <2>1 DEF RulesTypeOK
    <3> QED
      BY <3>1, <3>2, NoWorkerThermostat
  <2> QED
    BY <2>2, <2>3, <2>4, <2>5, <2>6, <2>7 DEF Next, TimerStep
<1>3. ThermostatInv => ThermostatFollows
  <2> SUFFICES ASSUME ThermostatInv, NEW r \in Rules, wanted[r] # "any",
                      \A w \in Workers : handles[w] # Rule[r].provider
               PROVE  command[Rule[r].receiver] = wanted[r]
    BY DEF ThermostatFollows
  <2>1. \A w \in Workers : Of(w, r) = {}
    BY DEF ThermostatInv, OwnSends, Of
  <2> QED
    BY <2>1 DEF ThermostatInv, ThermostatsObeyed, Obeys, LastIs
<1> QED
  BY <1>1, <1>2, <1>3, PTL DEF FairSpec
==============================================================================
