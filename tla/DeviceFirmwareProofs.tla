------------------------ MODULE DeviceFirmwareProofs ------------------------
(***************************************************************************)
(* Proofs about the firmware, for every build, every width of the clock    *)
(* and every length of the timeouts, periods and activity times: for an    *)
(* unsigned long of 32 bits as much as for the few ticks of a model.       *)
(***************************************************************************)
EXTENDS DeviceFirmware, WellFoundedInduction, TLAPS

Clock == 0 .. MaxMillis

(* Unsigned subtraction goes once around the clock at most.                 *)
LEMMA SinceByCases ==
  ASSUME NEW now \in Clock, NEW t \in Clock
  PROVE  /\ Since(now, t) \in Clock
         /\ Since(now, t) = IF now >= t THEN now - t ELSE now - t + MaxMillis + 1
<1> DEFINE elapsed == IF now >= t THEN now - t ELSE now - t + MaxMillis + 1
<1>1. MaxMillis \in Nat \ {0}
  BY FirmwareAssumption
<1>2. elapsed \in Clock
  BY <1>1 DEF Clock
<1>3. CASE now >= t
  BY <1>1, <1>2, <1>3, SMT DEF Since, Clock
<1>4. CASE now < t
  BY <1>1, <1>2, <1>4, SMT DEF Since, Clock
<1> QED
  BY <1>3, <1>4, <1>1 DEF Clock

(* The clock of the next tick.                                              *)
LEMMA NextMillis ==
  ASSUME NEW now \in Clock
  PROVE  /\ (now + 1) % (MaxMillis + 1) \in Clock
         /\ (now + 1) % (MaxMillis + 1) = IF now = MaxMillis THEN 0 ELSE now + 1
<1>1. MaxMillis \in Nat \ {0}
  BY FirmwareAssumption
<1>2. CASE now = MaxMillis
  BY <1>1, <1>2, SMT DEF Clock
<1>3. CASE now < MaxMillis
  BY <1>1, <1>3, SMT DEF Clock
<1> QED
  BY <1>1, <1>2, <1>3 DEF Clock

(* A set of numbers that is not empty has a least one ...                   *)
LEMMA LeastExists ==
  ASSUME NEW S \in SUBSET Nat, S # {}
  PROVE  \E x \in S : \A y \in S : x <= y
<1> DEFINE Less == {p \in Nat \X Nat : p[1] < p[2]}
<1>1. IsWellFoundedOn(OpToRel(<, Nat), Nat)
  BY NatLessThanWellFounded
<1>2. OpToRel(<, Nat) = Less
  BY Zenon DEF OpToRel
<1>3. IsWellFoundedOn(Less, Nat)
  BY <1>1, <1>2
<1> HIDE DEF Less
<1>4. PICK x \in S : \A y \in S : ~(<<y, x>> \in Less)
  BY <1>3, WFMin
<1>5. ASSUME NEW y \in S
      PROVE  x <= y
  <2>1. ~(<<y, x>> \in Less)
    BY <1>4
  <2>2. y \in Nat /\ x \in Nat
    OBVIOUS
  <2> QED
    BY <2>1, <2>2 DEF Less
<1> QED
  BY <1>5

(* ... and, below a bound, a greatest one.                                  *)
LEMMA GreatestExists ==
  ASSUME NEW bound \in Nat, NEW S \in SUBSET (0 .. bound), S # {}
  PROVE  \E x \in S : \A y \in S : y <= x
<1> DEFINE Below == {bound - t : t \in S}
<1>1. Below \in SUBSET Nat /\ Below # {}
  <2>1. \A t \in S : bound - t \in Nat
    OBVIOUS
  <2> QED
    BY <2>1
<1>2. PICK b \in Below : \A c \in Below : b <= c
  BY <1>1, LeastExists
<1>3. PICK t \in S : b = bound - t
  OBVIOUS
<1>4. ASSUME NEW u \in S
      PROVE  u <= t
  <2>1. b <= bound - u
    BY <1>2
  <2> QED
    BY <1>3, <2>1
<1> QED
  BY <1>4

LEMMA ActivityLimits ==
  /\ LongestActivity \in ActivityTimes
  /\ \A t \in ActivityTimes : t <= LongestActivity
  /\ Least(ActivityTimes) \in ActivityTimes
<1>1. MaxMillis \in Nat /\ ActivityTimes \in SUBSET (1 .. MaxMillis) /\ ActivityTimes # {}
  BY FirmwareAssumption
<1>2. ActivityTimes \in SUBSET (0 .. MaxMillis) /\ ActivityTimes \in SUBSET Nat
  BY <1>1
<1>3. \E longest \in ActivityTimes : \A u \in ActivityTimes : u <= longest
  BY <1>1, <1>2, GreatestExists
<1>4. \E least \in ActivityTimes : \A u \in ActivityTimes : least <= u
  BY <1>1, <1>2, LeastExists
<1> QED
  BY <1>3, <1>4 DEF LongestActivity, Least

LEMMA PeriodLimits ==
  /\ LongestPeriod \in Periods
  /\ \A p \in Periods : p \in Nat /\ p <= LongestPeriod
  /\ Least(Periods) \in Periods
<1>1. MaxMillis \in Nat /\ Periods \in SUBSET (0 .. MaxMillis) /\ Periods # {}
  BY FirmwareAssumption
<1>2. Periods \in SUBSET Nat
  BY <1>1
<1>3. \E longest \in Periods : \A u \in Periods : u <= longest
  BY <1>1, GreatestExists
<1>4. \E least \in Periods : \A u \in Periods : least <= u
  BY <1>1, <1>2, LeastExists
<1> QED
  BY <1>2, <1>3, <1>4 DEF LongestPeriod, Least
------------------------------------------------------------------------------
(* The steps of the loop that neither switch the relay nor decide about it. *)
lampVars == <<build, motionState, command, relay, sensed>>

RelayInv == RelayFollows /\ relay \in BOOLEAN /\ command \in BOOLEAN /\ motionState \in BOOLEAN

(***************************************************************************)
(* Whatever order commands, motion, its end, the loss of the server and    *)
(* the temperature come in, the relay is as the last of those that count   *)
(* for its build decided.  The states of one relay come together only in   *)
(* setRelayState; every other build has a single writer at a time, which   *)
(* the last command overrides.                                             *)
(***************************************************************************)
THEOREM RelayCorrect == FirmwareSpec => []RelayFollows
<1>1. FirmwareInit => RelayInv
  BY DEF FirmwareInit, RelayInv, RelayFollows
<1>2. RelayInv /\ [FirmwareNext]_firmwareVars => RelayInv'
  <2> SUFFICES ASSUME RelayInv, [FirmwareNext]_firmwareVars
               PROVE  RelayInv'
    OBVIOUS
  <2> USE DEF RelayInv, RelayFollows
  <2>1. ASSUME UNCHANGED lampVars
        PROVE  RelayInv'
    BY <2>1 DEF lampVars
  <2>2. CASE Tick \/ LoseWiFi \/ UNCHANGED firmwareVars
    BY <2>1, <2>2 DEF Tick, LoseWiFi, firmwareVars, lightVars, lampVars
  <2>3. CASE ConnectWiFi \/ NoEvent \/ WebSocketChanges
    BY <2>1, <2>3 DEF ConnectWiFi, NoEvent, WebSocketChanges, InWebSocketLoop, Proceed,
       lightVars, lampVars
  <2>4. ASSUME ThermostatActivity, build = "relay_as_thermostat",
               UNCHANGED <<build, motionState, command>>
        PROVE  RelayInv'
    BY <2>4 DEF ThermostatActivity
  <2>5. CASE ConnectWiFiFails
    <3>1. CASE build = "relay_as_thermostat"
      BY <2>4, <2>5, <3>1 DEF ConnectWiFiFails, Proceed
    <3>2. CASE build # "relay_as_thermostat"
      BY <2>1, <2>5, <3>2 DEF ConnectWiFiFails, Proceed, lampVars
    <3> QED
      BY <3>1, <3>2
  <2>6. CASE AcknowledgeText \/ SettingsText
    BY <2>1, <2>6 DEF AcknowledgeText, SettingsText, InText, InWebSocketLoop, Proceed,
       lightVars, lampVars
  <2>7. CASE StateText
    <3>1. PICK on \in BOOLEAN :
            /\ command' = on
            /\ \/ build \in Relays /\ relay' = on /\ sensed' = "nothing"
               \/ build = "motion_relay" /\ relay' = (on \/ motionState)
      BY <2>7 DEF StateText, SetRelayState
    <3>2. build' = build /\ motionState' = motionState
      BY <2>7 DEF StateText, InText, InWebSocketLoop, Proceed
    <3>3. CASE build \in Relays /\ relay' = on /\ sensed' = "nothing"
      <4>1. build # "motion_relay"
        BY <3>3 DEF Relays
      <4> QED
        BY <3>1, <3>2, <3>3, <4>1
    <3>4. CASE build = "motion_relay" /\ relay' = (on \/ motionState)
      BY <3>1, <3>2, <3>4
    <3> QED
      BY <3>1, <3>3, <3>4
  <2>8. CASE RestartText
    BY <2>8 DEF RestartText, Setup
  <2>9. CASE CheckTimes \/ ReconnectWiFi \/ ReconnectWiFiFails
    BY <2>1, <2>9 DEF CheckTimes, ReconnectWiFi, ReconnectWiFiFails, ReadClock,
       StartTimesChecked, Proceed, lampVars
  <2>10. CASE Report \/ SwitchDisplay
    BY <2>1, <2>10 DEF Report, SwitchDisplay, InActivity, Proceed, lightVars, lampVars
  <2>11. CASE CheckTemperature
    <3>1. CASE connected
      BY <2>1, <2>11, <3>1 DEF CheckTemperature, InActivity, Proceed, lampVars
    <3>2. CASE ~connected
      BY <2>4, <2>11, <3>2 DEF CheckTemperature, InActivity, Proceed
    <3> QED
      BY <3>1, <3>2
  <2>12. CASE Motion
    <3>1. build = "motion_relay" /\ UNCHANGED <<build, command>> /\ motionState' = TRUE
      BY <2>12 DEF Motion, InActivity, Proceed
    <3>2. relay' = (IF motionState THEN relay ELSE TRUE)
      BY <2>12 DEF Motion, SetRelayState
    <3> QED
      BY <3>1, <3>2
  <2>13. CASE NoMotion
    <3>1. build = "motion_relay" /\ UNCHANGED <<build, command>>
      BY <2>13 DEF NoMotion, InActivity, Proceed
    <3>2. \/ motionState' = FALSE /\ relay' = (command \/ FALSE)
          \/ UNCHANGED <<motionState, relay>>
      BY <2>13 DEF NoMotion, MotionOver, SetRelayState
    <3>3. CASE motionState' = FALSE /\ relay' = (command \/ FALSE)
      BY <3>1, <3>3
    <3>4. CASE UNCHANGED <<motionState, relay>>
      BY <3>1, <3>4
    <3> QED
      BY <3>2, <3>3, <3>4
  <2> QED
    BY <2>2, <2>3, <2>5, <2>6, <2>7, <2>8, <2>9, <2>10, <2>11, <2>12, <2>13
       DEF FirmwareNext, LoopStep, Texts
<1>3. RelayInv => RelayFollows
  BY DEF RelayInv
<1> QED
  BY <1>1, <1>2, <1>3, PTL DEF FirmwareSpec
------------------------------------------------------------------------------
(* Ages and times of the outstanding messages agree, around the clock.      *)
AckInv ==
  /\ millis \in Clock
  /\ DOMAIN age = DOMAIN ackMessages
  /\ \A id \in DOMAIN ackMessages :
       /\ ackMessages[id] \in Clock
       /\ age[id] \in Nat
       /\ age[id] >= MaxAckTimeout \/ age[id] = Since(millis, ackMessages[id])

ackVars == <<millis, ackMessages, age>>

(* A tick makes a message as much older as the clock says, as long as it is *)
(* younger than the timeout, hence than a whole turn.                      *)
LEMMA OlderByOne ==
  ASSUME NEW now \in Clock, NEW t \in Clock, Since(now, t) < MaxAckTimeout
  PROVE  Since((now + 1) % (MaxMillis + 1), t) = Since(now, t) + 1
<1> DEFINE next == IF now = MaxMillis THEN 0 ELSE now + 1
<1>1. MaxMillis \in Nat \ {0} /\ MaxAckTimeout \in 1 .. MaxMillis
  BY FirmwareAssumption
<1>2. next \in Clock /\ (now + 1) % (MaxMillis + 1) = next
  BY <1>1, NextMillis DEF Clock
<1> HIDE DEF next
<1>3. Since(now, t) = IF now >= t THEN now - t ELSE now - t + MaxMillis + 1
  BY SinceByCases
<1>4. Since(next, t) = IF next >= t THEN next - t ELSE next - t + MaxMillis + 1
  BY <1>2, SinceByCases
<1>5. Since(next, t) = Since(now, t) + 1
  BY <1>1, <1>3, <1>4 DEF next, Clock
<1> QED
  BY <1>2, <1>5

LEMMA TickAges ==
  ASSUME AckInv, Tick
  PROVE  AckInv'
<1> USE DEF AckInv
<1>1. MaxAckTimeout \in Nat /\ MaxMillis \in Nat
  BY FirmwareAssumption
<1>2. /\ millis' = (millis + 1) % (MaxMillis + 1)
      /\ age' = [id \in DOMAIN age |-> AtMost(MaxAckTimeout, age[id] + 1)]
      /\ ackMessages' = ackMessages
  BY DEF Tick
<1>3. millis' \in Clock
  BY <1>2, NextMillis
<1>4. ASSUME NEW id \in DOMAIN ackMessages
      PROVE  /\ age'[id] \in Nat
             /\ age'[id] >= MaxAckTimeout \/ age'[id] = Since(millis', ackMessages[id])
  <2>1. age'[id] = IF age[id] + 1 > MaxAckTimeout THEN MaxAckTimeout ELSE age[id] + 1
    BY <1>2 DEF AtMost
  <2>2. CASE age[id] >= MaxAckTimeout
    BY <1>1, <2>1, <2>2
  <2>3. CASE age[id] < MaxAckTimeout
    <3>1. Since(millis, ackMessages[id]) = age[id]
      BY <1>1, <2>3
    <3>2. Since(millis', ackMessages[id]) = age[id] + 1
      BY <1>2, <2>3, <3>1, OlderByOne
    <3> QED
      BY <1>1, <2>1, <2>3, <3>2
  <2> QED
    BY <1>1, <2>2, <2>3
<1> QED
  BY <1>2, <1>3, <1>4

LEMMA GenerateAges ==
  ASSUME AckInv, GenerateMessageId, millis' = millis
  PROVE  AckInv'
<1> USE DEF AckInv
<1>1. CASE UNCHANGED <<ackMessages, age>>
  BY <1>1
<1>2. ASSUME NEW id \in Ids[build] \ DOMAIN ackMessages,
             ackMessages' = With(ackMessages, id, millis),
             age' = With(age, id, 0)
      PROVE  AckInv'
  <2>1. /\ ackMessages' = [i \in DOMAIN ackMessages \cup {id} |->
                             IF i = id THEN millis ELSE ackMessages[i]]
        /\ age' = [i \in DOMAIN ackMessages \cup {id} |-> IF i = id THEN 0 ELSE age[i]]
    BY <1>2 DEF With
  <2>2. Since(millis, millis) = 0
    <3>1. millis \in Clock
      OBVIOUS
    <3>2. Since(millis, millis) = IF millis >= millis THEN millis - millis ELSE millis - millis + MaxMillis + 1
      BY <3>1, SinceByCases
    <3> QED
      BY <3>1, <3>2 DEF Clock
  <2>3. DOMAIN age' = DOMAIN ackMessages' /\ millis' \in Clock
    BY <2>1
  <2>4. ASSUME NEW i \in DOMAIN ackMessages'
        PROVE  /\ ackMessages'[i] \in Clock
               /\ age'[i] \in Nat
               /\ age'[i] >= MaxAckTimeout \/ age'[i] = Since(millis', ackMessages'[i])
    <3>1. CASE i = id
      BY <2>1, <2>2, <3>1
    <3>2. CASE i # id
      BY <2>1, <3>2
    <3> QED
      BY <3>1, <3>2
  <2> QED
    BY <2>3, <2>4
<1> QED
  BY <1>1, <1>2 DEF GenerateMessageId

LEMMA ForgottenAges ==
  ASSUME AckInv, ackMessages' = <<>>, age' = <<>>, millis' \in Clock
  PROVE  AckInv'
BY DEF AckInv

(* The invariant of the outstanding messages.                               *)
LEMMA AckInvariant == FirmwareSpec => []AckInv
<1>1. FirmwareInit => AckInv
  BY FirmwareAssumption DEF FirmwareInit, AckInv, Clock
<1>2. AckInv /\ [FirmwareNext]_firmwareVars => AckInv'
  <2> SUFFICES ASSUME AckInv, [FirmwareNext]_firmwareVars
               PROVE  AckInv'
    OBVIOUS
  <2>1. ASSUME UNCHANGED ackVars
        PROVE  AckInv'
    BY <2>1 DEF ackVars, AckInv
  <2>2. CASE Tick
    BY <2>2, TickAges
  <2>3. CASE LoseWiFi \/ UNCHANGED firmwareVars
    BY <2>1, <2>3 DEF LoseWiFi, firmwareVars, clockVars, linkVars, ackVars
  <2>4. CASE ConnectWiFi \/ ConnectWiFiFails \/ NoEvent \/ WebSocketChanges \/ SettingsText
    BY <2>1, <2>4 DEF ConnectWiFi, ConnectWiFiFails, NoEvent, WebSocketChanges, SettingsText,
       InText, InWebSocketLoop, linkVars, ackVars
  <2>5. CASE AcknowledgeText
    BY <2>5 DEF AcknowledgeText, InText, InWebSocketLoop, AckInv
  <2>6. CASE StateText
    <3>1. millis' = millis
      BY <2>6 DEF StateText, InText, InWebSocketLoop
    <3>2. GenerateMessageId \/ UNCHANGED <<ackMessages, age>>
      BY <2>6 DEF StateText
    <3> QED
      BY <2>1, <3>1, <3>2, GenerateAges DEF ackVars
  <2>7. CASE RestartText
    <3>1. millis' \in Clock /\ ackMessages' = <<>> /\ age' = <<>>
      BY <2>7, FirmwareAssumption DEF RestartText, Setup, Clock
    <3> QED
      BY <3>1, ForgottenAges
  <2>8. CASE CheckTimes
    BY <2>1, <2>8 DEF CheckTimes, ReadClock, linkVars, ackVars
  <2>9. CASE ReconnectWiFi \/ ReconnectWiFiFails
    BY <2>9, ForgottenAges DEF ReconnectWiFi, ReconnectWiFiFails, ReadClock, ForgetMessages, AckInv
  <2>10. CASE Report
    <3>1. millis' = millis
      BY <2>10 DEF Report
    <3>2. GenerateMessageId \/ UNCHANGED <<ackMessages, age>>
      BY <2>10 DEF Report
    <3> QED
      BY <2>1, <3>1, <3>2, GenerateAges DEF ackVars
  <2>11. CASE SwitchDisplay \/ CheckTemperature
    BY <2>1, <2>11 DEF SwitchDisplay, CheckTemperature, InActivity, ackVars
  <2>12. CASE Motion \/ NoMotion
    <3>1. millis' = millis
      BY <2>12 DEF Motion, NoMotion, InActivity
    <3>2. GenerateMessageId \/ UNCHANGED <<ackMessages, age>>
      BY <2>12 DEF Motion, NoMotion, MotionOver
    <3> QED
      BY <2>1, <3>1, <3>2, GenerateAges DEF ackVars
  <2> QED
    BY <2>2, <2>3, <2>4, <2>5, <2>6, <2>7, <2>8, <2>9, <2>10, <2>11, <2>12
       DEF FirmwareNext, LoopStep, Texts
<1> QED
  BY <1>1, <1>2, PTL DEF FirmwareSpec

(***************************************************************************)
(* The loop never takes a young message for one whose clock has wrapped,   *)
(* except one of the same millisecond: the test for the wrap counts one    *)
(* millisecond less than has passed, and is right whenever the clock did   *)
(* wrap, because no age below the timeout spans a whole turn.              *)
(***************************************************************************)
THEOREM ReconnectsInTime == FirmwareSpec => NoEarlyReconnect
<1>1. ASSUME AckInv, [FirmwareNext]_firmwareVars, GivesUp
      PROVE  \E id \in DOMAIN age : age[id] >= MaxAckTimeout \/ ackMessages[id] = millis
  <2>1. AckElapsed
    <3>1. pc = "check" /\ ackMessages' # ackMessages
      BY <1>1 DEF GivesUp
    <3>2. ReconnectWiFi \/ ReconnectWiFiFails
      BY <1>1, <3>1 DEF FirmwareNext, LoopStep, Texts, firmwareVars, linkVars, Tick, LoseWiFi,
         ConnectWiFi, ConnectWiFiFails, NoEvent, WebSocketChanges, AcknowledgeText, StateText,
         SettingsText, RestartText, InText, InWebSocketLoop, CheckTimes, Report, SwitchDisplay,
         CheckTemperature, Motion, NoMotion, InActivity
    <3> QED
      BY <3>2 DEF ReconnectWiFi, ReconnectWiFiFails
  <2>2. PICK id \in DOMAIN ackMessages : Elapsed(millis, ackMessages[id])
    BY <2>1 DEF AckElapsed
  <2>3. MaxMillis \in Nat \ {0} /\ MaxAckTimeout \in 1 .. MaxMillis
    BY FirmwareAssumption
  <2>4. /\ millis \in 0 .. MaxMillis /\ ackMessages[id] \in 0 .. MaxMillis
        /\ age[id] \in Nat
        /\ age[id] >= MaxAckTimeout \/ age[id] = Since(millis, ackMessages[id])
        /\ id \in DOMAIN age
    BY <1>1 DEF AckInv, Clock
  <2>5. Since(millis, ackMessages[id]) = IF millis >= ackMessages[id] THEN millis - ackMessages[id]
          ELSE millis - ackMessages[id] + MaxMillis + 1
    BY <2>4, SinceByCases DEF Clock
  <2>6. age[id] >= MaxAckTimeout \/ ackMessages[id] = millis
    BY <2>2, <2>3, <2>4, <2>5 DEF Elapsed
  <2> QED
    BY <2>4, <2>6
<1> QED
  BY <1>1, AckInvariant, PTL DEF FirmwareSpec, NoEarlyReconnect
------------------------------------------------------------------------------
(* While motion keeps the light on, the start of its time is not longer ago *)
(* on the clock than the last motion is in truth.                          *)
MotionInv ==
  /\ millis \in Clock /\ currentTime \in Clock /\ activityStart \in Clock
  /\ quiet \in Nat
  /\ motionActivityDelay \in ActivityTimes
  /\ motionState =>
       /\ build = "motion_relay"
       /\ quiet >= LongestActivity \/ Since(currentTime, activityStart) <= quiet

motionVars == <<build, millis, currentTime, activityStart, quiet, motionActivityDelay, motionState>>

(* The way around the clock is not longer with a stop.                      *)
LEMMA SinceAdds ==
  ASSUME NEW a \in Clock, NEW b \in Clock, NEW c \in Clock
  PROVE  Since(a, c) <= Since(a, b) + Since(b, c)
<1>1. MaxMillis \in Nat
  BY FirmwareAssumption
<1>2. /\ Since(a, c) = IF a >= c THEN a - c ELSE a - c + MaxMillis + 1
      /\ Since(a, b) = IF a >= b THEN a - b ELSE a - b + MaxMillis + 1
      /\ Since(b, c) = IF b >= c THEN b - c ELSE b - c + MaxMillis + 1
  BY SinceByCases
<1> QED
  BY <1>1, <1>2 DEF Clock

LEMMA NoTimeSince ==
  ASSUME NEW t \in Clock
  PROVE  Since(t, t) = 0
<1>1. Since(t, t) = IF t >= t THEN t - t ELSE t - t + MaxMillis + 1
  BY SinceByCases
<1> QED
  BY <1>1 DEF Clock

(* The loop reads the clock, and goes on with the times or sets one anew.   *)
LEMMA ReadClockMotion ==
  ASSUME MotionInv, ReadClock, build' = build, activityStart' \in {activityStart, millis}
  PROVE  MotionInv'
<1> USE DEF MotionInv
<1>1. /\ currentTime' = millis /\ millis' = millis
      /\ motionActivityDelay' = motionActivityDelay /\ motionState' = motionState
      /\ quiet' = IF build = "motion_relay"
                    THEN AtMost(LongestActivity, quiet + Since(millis, currentTime)) ELSE quiet
  BY DEF ReadClock, settingVars
<1>2. LongestActivity \in Nat
  BY ActivityLimits, FirmwareAssumption
<1>3. Since(millis, currentTime) \in Nat
  BY SinceByCases DEF Clock
<1>4. quiet' \in Nat
  BY <1>1, <1>2, <1>3 DEF AtMost
<1>5. ASSUME motionState
      PROVE  quiet' >= LongestActivity \/ Since(millis, activityStart') <= quiet'
  <2>1. quiet' = IF quiet + Since(millis, currentTime) > LongestActivity
                   THEN LongestActivity ELSE quiet + Since(millis, currentTime)
    BY <1>1, <1>5 DEF AtMost
  <2>2. CASE activityStart' = millis
    BY <1>4, <2>2, NoTimeSince
  <2>3. CASE activityStart' = activityStart
    <3>1. Since(millis, activityStart) <= Since(millis, currentTime) + Since(currentTime, activityStart)
      BY SinceAdds
    <3>2. Since(millis, activityStart) \in Nat /\ Since(currentTime, activityStart) \in Nat
      BY SinceByCases DEF Clock
    <3>3. quiet >= LongestActivity \/ Since(currentTime, activityStart) <= quiet
      BY <1>5
    <3> QED
      BY <1>2, <1>3, <2>1, <2>3, <3>1, <3>2, <3>3
  <2> QED
    BY <2>2, <2>3
<1> QED
  BY <1>1, <1>4, <1>5

(* The invariant of the motion.                                             *)
LEMMA MotionInvariant == FirmwareSpec => []MotionInv
<1>0. /\ 0 \in Clock
      /\ LongestActivity \in Nat
      /\ Least(ActivityTimes) \in ActivityTimes
  BY FirmwareAssumption, ActivityLimits DEF Clock
<1>1. FirmwareInit => MotionInv
  BY <1>0 DEF FirmwareInit, MotionInv
<1>2. MotionInv /\ [FirmwareNext]_firmwareVars => MotionInv'
  <2> SUFFICES ASSUME MotionInv, [FirmwareNext]_firmwareVars
               PROVE  MotionInv'
    OBVIOUS
  <2>1. ASSUME UNCHANGED motionVars
        PROVE  MotionInv'
    BY <2>1 DEF motionVars, MotionInv
  <2>2. CASE Tick
    <3>1. millis' \in Clock
      BY <2>2, NextMillis DEF Tick, MotionInv
    <3>2. UNCHANGED <<build, currentTime, activityStart, quiet, motionActivityDelay, motionState>>
      BY <2>2 DEF Tick, settingVars, lightVars
    <3> QED
      BY <3>1, <3>2 DEF MotionInv
  <2>3. CASE LoseWiFi \/ UNCHANGED firmwareVars
    BY <2>1, <2>3 DEF LoseWiFi, firmwareVars, clockVars, settingVars, lightVars, timerVars, motionVars
  <2>4. CASE ConnectWiFi \/ ConnectWiFiFails \/ NoEvent \/ WebSocketChanges \/ AcknowledgeText
    BY <2>1, <2>4 DEF ConnectWiFi, ConnectWiFiFails, NoEvent, WebSocketChanges, AcknowledgeText,
       InText, InWebSocketLoop, Proceed, settingVars, lightVars, timerVars, motionVars
  <2>5. CASE StateText
    BY <2>1, <2>5 DEF StateText, InText, InWebSocketLoop, Proceed, settingVars, timerVars, motionVars
  <2>6. CASE SettingsText
    <3>1. motionActivityDelay' \in ActivityTimes
      BY <2>6 DEF SettingsText, MotionInv
    <3>2. UNCHANGED <<build, millis, currentTime, activityStart, quiet, motionState>>
      BY <2>6 DEF SettingsText, InText, InWebSocketLoop, Proceed, lightVars, timerVars
    <3> QED
      BY <3>1, <3>2 DEF MotionInv
  <2>7. CASE RestartText
    BY <1>0, <2>7 DEF RestartText, Setup, MotionInv
  <2>8. CASE CheckTimes \/ ReconnectWiFi \/ ReconnectWiFiFails
    <3>1. ReadClock /\ build' = build
      BY <2>8 DEF CheckTimes, ReconnectWiFi, ReconnectWiFiFails, ReadClock, StartTimesChecked, Proceed
    <3>2. activityStart' \in {activityStart, millis}
      BY <2>8 DEF CheckTimes, ReconnectWiFi, ReconnectWiFiFails, StartTimesChecked
    <3> QED
      BY <3>1, <3>2, ReadClockMotion
  <2>9. CASE Report
    BY <2>1, <2>9 DEF Report, Proceed, settingVars, lightVars, motionVars
  <2>10. CASE SwitchDisplay
    <3>1. ~motionState
      BY <2>10 DEF SwitchDisplay, InActivity, MotionInv
    <3>2. UNCHANGED <<build, millis, currentTime, quiet, motionActivityDelay, motionState>>
      BY <2>10 DEF SwitchDisplay, InActivity, Proceed, settingVars, lightVars
    <3>3. activityStart' \in {activityStart, currentTime}
      BY <2>10 DEF SwitchDisplay
    <3> QED
      BY <3>1, <3>2, <3>3 DEF MotionInv
  <2>11. CASE CheckTemperature
    BY <2>1, <2>11 DEF CheckTemperature, InActivity, Proceed, settingVars, motionVars
  <2>12. CASE Motion
    <3>1. /\ activityStart' = currentTime /\ quiet' = 0 /\ build = "motion_relay"
          /\ UNCHANGED <<build, millis, currentTime, motionActivityDelay>>
      BY <2>12 DEF Motion, InActivity, Proceed, settingVars
    <3>2. Since(currentTime, currentTime) = 0
      BY NoTimeSince DEF MotionInv
    <3> QED
      BY <3>1, <3>2 DEF MotionInv
  <2>13. CASE NoMotion
    <3>1. UNCHANGED <<build, millis, currentTime, activityStart, quiet, motionActivityDelay>>
      BY <2>13 DEF NoMotion, InActivity, Proceed, settingVars
    <3>2. motionState' = FALSE \/ motionState' = motionState
      BY <2>13 DEF NoMotion, MotionOver
    <3> QED
      BY <3>1, <3>2 DEF MotionInv
  <2> QED
    BY <2>2, <2>3, <2>4, <2>5, <2>6, <2>7, <2>8, <2>9, <2>10, <2>11, <2>12, <2>13
       DEF FirmwareNext, LoopStep, Texts
<1> QED
  BY <1>1, <1>2, PTL DEF FirmwareSpec

(***************************************************************************)
(* The loop ends the motion after the activity time and not before: the    *)
(* time on the clock never exceeds the real one, however often the clock   *)
(* wraps and the start time is set anew.                                   *)
(***************************************************************************)
THEOREM LightStays == FirmwareSpec => LightStaysOn
<1>1. ASSUME MotionInv, [FirmwareNext]_firmwareVars, pc = "activity", motionState, ~motionState'
      PROVE  quiet >= motionActivityDelay
  <2>1. motionState' # motionState
    BY <1>1
  <2>2. NoMotion
    BY <1>1, <2>1 DEF FirmwareNext, LoopStep, Texts, firmwareVars, linkVars, lightVars, Tick, LoseWiFi,
       ConnectWiFi, ConnectWiFiFails, NoEvent, WebSocketChanges, AcknowledgeText, StateText,
       SettingsText, RestartText, InText, InWebSocketLoop, CheckTimes, ReconnectWiFi,
       ReconnectWiFiFails, ReadClock, Report, SwitchDisplay, CheckTemperature, Motion, InActivity
  <2>3. Since(currentTime, activityStart) >= motionActivityDelay
    BY <2>1, <2>2 DEF NoMotion, MotionOver
  <2>4. quiet >= LongestActivity \/ Since(currentTime, activityStart) <= quiet
    BY <1>1 DEF MotionInv
  <2>5. motionActivityDelay <= LongestActivity
    BY <1>1, ActivityLimits DEF MotionInv
  <2>6. /\ quiet \in Int /\ LongestActivity \in Int /\ motionActivityDelay \in Int
        /\ Since(currentTime, activityStart) \in Int
    BY <1>1, ActivityLimits, SinceByCases, FirmwareAssumption DEF MotionInv, Clock
  <2> QED
    BY <2>3, <2>4, <2>5, <2>6
<1> QED
  BY <1>1, MotionInvariant, PTL DEF FirmwareSpec, LightStaysOn
------------------------------------------------------------------------------
(***************************************************************************)
(* The reports.  What a period may be: longer than nothing, no shorter     *)
(* than the time that measuring takes, which a relay subtracts without a   *)
(* sign, and with two turns of the loop within half of the clock, beyond   *)
(* which a thermometer's cast to int is negative.  The frontend lets a user *)
(* choose 1 to 600 seconds (WidgetHelper.cpp:62-63); measuring takes half  *)
(* a second and half of the clock is 24 days.                              *)
(***************************************************************************)
PeriodsFit ==
  /\ \A p \in Periods : p > 0 /\ MeasureTime <= p
  /\ LongestPeriod + 2 * MaxPause - 1 <= MaxMillis \div 2

(* The clock's time since the start of the period, at the end of a turn ... *)
TurnBound == LongestPeriod + MaxPause - 1

(* ... and anywhere in a turn.                                              *)
TestBound == LongestPeriod + 2 * MaxPause - 1

SilenceTypeOK ==
  /\ millis \in Clock /\ currentTime \in Clock
  /\ reportStart \in Clock /\ activityStart \in Clock
  /\ pause \in 0 .. MaxPause
  /\ period \in Periods
  /\ pc \in {"network", "check", "report", "activity"}
  /\ OnlyReports => pc # "activity"
  /\ silence \in Nat \cup {Unknown}
  /\ renewed \in BOOLEAN

(* The time since the last report that was made while there was Wi-Fi: not  *)
(* longer than the clock says, or than it says and what it said before it  *)
(* wrapped, when the period began anew soon after.                         *)
SilenceByClock ==
  \/ silence <= Since(millis, reportStart)
  \/ /\ renewed /\ reportStart <= TestBound
     /\ silence <= Since(millis, reportStart) + TestBound

(* The last motion was before the last report, or so soon after it that the *)
(* clock cannot have wrapped in between and be below both, or the clock has *)
(* just wrapped and the period begun anew.                                 *)
ActivityBehind ==
  \/ activityStart < reportStart
  \/ /\ Since(activityStart, reportStart) <= TurnBound
     /\ Since(activityStart, reportStart) <= Since(millis, reportStart)
  \/ /\ renewed /\ pc \in {"network", "check"}
     /\ Since(millis, reportStart) <= pause

(* What is known of the silence, except when the loop starts over and over  *)
(* without Wi-Fi, after which it becomes unknown.                          *)
Known == silence # Unknown /\ ~(pc = "network" /\ ~wifi)

(* The clock's time since the start of the period, in each part of the loop.*)
PeriodByClock ==
  /\ pc \in {"network", "check"} => Since(millis, reportStart) <= TurnBound + pause
  /\ pc = "report" => Since(millis, currentTime) + Since(currentTime, reportStart) <= TurnBound + pause
  /\ pc = "activity" => Since(currentTime, reportStart) < LongestPeriod

SilenceInv ==
  /\ SilenceTypeOK
  /\ pc \in {"report", "activity"} => Since(millis, currentTime) <= pause
  /\ pc = "report" /\ build = "motion_relay" => activityStart < currentTime
  /\ Known => SilenceByClock /\ PeriodByClock /\ (build = "motion_relay" => ActivityBehind)

LEMMA SilenceNumbers ==
  ASSUME PeriodsFit
  PROVE  /\ MaxMillis \in Nat /\ MaxPause \in Nat /\ MaxPause > 0 /\ MeasureTime \in Nat
         /\ LongestPeriod \in Nat /\ LongestPeriod > 0
         /\ TurnBound \in Nat /\ TestBound \in Nat
         /\ TestBound = TurnBound + MaxPause /\ TurnBound = LongestPeriod + MaxPause - 1
         /\ TestBound <= MaxMillis \div 2 /\ 2 * TestBound <= MaxMillis
         /\ TestBound + MaxPause < MaxMillis
         /\ InTime = TestBound + 1
<1>1. /\ MaxMillis \in Nat /\ MaxPause \in Nat /\ MaxPause > 0 /\ MeasureTime \in Nat
      /\ LongestPeriod \in Nat /\ LongestPeriod > 0
  BY FirmwareAssumption, PeriodLimits DEF PeriodsFit
<1>2. LongestPeriod + 2 * MaxPause - 1 <= MaxMillis \div 2
  BY DEF PeriodsFit
<1>3. MaxMillis \div 2 \in Nat /\ 2 * (MaxMillis \div 2) <= MaxMillis
  BY <1>1, SMT
<1> QED
  BY <1>1, <1>2, <1>3 DEF TurnBound, TestBound, InTime

(* A tick counts, until a whole turn of the clock has gone.                 *)
LEMMA SinceNext ==
  ASSUME NEW now \in Clock, NEW t \in Clock, Since(now, t) < MaxMillis
  PROVE  Since((now + 1) % (MaxMillis + 1), t) = Since(now, t) + 1
<1> DEFINE next == IF now = MaxMillis THEN 0 ELSE now + 1
<1>1. MaxMillis \in Nat \ {0}
  BY FirmwareAssumption
<1>2. next \in Clock /\ (now + 1) % (MaxMillis + 1) = next
  BY <1>1, NextMillis DEF Clock
<1> HIDE DEF next
<1>3. Since(now, t) = IF now >= t THEN now - t ELSE now - t + MaxMillis + 1
  BY SinceByCases
<1>4. Since(next, t) = IF next >= t THEN next - t ELSE next - t + MaxMillis + 1
  BY <1>2, SinceByCases
<1>5. Since(next, t) = Since(now, t) + 1
  BY <1>1, <1>3, <1>4 DEF next, Clock
<1> QED
  BY <1>2, <1>5

(* Within a turn of the clock the times of two stretches add up.            *)
LEMMA SinceSum ==
  ASSUME NEW a \in Clock, NEW b \in Clock, NEW c \in Clock,
         Since(a, b) + Since(b, c) <= MaxMillis
  PROVE  Since(a, c) = Since(a, b) + Since(b, c)
<1>1. MaxMillis \in Nat
  BY FirmwareAssumption
<1>2. /\ Since(a, c) = IF a >= c THEN a - c ELSE a - c + MaxMillis + 1
      /\ Since(a, b) = IF a >= b THEN a - b ELSE a - b + MaxMillis + 1
      /\ Since(b, c) = IF b >= c THEN b - c ELSE b - c + MaxMillis + 1
  BY SinceByCases
<1> QED
  BY <1>1, <1>2 DEF Clock

(* All that the invariant says of times is between the clock's limits.      *)
LEMMA SilenceTimes ==
  ASSUME PeriodsFit, SilenceInv
  PROVE  /\ Since(millis, reportStart) \in Clock
         /\ Since(millis, currentTime) \in Clock
         /\ Since(currentTime, reportStart) \in Clock
         /\ Since(activityStart, reportStart) \in Clock
         /\ pause \in Nat /\ pause <= MaxPause
         /\ Known => Since(millis, reportStart) <= TestBound
         /\ Known /\ pc \in {"report", "activity"} =>
              Since(millis, reportStart) = Since(millis, currentTime) + Since(currentTime, reportStart)
<1> DEFINE d == Since(millis, reportStart)
           c == Since(millis, currentTime)
           e == Since(currentTime, reportStart)
<1>1. /\ MaxMillis \in Nat /\ MaxPause \in Nat /\ LongestPeriod \in Nat /\ TurnBound \in Nat
      /\ TestBound = TurnBound + MaxPause /\ TurnBound = LongestPeriod + MaxPause - 1
      /\ 2 * TestBound <= MaxMillis /\ TestBound \in Nat /\ MaxPause > 0
  BY SilenceNumbers
<1>2. SilenceTypeOK
  BY DEF SilenceInv
<1>3. c \in Clock /\ d \in Clock /\ e \in Clock /\ Since(activityStart, reportStart) \in Clock
  BY <1>2, SinceByCases DEF SilenceTypeOK
<1>4. pause \in Nat /\ pause <= MaxPause
  BY <1>1, <1>2 DEF SilenceTypeOK
<1>5. ASSUME Known, pc \in {"report", "activity"}
      PROVE  d = c + e /\ d <= TestBound
  <2>1. c <= pause /\ c \in Nat /\ e \in Nat
    BY <1>3, <1>5 DEF SilenceInv, Clock
  <2>2. c + e <= TestBound
    <3>1. CASE pc = "report"
      <4>1. c + e <= TurnBound + pause
        BY <1>5, <3>1 DEF SilenceInv, PeriodByClock
      <4> QED
        BY <1>1, <1>4, <2>1, <4>1
    <3>2. CASE pc = "activity"
      <4>1. e < LongestPeriod
        BY <1>5, <3>2 DEF SilenceInv, PeriodByClock
      <4> QED
        BY <1>1, <1>4, <2>1, <4>1
    <3> QED
      BY <1>5, <3>1, <3>2
  <2>3. c + e <= MaxMillis
    BY <1>1, <2>1, <2>2
  <2>4. d = c + e
    BY <1>2, <2>3, SinceSum DEF SilenceTypeOK
  <2> QED
    BY <2>2, <2>4
<1>6. ASSUME Known, pc \in {"network", "check"}
      PROVE  d <= TestBound
  <2>1. d <= TurnBound + pause /\ d \in Nat
    BY <1>3, <1>6 DEF SilenceInv, PeriodByClock, Clock
  <2> QED
    BY <1>1, <1>4, <2>1
<1>7. pc \in {"network", "check", "report", "activity"}
  BY <1>2 DEF SilenceTypeOK
<1> QED
  BY <1>3, <1>4, <1>5, <1>6, <1>7

LEMMA TickSilence ==
  ASSUME PeriodsFit, SilenceInv, Tick
  PROVE  SilenceInv'
<1> DEFINE d == Since(millis, reportStart)
           c == Since(millis, currentTime)
           e == Since(currentTime, reportStart)
           a == Since(activityStart, reportStart)
<1>1. /\ UNCHANGED <<build, pc, currentTime, wifi, period, reportStart, activityStart, renewed>>
      /\ pause < MaxPause /\ pause' = pause + 1
      /\ millis' = (millis + 1) % (MaxMillis + 1)
      /\ silence' = IF silence = Unknown THEN Unknown ELSE AtMost(2 * InTime, silence + 1)
  BY DEF Tick, settingVars
<1>2. /\ MaxMillis \in Nat /\ MaxPause \in Nat /\ LongestPeriod \in Nat
      /\ TurnBound \in Nat /\ TestBound \in Nat /\ TestBound = TurnBound + MaxPause
      /\ TestBound + MaxPause < MaxMillis /\ InTime \in Nat
  BY SilenceNumbers
<1>3. SilenceTypeOK
  BY DEF SilenceInv
<1>4. SilenceTypeOK'
  <2>1. millis' \in Clock
    BY <1>1, <1>3, NextMillis DEF SilenceTypeOK
  <2>2. silence' \in Nat \cup {Unknown}
    BY <1>1, <1>2, <1>3 DEF SilenceTypeOK, AtMost
  <2>3. pause' \in 0 .. MaxPause
    BY <1>1, <1>2, <1>3 DEF SilenceTypeOK
  <2> QED
    BY <1>1, <1>3, <2>1, <2>2, <2>3 DEF SilenceTypeOK, OnlyReports
<1>5. /\ pause \in Nat /\ pause + 1 <= MaxPause /\ pause' = pause + 1
      /\ c \in Nat /\ d \in Nat /\ e \in Nat /\ a \in Nat
      /\ Known => d <= TestBound
  BY <1>1, <1>2, <1>3, SilenceTimes DEF SilenceTypeOK, Clock
<1>6. ASSUME pc \in {"report", "activity"}
      PROVE  c <= pause /\ Since(millis', currentTime) = c + 1
  <2>1. c <= pause
    BY <1>6 DEF SilenceInv
  <2>2. c < MaxMillis
    BY <1>2, <1>5, <2>1
  <2> QED
    BY <1>1, <1>3, <2>1, <2>2, SinceNext DEF SilenceTypeOK
<1>7. ASSUME Known'
      PROVE  SilenceByClock' /\ PeriodByClock' /\ (build' = "motion_relay" => ActivityBehind')
  <2>1. Known
    BY <1>1, <1>7 DEF Known, AtMost
  <2>2. SilenceByClock /\ PeriodByClock /\ (build = "motion_relay" => ActivityBehind)
    BY <2>1 DEF SilenceInv
  <2>3. Since(millis', reportStart) = d + 1
    <3>1. d < MaxMillis
      BY <1>2, <1>5, <2>1
    <3> QED
      BY <1>1, <1>3, <3>1, SinceNext DEF SilenceTypeOK
  <2>4. silence \in Nat /\ silence' <= silence + 1 /\ silence' \in Nat
    <3>1. silence \in Nat
      BY <1>3, <2>1 DEF Known, SilenceTypeOK
    <3>2. silence' = IF silence + 1 > 2 * InTime THEN 2 * InTime ELSE silence + 1
      BY <1>1, <2>1 DEF Known, AtMost
    <3> QED
      BY <1>2, <3>1, <3>2
  <2>5. SilenceByClock'
    <3>1. \/ silence <= d
          \/ renewed /\ reportStart <= TestBound /\ silence <= d + TestBound
      BY <2>2 DEF SilenceByClock
    <3>2. \/ silence' <= d + 1
          \/ renewed /\ reportStart <= TestBound /\ silence' <= (d + 1) + TestBound
      BY <1>2, <1>5, <2>4, <3>1
    <3> QED
      BY <1>1, <2>3, <3>2 DEF SilenceByClock
  <2>6. PeriodByClock'
    <3>1. pc \in {"network", "check"} => d + 1 <= TurnBound + pause'
      BY <1>2, <1>5, <2>2 DEF PeriodByClock
    <3>2. pc = "report" => (c + 1) + e <= TurnBound + pause'
      BY <1>2, <1>5, <2>2 DEF PeriodByClock
    <3>3. pc = "activity" => e < LongestPeriod
      BY <2>2 DEF PeriodByClock
    <3> QED
      BY <1>1, <1>6, <2>3, <3>1, <3>2, <3>3 DEF PeriodByClock
  <2>7. ASSUME build' = "motion_relay"
        PROVE  ActivityBehind'
    <3>1. \/ activityStart < reportStart
          \/ a <= TurnBound /\ a <= d
          \/ renewed /\ pc \in {"network", "check"} /\ d <= pause
      BY <1>1, <2>2, <2>7 DEF ActivityBehind
    <3>2. \/ activityStart < reportStart
          \/ a <= TurnBound /\ a <= d + 1
          \/ renewed /\ pc \in {"network", "check"} /\ d + 1 <= pause'
      BY <1>2, <1>5, <3>1
    <3> QED
      BY <1>1, <2>3, <3>2 DEF ActivityBehind
  <2> QED
    BY <2>5, <2>6, <2>7
<1>8. pc \in {"report", "activity"} => Since(millis', currentTime) <= pause'
  BY <1>5, <1>6
<1>9. pc = "report" /\ build = "motion_relay" => activityStart < currentTime
  BY DEF SilenceInv
<1> QED
  BY <1>1, <1>4, <1>7, <1>8, <1>9 DEF SilenceInv

(* An event of the web-socket, or none.                                     *)
LEMMA EventSilence ==
  ASSUME SilenceInv, pc = "network", wifi, pc' = "check", period' \in Periods,
         UNCHANGED <<build, millis, pause, currentTime, timerVars>>
  PROVE  SilenceInv'
<1>1. UNCHANGED <<reportStart, activityStart, silence, renewed>>
  BY DEF timerVars
<1>2. SilenceTypeOK'
  BY <1>1 DEF SilenceInv, SilenceTypeOK, OnlyReports
<1>3. Known' => Known
  BY <1>1 DEF Known
<1>4. Known => SilenceByClock' /\ PeriodByClock' /\ (build' = "motion_relay" => ActivityBehind')
  BY <1>1 DEF SilenceInv, SilenceByClock, PeriodByClock, ActivityBehind
<1> QED
  BY <1>2, <1>3, <1>4 DEF SilenceInv

(* The silence is unknown, or the loop is without Wi-Fi.                    *)
LEMMA UnknownSilence ==
  ASSUME SilenceTypeOK', pc' = "network", ~Known'
  PROVE  SilenceInv'
BY DEF SilenceInv

(***************************************************************************)
(* The test of the start times.  It finds the period's ahead only when the *)
(* clock has wrapped soon before, or in the millisecond of the report; the *)
(* period then begins anew, with a start time that is not ahead again.     *)
(***************************************************************************)
LEMMA ReportWrapSilence ==
  ASSUME PeriodsFit, SilenceInv, ReadClock, StartTimesChecked, ReportWrapped
  PROVE  SilenceInv'
<1> DEFINE d == Since(millis, reportStart)
<1>1. /\ pc = "check" /\ currentTime' = millis /\ UNCHANGED <<build, millis, period, silence>>
      /\ reportStart' = millis /\ activityStart' = activityStart
      /\ renewed' = (renewed \/ millis # reportStart) /\ pc' = "network" /\ pause' = 0
      /\ millis <= reportStart
  BY DEF ReadClock, StartTimesChecked, ReportWrapped, Proceed, settingVars
<1>2. /\ MaxMillis \in Nat /\ MaxPause \in Nat /\ TurnBound \in Nat /\ TestBound \in Nat
      /\ TestBound = TurnBound + MaxPause /\ 2 * TestBound <= MaxMillis
  BY SilenceNumbers
<1>3. /\ SilenceTypeOK
      /\ millis \in 0 .. MaxMillis /\ reportStart \in 0 .. MaxMillis /\ 0 \in 0 .. MaxPause
      /\ d = IF millis >= reportStart THEN millis - reportStart ELSE millis - reportStart + MaxMillis + 1
      /\ Since(millis, millis) = 0
  <2>1. SilenceTypeOK /\ 0 \in 0 .. MaxPause
    BY <1>2 DEF SilenceInv
  <2>2. millis \in Clock /\ reportStart \in Clock
    BY <2>1 DEF SilenceTypeOK
  <2>3. Since(millis, millis) = 0
    BY <2>2, NoTimeSince
  <2> QED
    BY <2>1, <2>2, <2>3, SinceByCases DEF Clock
<1>4. SilenceTypeOK'
  BY <1>1, <1>3 DEF SilenceTypeOK, OnlyReports
<1>5. ASSUME Known'
      PROVE  SilenceByClock' /\ PeriodByClock' /\ (build' = "motion_relay" => ActivityBehind')
  <2>1. Known /\ silence \in Nat
    BY <1>1, <1>3, <1>5 DEF Known, SilenceTypeOK
  <2>2. SilenceByClock /\ (build = "motion_relay" => ActivityBehind) /\ d <= TestBound
    BY <2>1, SilenceTimes DEF SilenceInv
  <2>3. PeriodByClock'
    BY <1>1, <1>2, <1>3 DEF PeriodByClock
  <2>4. CASE millis = reportStart
    <3>1. d = 0
      BY <1>3, <2>4
    <3>2. UNCHANGED <<millis, reportStart, activityStart, renewed, silence>>
      <4>1. renewed \in BOOLEAN
        BY <1>3 DEF SilenceTypeOK
      <4>2. renewed' = renewed
        BY <1>1, <2>4, <4>1, Zenon
      <4> QED
        BY <1>1, <2>4, <4>2
    <3>3. SilenceByClock'
      BY <2>2, <3>2 DEF SilenceByClock
    <3>4. ActivityBehind => ActivityBehind'
      BY <1>1, <3>1, <3>2 DEF ActivityBehind
    <3> QED
      BY <1>1, <2>2, <2>3, <3>3, <3>4
  <2>5. CASE millis < reportStart
    <3>1. d = millis - reportStart + MaxMillis + 1
      BY <1>3, <2>5
    <3>2. ~(reportStart <= TestBound) /\ millis <= TestBound
      BY <1>2, <1>3, <2>2, <3>1
    <3>3. silence <= TestBound
      BY <1>2, <1>3, <2>1, <2>2, <3>1, <3>2 DEF SilenceByClock
    <3>4. renewed'
      <4>1. millis # reportStart
        BY <1>3, <2>5
      <4> QED
        BY <1>1, <4>1, Zenon
    <3>5. SilenceByClock'
      <4>1. silence' <= 0 + TestBound /\ reportStart' <= TestBound
        BY <1>1, <1>2, <2>1, <3>2, <3>3
      <4> QED
        BY <1>1, <1>3, <3>4, <4>1 DEF SilenceByClock
    <3>6. ActivityBehind'
      BY <1>1, <1>3, <3>4 DEF ActivityBehind
    <3> QED
      BY <2>3, <3>5, <3>6
  <2> QED
    BY <1>1, <1>3, <2>4, <2>5
<1> QED
  BY <1>1, <1>4, <1>5 DEF SilenceInv

(* The last motion is tested when the clock is past the last report: if its *)
(* time lies ahead all the same, it is of this moment.                     *)
LEMMA ActivityWrapSilence ==
  ASSUME PeriodsFit, SilenceInv, ReadClock, StartTimesChecked, ~ReportWrapped, ActivityWrapped
  PROVE  SilenceInv'
<1> DEFINE d == Since(millis, reportStart)
           a == Since(activityStart, reportStart)
<1>1. /\ pc = "check" /\ currentTime' = millis
      /\ UNCHANGED <<build, millis, period, silence, reportStart, renewed>>
      /\ activityStart' = millis /\ pc' = "network" /\ pause' = 0
      /\ build = "motion_relay" /\ millis <= activityStart
  BY DEF ReadClock, StartTimesChecked, ActivityWrapped, Proceed, settingVars
<1>2. /\ MaxMillis \in Nat /\ MaxPause \in Nat /\ TurnBound \in Nat /\ LongestPeriod \in Nat
      /\ LongestPeriod > 0 /\ TurnBound = LongestPeriod + MaxPause - 1
  BY SilenceNumbers
<1>3. /\ SilenceTypeOK
      /\ millis \in 0 .. MaxMillis /\ reportStart \in 0 .. MaxMillis
      /\ activityStart \in 0 .. MaxMillis /\ 0 \in 0 .. MaxPause
      /\ d = IF millis >= reportStart THEN millis - reportStart ELSE millis - reportStart + MaxMillis + 1
      /\ a = IF activityStart >= reportStart THEN activityStart - reportStart
             ELSE activityStart - reportStart + MaxMillis + 1
  BY <1>2, SinceByCases DEF SilenceInv, SilenceTypeOK, Clock
<1>4. SilenceTypeOK'
  BY <1>1, <1>3 DEF SilenceTypeOK, OnlyReports
<1>5. reportStart < millis
  BY <1>1, <1>3 DEF ReportWrapped, Thermometers
<1>6. ASSUME Known'
      PROVE  SilenceByClock' /\ PeriodByClock' /\ ActivityBehind'
  <2>1. Known
    BY <1>1, <1>6 DEF Known
  <2>2. SilenceByClock /\ ActivityBehind
    BY <1>1, <2>1 DEF SilenceInv
  <2>3. pause \in Nat /\ pause <= MaxPause
    BY SilenceTimes
  <2>4. d <= TurnBound
    <3>1. CASE activityStart < reportStart
      BY <1>1, <1>3, <1>5, <3>1
    <3>2. CASE a <= TurnBound /\ a <= d
      BY <1>1, <1>2, <1>3, <1>5, <3>2
    <3>3. CASE d <= pause
      BY <1>2, <1>3, <2>3, <3>3
    <3> QED
      BY <2>2, <3>1, <3>2, <3>3 DEF ActivityBehind
  <2>5. d \in Nat
    BY <1>2, <1>3
  <2>6. SilenceByClock'
    BY <1>1, <2>2 DEF SilenceByClock
  <2>7. PeriodByClock'
    BY <1>1, <1>2, <2>4, <2>5 DEF PeriodByClock
  <2>8. ActivityBehind'
    BY <1>1, <2>4, <2>5 DEF ActivityBehind
  <2> QED
    BY <2>6, <2>7, <2>8
<1> QED
  BY <1>1, <1>4, <1>6 DEF SilenceInv

(* No start time lies ahead, and the loop goes on.                          *)
LEMMA PassSilence ==
  ASSUME PeriodsFit, SilenceInv, ReadClock, StartTimesChecked, ~ReportWrapped, ~ActivityWrapped
  PROVE  SilenceInv'
<1> DEFINE d == Since(millis, reportStart)
           a == Since(activityStart, reportStart)
<1>1. /\ pc = "check" /\ currentTime' = millis
      /\ UNCHANGED <<build, millis, period, silence, reportStart, activityStart, renewed, pause>>
      /\ pc' = "report"
  BY DEF ReadClock, StartTimesChecked, Proceed, settingVars
<1>2. /\ MaxMillis \in Nat /\ MaxPause \in Nat /\ TurnBound \in Nat /\ LongestPeriod \in Nat
      /\ LongestPeriod > 0 /\ TurnBound = LongestPeriod + MaxPause - 1
  BY SilenceNumbers
<1>3. /\ SilenceTypeOK
      /\ millis \in 0 .. MaxMillis /\ reportStart \in 0 .. MaxMillis
      /\ activityStart \in 0 .. MaxMillis /\ pause \in Nat /\ pause <= MaxPause
      /\ d = IF millis >= reportStart THEN millis - reportStart ELSE millis - reportStart + MaxMillis + 1
      /\ a = IF activityStart >= reportStart THEN activityStart - reportStart
             ELSE activityStart - reportStart + MaxMillis + 1
      /\ Since(millis, millis) = 0
  <2>1. SilenceTypeOK /\ pause \in Nat /\ pause <= MaxPause
    BY SilenceTimes DEF SilenceInv
  <2>2. millis \in Clock /\ reportStart \in Clock /\ activityStart \in Clock
    BY <2>1 DEF SilenceTypeOK
  <2>3. Since(millis, millis) = 0
    BY <2>2, NoTimeSince
  <2> QED
    BY <2>1, <2>2, <2>3, SinceByCases DEF Clock
<1>4. SilenceTypeOK'
  BY <1>1, <1>3 DEF SilenceTypeOK, OnlyReports
<1>5. build = "motion_relay" => reportStart < millis /\ activityStart < millis
  BY <1>3 DEF ReportWrapped, ActivityWrapped, Thermometers
<1>6. Since(millis', currentTime') = 0 /\ Since(currentTime', reportStart') = d /\ 0 <= pause'
  BY <1>1, <1>3
<1>7. ASSUME Known'
      PROVE  SilenceByClock' /\ PeriodByClock' /\ (build' = "motion_relay" => ActivityBehind')
  <2>1. Known
    BY <1>1, <1>7 DEF Known
  <2>2. SilenceByClock /\ PeriodByClock /\ (build = "motion_relay" => ActivityBehind)
    BY <2>1 DEF SilenceInv
  <2>3. d \in Nat
    BY <1>2, <1>3
  <2>4. SilenceByClock'
    BY <1>1, <2>2 DEF SilenceByClock
  <2>5. PeriodByClock'
    <3>1. d <= TurnBound + pause
      BY <1>1, <2>2 DEF PeriodByClock
    <3> QED
      BY <1>1, <1>6, <2>3, <3>1 DEF PeriodByClock
  <2>6. ASSUME build = "motion_relay"
        PROVE  ActivityBehind'
    <3>1. activityStart < reportStart \/ (a <= TurnBound /\ a <= d)
      <4>1. \/ activityStart < reportStart
            \/ a <= TurnBound /\ a <= d
            \/ d <= pause
        BY <2>2, <2>6 DEF ActivityBehind
      <4> QED
        BY <1>2, <1>3, <1>5, <2>6, <4>1
    <3> QED
      BY <1>1, <3>1 DEF ActivityBehind
  <2> QED
    BY <1>1, <2>4, <2>5, <2>6
<1> QED
  BY <1>1, <1>4, <1>5, <1>6, <1>7 DEF SilenceInv

LEMMA CheckSilence ==
  ASSUME PeriodsFit, SilenceInv, ReadClock, StartTimesChecked
  PROVE  SilenceInv'
BY ReportWrapSilence, ActivityWrapSilence, PassSilence

(* A thermometer's cast to int is harmless up to half of the clock.         *)
LEMMA NotDue ==
  ASSUME PeriodsFit, period \in Periods, ~ReportDue,
         Since(currentTime, reportStart) \in Nat,
         Since(currentTime, reportStart) <= TestBound
  PROVE  Since(currentTime, reportStart) < period
<1> DEFINE elapsed == Since(currentTime, reportStart)
<1>1. /\ MaxMillis \in Nat /\ MeasureTime \in Nat /\ LongestPeriod \in Nat
      /\ TestBound \in Nat /\ TestBound <= MaxMillis \div 2 /\ 2 * TestBound <= MaxMillis
  BY SilenceNumbers
<1>2. period \in Nat /\ period > 0 /\ MeasureTime <= period /\ period <= LongestPeriod
  BY PeriodLimits DEF PeriodsFit
<1>3. CASE build \in Thermometers
  <2>1. ~(Signed(elapsed) >= period - MeasureTime)
    BY <1>3 DEF ReportDue, Thermometers, Relays
  <2>2. ~(elapsed > MaxMillis \div 2)
    <3>1. MaxMillis \div 2 \in Nat
      BY <1>1, SMT
    <3> QED
      BY <1>1, <3>1
  <2>3. Signed(elapsed) = elapsed
    BY <2>2 DEF Signed
  <2> QED
    BY <1>1, <1>2, <2>1, <2>3
<1>4. CASE build \in Relays
  <2>1. ~(elapsed >= Since(period, MeasureTime))
    BY <1>4 DEF ReportDue, Relays, Thermometers
  <2>2. LongestPeriod <= MaxMillis
    BY FirmwareAssumption, PeriodLimits, <1>1
  <2>3. period \in Clock /\ MeasureTime \in Clock
    BY <1>1, <1>2, <2>2 DEF Clock
  <2>4. Since(period, MeasureTime) = period - MeasureTime
    BY <1>2, <2>3, SinceByCases
  <2> QED
    BY <1>1, <1>2, <2>1, <2>4
<1>5. CASE build \notin Thermometers \cup Relays
  <2>1. ~(elapsed >= period)
    BY <1>5 DEF ReportDue
  <2> QED
    BY <1>2, <2>1
<1> QED
  BY <1>3, <1>4, <1>5

(* The periodic report, or the decision that it is not due.                 *)
LEMMA ReportSilence ==
  ASSUME PeriodsFit, SilenceInv, Report
  PROVE  SilenceInv'
<1> DEFINE d == Since(millis, reportStart)
           c == Since(millis, currentTime)
           e == Since(currentTime, reportStart)
<1>1. /\ MaxMillis \in Nat /\ MaxPause \in Nat /\ MaxPause > 0
      /\ LongestPeriod \in Nat /\ LongestPeriod > 0
      /\ TurnBound \in Nat /\ TurnBound = LongestPeriod + MaxPause - 1
      /\ TestBound \in Nat
  BY SilenceNumbers
<1>2. SilenceTypeOK
  BY DEF SilenceInv
<1>3. /\ pc = "report" /\ UNCHANGED <<build, millis, currentTime, wifi, period, activityStart>>
      /\ pc' = IF OnlyReports THEN "network" ELSE "activity"
      /\ pause' = IF pc' = "network" THEN 0 ELSE pause
  BY DEF Report, Proceed, settingVars
<1>4. /\ c \in Nat /\ d \in Nat /\ e \in Nat /\ pause \in Nat /\ pause <= MaxPause
      /\ c <= pause
      /\ Known => d = c + e /\ d <= TestBound
  BY <1>3, SilenceTimes DEF SilenceInv, Clock
<1>5. pc' \in {"network", "activity"} /\ (pc' = "activity" => Since(millis', currentTime') <= pause')
  BY <1>3, <1>4
<1>6. CASE ReportDue
  <2>1. reportStart' = currentTime /\ silence' = c /\ renewed' = FALSE
    BY <1>6 DEF Report
  <2>2. SilenceTypeOK'
    <3>1. pause' \in 0 .. MaxPause
      BY <1>1, <1>3, <1>4
    <3> QED
      BY <1>2, <1>3, <1>4, <2>1, <3>1 DEF SilenceTypeOK, OnlyReports
  <2>3. Since(millis', reportStart') = c /\ Since(currentTime', reportStart') = 0
    BY <1>2, <1>3, <2>1, NoTimeSince DEF SilenceTypeOK
  <2>4. SilenceByClock'
    BY <1>4, <2>1, <2>3 DEF SilenceByClock
  <2>5. PeriodByClock'
    <3>1. c <= TurnBound + pause' /\ 0 < LongestPeriod
      BY <1>1, <1>3, <1>4
    <3> QED
      BY <1>5, <2>3, <3>1 DEF PeriodByClock
  <2>6. build = "motion_relay" => ActivityBehind'
    BY <1>3, <2>1 DEF SilenceInv, ActivityBehind
  <2> QED
    BY <1>3, <1>5, <2>2, <2>4, <2>5, <2>6 DEF SilenceInv
<1>7. CASE ~ReportDue
  <2>1. UNCHANGED <<reportStart, silence, renewed>>
    BY <1>7 DEF Report
  <2>2. SilenceTypeOK'
    <3>1. pause' \in 0 .. MaxPause
      BY <1>1, <1>3, <1>4
    <3> QED
      BY <1>2, <1>3, <2>1, <3>1 DEF SilenceTypeOK, OnlyReports
  <2>3. ASSUME Known'
        PROVE  SilenceByClock' /\ PeriodByClock' /\ (build = "motion_relay" => ActivityBehind')
    <3>1. Known
      BY <1>3, <2>1, <2>3 DEF Known
    <3>2. SilenceByClock /\ (build = "motion_relay" => ActivityBehind) /\ d = c + e /\ d <= TestBound
      BY <1>4, <3>1 DEF SilenceInv
    <3>3. e < period
      <4>1. e <= TestBound
        BY <1>1, <1>4, <3>2
      <4> QED
        BY <1>2, <1>4, <1>7, <4>1, NotDue DEF SilenceTypeOK
    <3>4. period \in Nat /\ period <= LongestPeriod
      BY <1>2, PeriodLimits DEF SilenceTypeOK
    <3>5. SilenceByClock'
      BY <1>3, <2>1, <3>2 DEF SilenceByClock
    <3>6. PeriodByClock'
      <4>1. d <= TurnBound + pause' /\ e < LongestPeriod
        BY <1>1, <1>3, <1>4, <3>2, <3>3, <3>4
      <4> QED
        BY <1>3, <1>5, <2>1, <4>1 DEF PeriodByClock
    <3>7. build = "motion_relay" => ActivityBehind'
      BY <1>3, <2>1, <3>2 DEF ActivityBehind
    <3> QED
      BY <3>5, <3>6, <3>7
  <2> QED
    BY <1>3, <1>5, <2>2, <2>3 DEF SilenceInv
<1> QED
  BY <1>6, <1>7

(* What follows the report, and the end of the turn.                        *)
LEMMA ActivitySilence ==
  ASSUME PeriodsFit, SilenceInv, NEW of, InActivity(of),
         build = "motion_relay" => activityStart' \in {activityStart, currentTime},
         activityStart' \in Clock
  PROVE  SilenceInv'
<1> DEFINE d == Since(millis, reportStart)
           c == Since(millis, currentTime)
           e == Since(currentTime, reportStart)
<1>1. /\ pc = "activity" /\ pc' = "network" /\ pause' = 0
      /\ UNCHANGED <<build, millis, currentTime, wifi, period, reportStart, silence, renewed>>
  BY DEF InActivity, Proceed, settingVars
<1>2. /\ MaxMillis \in Nat /\ MaxPause \in Nat /\ LongestPeriod \in Nat
      /\ TurnBound \in Nat /\ TurnBound = LongestPeriod + MaxPause - 1 /\ 0 \in 0 .. MaxPause
  BY SilenceNumbers
<1>3. SilenceTypeOK /\ SilenceTypeOK'
  BY <1>1, <1>2 DEF SilenceInv, SilenceTypeOK, OnlyReports
<1>4. ASSUME Known'
      PROVE  SilenceByClock' /\ PeriodByClock' /\ (build = "motion_relay" => ActivityBehind')
  <2>1. Known
    BY <1>1, <1>4 DEF Known
  <2>2. /\ SilenceByClock /\ (build = "motion_relay" => ActivityBehind)
        /\ e < LongestPeriod /\ c <= pause
    BY <1>1, <2>1 DEF SilenceInv, PeriodByClock
  <2>3. /\ c \in Nat /\ d \in Nat /\ e \in Nat /\ pause \in Nat /\ pause <= MaxPause
        /\ d = c + e
    BY <1>1, <2>1, SilenceTimes DEF Clock
  <2>4. d <= TurnBound /\ e <= TurnBound /\ e <= d
    BY <1>2, <2>2, <2>3
  <2>5. SilenceByClock'
    BY <1>1, <2>2 DEF SilenceByClock
  <2>6. PeriodByClock'
    BY <1>1, <1>2, <2>3, <2>4 DEF PeriodByClock
  <2>7. ASSUME build = "motion_relay"
        PROVE  ActivityBehind'
    <3>1. CASE activityStart' = activityStart
      BY <1>1, <2>2, <2>7, <3>1 DEF ActivityBehind
    <3>2. CASE activityStart' = currentTime
      BY <1>1, <2>4, <3>2 DEF ActivityBehind
    <3> QED
      BY <2>7, <3>1, <3>2
  <2> QED
    BY <2>5, <2>6, <2>7
<1> QED
  BY <1>1, <1>3, <1>4 DEF SilenceInv

(* The invariant of the silence.                                            *)
LEMMA SilenceInvariant == PeriodsFit => (FirmwareSpec => []SilenceInv)
<1> SUFFICES ASSUME PeriodsFit
             PROVE  FirmwareSpec => []SilenceInv
  OBVIOUS
<1>0. 0 \in Clock /\ 0 \in 0 .. MaxPause /\ Least(Periods) \in Periods
  BY FirmwareAssumption, PeriodLimits DEF Clock
<1>1. ASSUME FirmwareInit
      PROVE  SilenceInv
  <2>1. /\ pc = "network" /\ pause = 0 /\ wifi = FALSE /\ period = Least(Periods)
        /\ millis = 0 /\ currentTime = 0 /\ reportStart = 0 /\ activityStart = 0
        /\ silence = 0 /\ renewed = FALSE
    BY <1>1 DEF FirmwareInit
  <2>2. SilenceTypeOK
    BY <1>0, <2>1 DEF SilenceTypeOK
  <2>3. ~Known
    BY <2>1 DEF Known
  <2> QED
    BY <2>1, <2>2, <2>3 DEF SilenceInv
<1>2. SilenceInv /\ [FirmwareNext]_firmwareVars => SilenceInv'
  <2> SUFFICES ASSUME SilenceInv, [FirmwareNext]_firmwareVars
               PROVE  SilenceInv'
    OBVIOUS
  <2>0. SilenceTypeOK
    BY DEF SilenceInv
  <2>1. CASE UNCHANGED firmwareVars
    BY <2>1 DEF firmwareVars, clockVars, linkVars, settingVars, timerVars, SilenceInv, SilenceTypeOK,
       Known, SilenceByClock, PeriodByClock, ActivityBehind, OnlyReports
  <2>2. CASE Tick
    BY <2>2, TickSilence
  <2>3. CASE LoseWiFi
    <3>1. /\ UNCHANGED <<build, pc, millis, pause, currentTime, period>> /\ wifi /\ ~wifi'
          /\ UNCHANGED <<reportStart, activityStart, silence, renewed>>
      BY <2>3 DEF LoseWiFi, clockVars, settingVars, timerVars
    <3>2. Known' => Known
      BY <3>1 DEF Known
    <3>3. SilenceTypeOK'
      BY <2>0, <3>1 DEF SilenceTypeOK, OnlyReports
    <3>4. Known => SilenceByClock' /\ PeriodByClock' /\ (build' = "motion_relay" => ActivityBehind')
      BY <3>1 DEF SilenceInv, SilenceByClock, PeriodByClock, ActivityBehind
    <3> QED
      BY <3>1, <3>2, <3>3, <3>4 DEF SilenceInv
  <2>4. CASE ConnectWiFi
    <3>1. /\ UNCHANGED <<build, millis, currentTime, reportStart, activityStart, period>>
          /\ pc' = "network" /\ pause' = 0 /\ silence' = Unknown /\ renewed' = FALSE
      BY <2>4 DEF ConnectWiFi, Proceed, settingVars
    <3>2. SilenceTypeOK' /\ ~Known'
      BY <1>0, <2>0, <3>1 DEF SilenceTypeOK, Known, OnlyReports
    <3> QED
      BY <3>1, <3>2, UnknownSilence
  <2>5. CASE ConnectWiFiFails
    <3>1. /\ UNCHANGED <<build, millis, currentTime, period, wifi>> /\ pc' = "network"
          /\ UNCHANGED <<reportStart, activityStart, silence, renewed>>
          /\ pause' = 0 /\ ~wifi
      BY <2>5 DEF ConnectWiFiFails, Proceed, settingVars, timerVars, linkVars
    <3>2. SilenceTypeOK' /\ ~Known'
      BY <1>0, <2>0, <3>1 DEF SilenceTypeOK, Known, OnlyReports
    <3> QED
      BY <3>1, <3>2, UnknownSilence
  <2>6. ASSUME InWebSocketLoop, period' \in Periods
        PROVE  SilenceInv'
    <3>1. /\ pc = "network" /\ wifi /\ pc' = "check"
          /\ UNCHANGED <<build, millis, pause, currentTime, timerVars>>
      BY <2>6 DEF InWebSocketLoop, Proceed
    <3> QED
      BY <2>6, <3>1, EventSilence
  <2>7. CASE NoEvent \/ WebSocketChanges \/ AcknowledgeText \/ StateText
    <3>1. InWebSocketLoop /\ period' = period
      BY <2>7 DEF NoEvent, WebSocketChanges, AcknowledgeText, StateText, InText, settingVars
    <3> QED
      BY <2>0, <2>6, <3>1 DEF SilenceTypeOK
  <2>8. CASE SettingsText
    <3>1. InWebSocketLoop /\ period' \in Periods
      BY <2>8 DEF SettingsText, InText
    <3> QED
      BY <2>6, <3>1
  <2>9. CASE RestartText
    <3>1. /\ build' = build /\ pc' = "network" /\ pause' = 0 /\ ~wifi' /\ period' = Least(Periods)
          /\ millis' = 0 /\ currentTime' = 0 /\ reportStart' = 0 /\ activityStart' = 0
          /\ silence' = 0 /\ renewed' = FALSE
      BY <2>9 DEF RestartText, Proceed, Setup
    <3>2. SilenceTypeOK' /\ ~Known'
      BY <1>0, <2>0, <3>1 DEF SilenceTypeOK, Known, OnlyReports
    <3> QED
      BY <3>1, <3>2, UnknownSilence
  <2>10. CASE CheckTimes \/ ReconnectWiFi
    <3>1. ReadClock /\ StartTimesChecked
      BY <2>10 DEF CheckTimes, ReconnectWiFi
    <3> QED
      BY <3>1, CheckSilence
  <2>11. CASE ReconnectWiFiFails
    <3>1. /\ UNCHANGED <<build, millis, reportStart, activityStart, period, silence, renewed>>
          /\ pc' = "network" /\ pause' = 0 /\ ~wifi' /\ currentTime' = millis
      BY <2>11 DEF ReconnectWiFiFails, ReadClock, Proceed, settingVars
    <3>2. SilenceTypeOK' /\ ~Known'
      BY <1>0, <2>0, <3>1 DEF SilenceTypeOK, Known, OnlyReports
    <3> QED
      BY <3>1, <3>2, UnknownSilence
  <2>12. CASE Report
    BY <2>12, ReportSilence
  <2>13. CASE SwitchDisplay \/ CheckTemperature \/ Motion \/ NoMotion
    <3>1. \E of \in {"thermometer_with_display", "relay_as_thermostat", "motion_relay"} : InActivity(of)
      BY <2>13 DEF SwitchDisplay, CheckTemperature, Motion, NoMotion
    <3>2. activityStart' \in {activityStart, currentTime}
      BY <2>13 DEF SwitchDisplay, CheckTemperature, Motion, NoMotion
    <3>3. activityStart' \in Clock
      BY <2>0, <3>2 DEF SilenceTypeOK
    <3> QED
      BY <3>1, <3>2, <3>3, ActivitySilence
  <2> QED
    BY <2>1, <2>2, <2>3, <2>4, <2>5, <2>7, <2>8, <2>9, <2>10, <2>11, <2>12, <2>13
       DEF FirmwareNext, LoopStep, Texts
<1> QED
  BY <1>1, <1>2, PTL DEF FirmwareSpec

(***************************************************************************)
(* In every build, at every point of the loop and in every turn of it, the *)
(* last report is no longer ago than a period and two turns, or than twice *)
(* that where a wrap of the clock made the period begin anew.  For the     *)
(* wrap is noticed only when the clock is below the start time, hence      *)
(* within a period after it went over zero, and the new start time is then *)
(* so small that it is not noticed again; and the time of the last motion, *)
(* which ends a turn as well, lies ahead only while the period is not over *)
(* or in a turn that leaves the report for the next.                       *)
(***************************************************************************)
THEOREM AlwaysReportsInTime == PeriodsFit => (FirmwareSpec => []ReportsInTime)
<1> SUFFICES ASSUME PeriodsFit
             PROVE  FirmwareSpec => []ReportsInTime
  OBVIOUS
<1>1. ASSUME SilenceInv
      PROVE  ReportsInTime
  <2> SUFFICES ASSUME wifi, silence # Unknown
               PROVE  silence < IF renewed THEN 2 * InTime ELSE InTime
    BY DEF ReportsInTime
  <2>1. TestBound \in Nat /\ InTime = TestBound + 1
    BY SilenceNumbers
  <2>2. Known /\ silence \in Nat
    BY <1>1 DEF Known, SilenceInv, SilenceTypeOK
  <2>3. Since(millis, reportStart) \in Nat /\ Since(millis, reportStart) <= TestBound
    BY <1>1, <2>2, SilenceTimes DEF Clock
  <2>4. \/ silence <= Since(millis, reportStart)
        \/ renewed /\ silence <= Since(millis, reportStart) + TestBound
    BY <1>1, <2>2 DEF SilenceInv, SilenceByClock
  <2>5. CASE silence <= Since(millis, reportStart)
    BY <2>1, <2>2, <2>3, <2>5
  <2>6. CASE renewed /\ silence <= Since(millis, reportStart) + TestBound
    BY <2>1, <2>2, <2>3, <2>6
  <2> QED
    BY <2>4, <2>5, <2>6
<1> QED
  BY <1>1, SilenceInvariant, PTL

(***************************************************************************)
(* A report is passed over only within the period of this moment and one   *)
(* turn, except after a wrap of the clock that made the period begin anew. *)
(***************************************************************************)
THEOREM NeverLongSilent == PeriodsFit => (FirmwareSpec => NoLongSilence)
<1> SUFFICES ASSUME PeriodsFit
             PROVE  FirmwareSpec => NoLongSilence
  OBVIOUS
<1>1. ASSUME SilenceInv, [FirmwareNext]_firmwareVars,
             pc = "report", pc' # "report", reportStart' = reportStart
      PROVE  silence < period + MaxPause + IF renewed THEN InTime ELSE 0
  <2> DEFINE d == Since(millis, reportStart)
             c == Since(millis, currentTime)
             e == Since(currentTime, reportStart)
  <2>1. Report
    BY <1>1 DEF FirmwareNext, LoopStep, Texts, firmwareVars, Tick, LoseWiFi,
       ConnectWiFi, ConnectWiFiFails, NoEvent, WebSocketChanges, AcknowledgeText, StateText,
       SettingsText, RestartText, InText, InWebSocketLoop, CheckTimes, ReconnectWiFi,
       ReconnectWiFiFails, ReadClock, SwitchDisplay, CheckTemperature, Motion, NoMotion, InActivity
  <2>2. /\ MaxPause \in Nat /\ MaxPause > 0 /\ LongestPeriod \in Nat
        /\ TestBound \in Nat /\ InTime = TestBound + 1
    BY SilenceNumbers
  <2>3. SilenceTypeOK /\ period \in Nat /\ period > 0
    BY <1>1, PeriodLimits DEF SilenceInv, SilenceTypeOK, PeriodsFit
  <2>4. /\ c \in Nat /\ d \in Nat /\ e \in Nat /\ pause \in Nat /\ pause <= MaxPause
        /\ c <= pause
        /\ Known => d = c + e /\ d <= TestBound
    BY <1>1, SilenceTimes DEF SilenceInv, Clock
  <2>5. CASE silence = Unknown
    BY <2>2, <2>3, <2>5 DEF Unknown
  <2>6. CASE silence # Unknown
    <3>1. Known /\ silence \in Nat
      BY <1>1, <2>3, <2>6 DEF Known, SilenceTypeOK
    <3>2. d = c + e /\ d <= TestBound
      BY <2>4, <3>1
    <3>3. e < period
      <4>1. CASE ~ReportDue
        <5>1. e <= TestBound
          BY <2>2, <2>4, <3>2
        <5> QED
          BY <2>3, <2>4, <4>1, <5>1, NotDue DEF SilenceTypeOK
      <4>2. CASE ReportDue
        <5>1. reportStart = currentTime
          BY <1>1, <2>1, <4>2 DEF Report
        <5>2. e = 0
          BY <2>3, <5>1, NoTimeSince DEF SilenceTypeOK
        <5> QED
          BY <2>3, <5>2
      <4> QED
        BY <4>1, <4>2
    <3>4. d < period + MaxPause
      BY <2>2, <2>3, <2>4, <3>2, <3>3
    <3>5. silence <= d \/ (renewed /\ silence <= d + TestBound)
      BY <1>1, <3>1 DEF SilenceInv, SilenceByClock
    <3>6. CASE silence <= d
      BY <2>2, <2>3, <2>4, <3>1, <3>4, <3>6
    <3>7. CASE renewed /\ silence <= d + TestBound
      BY <2>2, <2>3, <2>4, <3>1, <3>4, <3>7
    <3> QED
      BY <3>5, <3>6, <3>7
  <2> QED
    BY <2>5, <2>6
<1> QED
  BY <1>1, SilenceInvariant, PTL DEF FirmwareSpec, NoLongSilence
==============================================================================
