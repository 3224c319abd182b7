---------------------------- MODULE FrontendProofs ----------------------------
(***************************************************************************)
(* Proofs about a session of the frontend, for any devices, readings and   *)
(* bounds: what the pages of the devices show is of the device they are    *)
(* open for, and what the button of a relay says is what it sends.         *)
(***************************************************************************)
EXTENDS Frontend, SequenceTheorems, TLAPS

(* What a device of a type can have reported.                               *)
Values(type) == {[ValueOf(type, json) EXCEPT !.timestamp = t] : json \in Readings[type], t \in Nat}

(* The first of some values is as new as all of them.                       *)
NewestFirst(values) ==
  /\ values # <<>> => 1 \in DOMAIN values
  /\ \A i \in DOMAIN values : values[i].timestamp \in Nat /\ values[i].timestamp <= values[1].timestamp

ReportsOK ==
  /\ now \in Nat
  /\ DOMAIN reports = Devices
  /\ \A d \in Devices :
       /\ reports[d] \in Seq(Values(TypeOf[d]))
       /\ NewestFirst(reports[d])
       /\ \A i \in DOMAIN reports[d] : reports[d][i].timestamp <= now

DevicesOK == \A x \in devices : "id" \in DOMAIN x /\ x.id \in Devices

ButtonsOK == DOMAIN buttons = DOMAIN NoButtons /\ \A b \in buttons.devices : b.id \in Devices

(* A page that is not open has no device, and no values of any.             *)
Closed(page) == page.device = Nobody /\ page.cached = <<>>

(* The page of a device.                                                    *)
ValuesOf(values, d) == Range(values) \subseteq Range(reports[d])

OpenFor(type, page, d) ==
  /\ page.device = d /\ TypeOf[d] = type
  /\ ValuesOf(page.cached, d) /\ NewestFirst(page.cached)
  /\ ~Page[type].chart => page.cached = <<>>
  /\ ValuesOf(page.shown, d)
  /\ page.asked # Unset => page.shown # <<>> /\ page.shown[1].timestamp = page.asked
  /\ Page[type].button /\ page.shown # <<>> => (page.label = "on" <=> page.state = 0)

PageOK(type) ==
  /\ DOMAIN pages[type] = DOMAIN NewPage
  /\ pages[type].seconds \in Nat
  /\ IF open = type THEN \E d \in Devices : OpenFor(type, pages[type], d) ELSE Closed(pages[type])

PagesOK == DOMAIN pages = DeviceTypes /\ \A type \in DeviceTypes : PageOK(type)

SessionInv == ReportsOK /\ DevicesOK /\ ButtonsOK /\ PagesOK
------------------------------------------------------------------------------
(* From a device to a page.                                                 *)

Normal(values) == [parameter \in DOMAIN values |-> UniversalData(values[parameter])]

LEMMA NormalTwice ==
  ASSUME NEW values
  PROVE  Normal(Normal(values)) = Normal(values)
<1>1. \A x : UniversalData(x).type \in UniversalDataTypes
  BY DEF UniversalData, EnumOf, UniversalDataTypes
<1>2. \A x : UniversalData(UniversalData(x)) = UniversalData(x)
  <2> SUFFICES ASSUME NEW x
               PROVE  UniversalData(UniversalData(x)) = UniversalData(x)
    OBVIOUS
  <2>1. UniversalData(x) = [type |-> UniversalData(x).type, value |-> UniversalData(x).value]
    BY DEF UniversalData
  <2> DEFINE y == UniversalData(x)
  <2>2. "type" \in DOMAIN y /\ y = [type |-> y.type, value |-> y.value] /\ y.type \in UniversalDataTypes
    BY <1>1, <2>1
  <2> HIDE DEF y
  <2>3. UniversalData(y) = y
    BY <2>2 DEF UniversalData, EnumOf
  <2> QED
    BY <2>3 DEF y
<1> QED
  BY <1>2 DEF Normal

(* What was read once, and is written and read again, stays what it is: a   *)
(* reading of the state of a motion relay, too, which was lost before.     *)
LEMMA ReadAgain ==
  ASSUME NEW type \in DeviceTypes, NEW v \in Values(type)
  PROVE  ValueOf(type, Json(ValueType(type), v)) = v
<1>1. PICK json \in Readings[type], t \in Nat : v = [ValueOf(type, json) EXCEPT !.timestamp = t]
  BY DEF Values
<1>0. t # Unset /\ MissingInt # Unset /\ MissingFloat # Unset /\ Required # Unset
  <2>1. MissingInt \in Int /\ MissingFloat \in Int
    BY SMT DEF MissingInt, MissingFloat
  <2> QED
    BY <2>1, MarkersAssumption
<1>2. CASE type = "thermometer"
  <2>1. v = [Object(ThermometerValue, json) EXCEPT !.timestamp = t] /\ ValueType(type) = ThermometerValue
    BY <1>1, <1>2 DEF ValueOf, ValueType
  <2>2. /\ DOMAIN v = {"value", "timestamp"} /\ v.timestamp = t
        /\ v = [key \in {"value", "timestamp"} |-> v[key]]
    BY <2>1 DEF Object, ThermometerValue
  <2>3. Json(ThermometerValue, v) = v
    BY <1>0, <2>2 DEF Json, ThermometerValue
  <2>4. Object(ThermometerValue, v) = v
    BY <2>2 DEF Object, ThermometerValue
  <2> QED
    BY <1>2, <2>1, <2>3, <2>4 DEF ValueOf
<1>3. CASE type = "relay"
  <2>1. v = [Object(RelayValue, json) EXCEPT !.timestamp = t] /\ ValueType(type) = RelayValue
    BY <1>1, <1>3 DEF ValueOf, ValueType
  <2>2. /\ DOMAIN v = {"state", "timestamp"} /\ v.timestamp = t
        /\ v = [key \in {"state", "timestamp"} |-> v[key]]
    BY <2>1 DEF Object, RelayValue
  <2>3. Json(RelayValue, v) = v
    BY <1>0, <2>2 DEF Json, RelayValue
  <2>4. Object(RelayValue, v) = v
    BY <2>2 DEF Object, RelayValue
  <2> QED
    BY <1>3, <2>1, <2>3, <2>4 DEF ValueOf
<1>4. CASE type = "motion_relay"
  <2>1. v = [MotionRelayValueOf(json) EXCEPT !.timestamp = t] /\ ValueType(type) = MotionRelayValue
    BY <1>1, <1>4 DEF ValueOf, ValueType
  <2>2. /\ DOMAIN v = {"motion", "state", "timestamp"} /\ v.timestamp = t
        /\ v = [key \in {"motion", "state", "timestamp"} |-> v[key]]
    BY <2>1 DEF MotionRelayValueOf, Object, MotionRelayValue
  <2>3. v.state = MissingInt
    <3>1. "value" \notin DOMAIN json
      BY <1>4, PagesAssumption
    <3> QED
      BY <2>1, <3>1 DEF MotionRelayValueOf, Object, MotionRelayValue
  <2>4. Json(MotionRelayValue, v) = v
    <3> DEFINE T == MotionRelayValue
    <3>1. DOMAIN T = {"motion", "state", "timestamp"} /\ T.motion = FALSE /\ T.state = MissingInt
      BY DEF MotionRelayValue
    <3> HIDE DEF T
    <3>2. T.motion # Unset
      <4>1. T.motion \in BOOLEAN
        BY <3>1
      <4> QED
        BY <4>1, MarkersAssumption
    <3>3. \A k \in DOMAIN T : T[k] = Unset => v[k] # Unset
      BY <1>0, <2>2, <3>1, <3>2
    <3>4. Json(T, v) = v
      BY <2>2, <3>1, <3>3 DEF Json
    <3> QED
      BY <3>4 DEF T
  <2>5. Object(MotionRelayValue, v) = v
    BY <2>2 DEF Object, MotionRelayValue
  <2>6. MotionRelayValueOf(v) = [v EXCEPT !.state = MissingInt]
    BY <2>2, <2>5 DEF MotionRelayValueOf
  <2>7. MotionRelayValueOf(v) = v
    BY <2>2, <2>3, <2>6
  <2> QED
    BY <1>4, <2>1, <2>4, <2>7 DEF ValueOf
<1>5. CASE type = "universal_device"
  <2>1. v = [UniversalValueOf(json) EXCEPT !.timestamp = t] /\ ValueType(type) = UniversalValue
    BY <1>1, <1>5 DEF ValueOf, ValueType
  <2>2. /\ DOMAIN v = {"values", "timestamp"} /\ v.timestamp = t
        /\ v = [key \in {"values", "timestamp"} |-> v[key]]
    BY <2>1 DEF UniversalValueOf, Object, UniversalValue
  <2>3. v.values = Normal(Object(UniversalValue, json).values)
    BY <2>1 DEF UniversalValueOf, Normal, Object, UniversalValue
  <2>4. Json(UniversalValue, v) = v
    BY <1>0, <2>2 DEF Json, UniversalValue
  <2>5. Object(UniversalValue, v) = v
    BY <2>2 DEF Object, UniversalValue
  <2>6. UniversalValueOf(v) = [v EXCEPT !.values = Normal(v.values)]
    BY <2>5 DEF UniversalValueOf, Normal
  <2>7. Normal(v.values) = v.values
    BY <2>3, NormalTwice
  <2>8. UniversalValueOf(v) = v
    BY <2>2, <2>6, <2>7
  <2> QED
    BY <1>5, <2>1, <2>4, <2>8 DEF ValueOf
<1> QED
  BY <1>2, <1>3, <1>4, <1>5 DEF DeviceTypes

(* The request of a page reaches the server as it was meant.                *)
LEMMA RequestArrives ==
  ASSUME NEW type, NEW d, NEW seconds,
         NEW message, NEW info,
         message = MessageOf(Json(Message, CreateClientMessage(
                     Json(Information, [type |-> type, id |-> d, seconds |-> seconds])))),
         info = Object(Information, message.data)
  PROVE  /\ message.header.subject = "get_device_information"
         /\ info.type = type /\ info.id = d /\ info.seconds = seconds
<1> DEFINE data == [type |-> type, id |-> d, seconds |-> seconds]
           header == [id |-> NewId, description |-> ClientProvider, subject |-> "get_device_information"]
           sent == [header |-> header, data |-> data]
<1>1. Required # Unset /\ 0 # Unset
  <2>1. 0 \in Int
    OBVIOUS
  <2> QED
    BY <2>1, MarkersAssumption
<1>2. Json(Information, data) = data
  <2> DEFINE T == Information
  <2>1. DOMAIN T = {"type", "id", "seconds"} /\ \A k \in DOMAIN T : T[k] # Unset
    BY <1>1 DEF Information
  <2> HIDE DEF T
  <2>2. Json(T, data) = data
    BY <2>1 DEF Json
  <2> QED
    BY <2>2 DEF T
<1>3. CreateClientMessage(data) = sent
  BY DEF CreateClientMessage
<1>4. Json(Message, sent) = sent
  <2> DEFINE T == Message
  <2>1. DOMAIN T = {"header", "data"} /\ \A k \in DOMAIN T : T[k] # Unset
    BY <1>1 DEF Message
  <2> HIDE DEF T
  <2>2. Json(T, sent) = sent
    BY <2>1 DEF Json
  <2> QED
    BY <2>2 DEF T
<1>5. message = MessageOf(sent)
  BY <1>2, <1>3, <1>4
<1>6. Object(MessageHeader, header).subject = "get_device_information"
      /\ DOMAIN Object(MessageHeader, header) = {"id", "description", "subject"}
  BY DEF Object, MessageHeader
<1>7. message.header.subject = "get_device_information" /\ message.data = data
  <2> DEFINE h == Object(MessageHeader, header)
             m == Object(Message, sent)
  <2>1. sent.header = header
    OBVIOUS
  <2>2. DOMAIN m = {"header", "data"} /\ m.data = data
    BY DEF Object, Message
  <2>3. message = [m EXCEPT !.header = [h EXCEPT !.subject = EnumOf(Subjects, h.subject, "undefined_subject")]]
    BY <1>5, <2>1 DEF MessageOf
  <2>4. EnumOf(Subjects, h.subject, "undefined_subject") = "get_device_information"
    BY <1>6 DEF EnumOf, Subjects
  <2>5. DOMAIN h = {"id", "description", "subject"}
    BY <1>6
  <2> HIDE DEF h, m, sent, header, data
  <2> QED
    BY <2>2, <2>3, <2>4, <2>5
<1>8. Object(Information, data) = data
  BY DEF Object, Information
<1> QED
  BY <1>7, <1>8

(* What a page gets of its device: values that it reported, the newest one  *)
(* first; and that one whenever there is one and the request is answered.  *)
LEMMA ValuesArrive ==
  ASSUME ReportsOK, NEW type \in DeviceTypes, NEW d \in Devices, TypeOf[d] = type,
         NEW seconds \in Nat, NEW ok \in BOOLEAN, NEW values, values = GetValues(type, d, seconds, ok)
  PROVE  /\ ValuesOf(values, d) /\ NewestFirst(values)
         /\ ok /\ reports[d] # <<>> => values # <<>> /\ values[1] = reports[d][1]
         /\ values # <<>> => values[1] = reports[d][1]
         /\ seconds = 0 => Range(values) \subseteq {reports[d][1]}
<1> DEFINE all == reports[d]
<1>1. /\ all \in Seq(Values(type)) /\ NewestFirst(all) /\ now \in Nat
      /\ \A i \in DOMAIN all : all[i].timestamp <= now
  BY DEF ReportsOK
<1>2. PICK message, info :
        /\ message = MessageOf(Json(Message, CreateClientMessage(
                       Json(Information, [type |-> type, id |-> d, seconds |-> seconds]))))
        /\ info = Object(Information, message.data)
  OBVIOUS
<1>3. /\ message.header.subject = "get_device_information"
      /\ info.type = type /\ info.id = d /\ info.seconds = seconds
  BY <1>2, RequestArrives
<1> DEFINE late == {i \in DOMAIN all : all[i].timestamp > now - seconds}
           recent == Restrict(all, late)
<1>4. PICK reply :
        /\ reply = IF all = <<>> THEN <<>> ELSE IF recent = <<>> THEN <<all[1]>> ELSE recent
        /\ values = IF ok THEN [i \in DOMAIN reply |-> ValueOf(type, Json(ValueType(type), reply[i]))] ELSE <<>>
  BY <1>2, <1>3 DEF GetValues, GetDeviceInfo
<1>5. /\ DOMAIN reply \subseteq DOMAIN all
      /\ \A i \in DOMAIN reply : reply[i] = all[i]
      /\ all # <<>> => reply # <<>> /\ 1 \in DOMAIN reply
      /\ seconds = 0 => DOMAIN reply \subseteq {1}
  <2>1. CASE all = <<>>
    BY <1>4, <2>1
  <2>2. CASE all # <<>> /\ recent = <<>>
    <3>1. reply = <<all[1]>> /\ 1 \in DOMAIN all
      BY <1>1, <1>4, <2>2 DEF NewestFirst
    <3> QED
      BY <2>2, <3>1
  <2>3. CASE all # <<>> /\ recent # <<>>
    <3>1. DOMAIN recent = late /\ \A i \in late : recent[i] = all[i]
      BY DEF Restrict
    <3>2. late # {}
      BY <2>3 DEF Restrict
    <3>3. PICK i \in DOMAIN all : all[i].timestamp > now - seconds
      BY <3>2
    <3>4. /\ 1 \in DOMAIN all /\ all[i].timestamp \in Nat /\ all[1].timestamp \in Nat
          /\ all[i].timestamp <= all[1].timestamp
      BY <1>1, <2>3, <3>3 DEF NewestFirst
    <3>5. 1 \in late
      BY <1>1, <3>3, <3>4
    <3>6. seconds # 0
      <4>1. all[i].timestamp <= now
        BY <1>1
      <4> QED
        BY <1>1, <3>3, <3>4, <4>1
    <3>7. reply = recent
      BY <1>4, <2>3
    <3> HIDE DEF recent, late
    <3> QED
      BY <2>3, <3>1, <3>5, <3>6, <3>7 DEF late
  <2> QED
    BY <2>1, <2>2, <2>3
<1>6. \A i \in DOMAIN reply : ValueOf(type, Json(ValueType(type), reply[i])) = reply[i]
  <2> SUFFICES ASSUME NEW i \in DOMAIN reply
               PROVE  ValueOf(type, Json(ValueType(type), reply[i])) = reply[i]
    OBVIOUS
  <2>1. reply[i] \in Values(type)
    BY <1>1, <1>5
  <2> QED
    BY <2>1, ReadAgain
<1>7. CASE ~ok
  BY <1>4, <1>7 DEF ValuesOf, NewestFirst, Range
<1>8. CASE ok
  <2>1. DOMAIN values = DOMAIN reply /\ \A i \in DOMAIN values : values[i] = all[i]
    BY <1>4, <1>5, <1>6, <1>8
  <2>2. values # <<>> => 1 \in DOMAIN values
    <3>1. CASE all = <<>>
      BY <1>4, <1>8, <3>1
    <3>2. CASE all # <<>>
      BY <1>5, <2>1, <3>2
    <3> QED
      BY <3>1, <3>2
  <2>3. ValuesOf(values, d)
    BY <1>5, <2>1 DEF ValuesOf, Range
  <2>4. NewestFirst(values)
    BY <1>1, <1>5, <2>1, <2>2 DEF NewestFirst
  <2>5. seconds = 0 => Range(values) \subseteq {all[1]}
    BY <1>5, <2>1 DEF Range
  <2>6. all # <<>> => values # <<>> /\ values[1] = all[1]
    BY <1>5, <2>1
  <2> QED
    BY <2>1, <2>2, <2>3, <2>4, <2>5, <2>6
<1> QED
  BY <1>7, <1>8

LEMMA NewestIsFirst ==
  ASSUME NEW values, NewestFirst(values), values # <<>>
  PROVE  Newest(values) = values[1].timestamp
<1> DEFINE times == {values[i].timestamp : i \in DOMAIN values}
<1>1. values[1].timestamp \in times /\ \A t \in times : t \in Nat /\ t <= values[1].timestamp
  BY DEF NewestFirst
<1>2. \E t \in times : \A u \in times : t >= u
  BY <1>1
<1>3. Max(times) \in times /\ \A u \in times : Max(times) >= u
  BY <1>2 DEF Max
<1> HIDE DEF times
<1>4. Max(times) = values[1].timestamp
  BY <1>1, <1>3
<1> QED
  BY <1>4 DEF Newest, times

(* The values that a page has stay those of its device when they are still  *)
(* as new as the newest one.                                               *)
LEMMA CachedArrive ==
  ASSUME ReportsOK, NEW type \in DeviceTypes, NEW d \in Devices, TypeOf[d] = type,
         NEW page, page.seconds \in Nat, ValuesOf(page.cached, d), NewestFirst(page.cached),
         NEW ok \in [{"name", "grp", "newest", "values"} -> BOOLEAN],
         NEW values, values = CachedValues(type, d, page, ok)
  PROVE  /\ ValuesOf(values, d) /\ NewestFirst(values)
         /\ reports[d] # <<>> /\ ok.newest /\ ok.values =>
              values # <<>> /\ values[1].timestamp = reports[d][1].timestamp
<1>1. PICK last : last = GetValues(type, d, 0, ok.newest)
  OBVIOUS
<1>2. PICK fresh : fresh = GetValues(type, d, page.seconds, ok.values)
  OBVIOUS
<1>3. 0 \in Nat /\ ok.newest \in BOOLEAN /\ ok.values \in BOOLEAN
  OBVIOUS
<1>4. /\ ValuesOf(last, d) /\ NewestFirst(last)
      /\ ok.newest /\ reports[d] # <<>> => last # <<>> /\ last[1] = reports[d][1]
  BY <1>1, <1>3, ValuesArrive
<1>5. /\ ValuesOf(fresh, d) /\ NewestFirst(fresh)
      /\ ok.values /\ reports[d] # <<>> => fresh # <<>> /\ fresh[1] = reports[d][1]
  BY <1>2, <1>3, ValuesArrive
<1>6. values = IF page.cached = <<>> \/ last = <<>> \/ last[1].timestamp # Newest(page.cached)
                 THEN fresh ELSE page.cached
  BY <1>1, <1>2 DEF CachedValues
<1>7. page.cached # <<>> => Newest(page.cached) = page.cached[1].timestamp
  BY NewestIsFirst
<1> QED
  BY <1>4, <1>5, <1>6, <1>7

LEMMA PageKeys ==
  DOMAIN NewPage = {"device", "name", "grp", "seconds", "cached", "shown", "state", "label",
                    "enabled", "parameters", "models", "asked"}
BY DEF NewPage

(* What a page draws of its values.                                         *)
LEMMA ShownPage ==
  ASSUME NEW type \in DeviceTypes, NEW d, NEW page, DOMAIN page = DOMAIN NewPage,
         NEW values, ValuesOf(values, d), NewestFirst(values),
         NEW filled, filled = Shows(type, page, values)
  PROVE  /\ DOMAIN filled = DOMAIN NewPage
         /\ \A key \in {"device", "seconds", "cached", "enabled", "asked"} : filled[key] = page[key]
         /\ ValuesOf(filled.shown, d)
         /\ values # <<>> => filled.shown # <<>> /\ filled.shown[1] = values[1]
         /\ Page[type].button /\ filled.shown # <<>> => (filled.label = "on" <=> filled.state = 0)
<1> USE PageKeys
<1>1. ASSUME values = <<>>
      PROVE  filled = [page EXCEPT !.shown = <<>>, !.label = "on", !.parameters = {}, !.models = {}]
  BY <1>1 DEF Shows, ClearData
<1>2. CASE values = <<>>
  <2>1. /\ DOMAIN filled = DOMAIN NewPage /\ filled.shown = <<>>
        /\ \A key \in {"device", "seconds", "cached", "enabled", "asked"} : filled[key] = page[key]
    BY <1>1, <1>2
  <2>2. Range(<<>>) = {}
    BY DEF Range
  <2> QED
    BY <1>2, <2>1, <2>2 DEF ValuesOf
<1>3. CASE values # <<>> /\ type \in {"thermometer", "universal_device"}
  <2>1. ~Page[type].button
    BY <1>3 DEF Page, ThermometerWidget, UniversalDeviceWidget
  <2>2. \/ filled = [page EXCEPT !.shown = values]
        \/ \E known, drawn : filled = [page EXCEPT !.shown = values, !.parameters = known, !.models = drawn]
    BY <1>3 DEF Shows, ThermometerShows, UniversalDeviceShows
  <2> QED
    BY <1>3, <2>1, <2>2
<1>4. ASSUME NEW drawn, drawn # <<>>, drawn[1] = values[1], ValuesOf(drawn, d),
             filled = RelayShows(page, drawn)
      PROVE  /\ DOMAIN filled = DOMAIN NewPage
             /\ \A key \in {"device", "seconds", "cached", "enabled", "asked"} : filled[key] = page[key]
             /\ ValuesOf(filled.shown, d)
             /\ filled.shown # <<>> /\ filled.shown[1] = values[1]
             /\ filled.label = "on" <=> filled.state = 0
  <2>1. filled = [page EXCEPT !.shown = drawn, !.state = drawn[1].state,
                              !.label = IF drawn[1].state # 0 THEN "off" ELSE "on"]
    BY <1>4 DEF RelayShows
  <2> QED
    BY <1>4, <2>1
<1>5. CASE values # <<>> /\ type = "relay"
  <2>1. filled = RelayShows(page, values)
    BY <1>5 DEF Shows
  <2> QED
    BY <1>4, <1>5, <2>1
<1>6. CASE values # <<>> /\ type = "motion_relay"
  <2>1. filled = RelayShows(page, <<values[1]>>)
    BY <1>6 DEF Shows, MotionRelayShows
  <2>2. ValuesOf(<<values[1]>>, d)
    <3>1. values[1] \in Range(values)
      BY <1>6 DEF NewestFirst, Range
    <3>2. Range(<<values[1]>>) = {values[1]}
      BY DEF Range
    <3> QED
      BY <3>1, <3>2 DEF ValuesOf
  <2> QED
    BY <1>4, <1>6, <2>1, <2>2
<1> QED
  BY <1>2, <1>3, <1>5, <1>6 DEF DeviceTypes

(* Initialize() for a device ...                                            *)
LEMMA FilledPage ==
  ASSUME ReportsOK, NEW type \in DeviceTypes, NEW d \in Devices, TypeOf[d] = type,
         NEW page, DOMAIN page = DOMAIN NewPage, page.seconds \in Nat,
         ValuesOf(page.cached, d), NewestFirst(page.cached),
         NEW ok \in [{"name", "grp", "newest", "values"} -> BOOLEAN],
         NEW filled, filled = Initialized(type, d, page, ok)
  PROVE  /\ DOMAIN filled = DOMAIN NewPage
         /\ filled.seconds \in Nat
         /\ OpenFor(type, filled, d)
<1>1. d # Nobody
  BY PagesAssumption
<1>2. PICK values : values = IF Page[type].chart THEN CachedValues(type, d, page, ok)
                              ELSE GetValues(type, d, 0, ok.newest)
  OBVIOUS
<1>3. 0 \in Nat /\ ok.newest \in BOOLEAN /\ ok.values \in BOOLEAN
  OBVIOUS
<1>4. /\ ValuesOf(values, d) /\ NewestFirst(values)
      /\ reports[d] # <<>> /\ ok.newest /\ ok.values =>
           values # <<>> /\ values[1].timestamp = reports[d][1].timestamp
  <2>1. CASE Page[type].chart
    BY <1>2, <2>1, CachedArrive
  <2>2. CASE ~Page[type].chart
    BY <1>2, <1>3, <2>2, ValuesArrive
  <2> QED
    BY <2>1, <2>2
<1>5. PICK titled :
        /\ titled = [page EXCEPT !.device = d,
                       !.name = GetDeviceProperty(d, "name", ok.name),
                       !.grp = GetDeviceProperty(d, "grp", ok.grp),
                       !.enabled = TRUE,
                       !.cached = IF Page[type].chart THEN values ELSE <<>>,
                       !.asked = IF reports[d] # <<>> /\ ok.newest /\ ok.values
                                   THEN reports[d][1].timestamp ELSE Unset]
        /\ filled = Shows(type, titled, values)
  BY <1>1, <1>2 DEF Initialized
<1>6. /\ DOMAIN titled = DOMAIN NewPage
      /\ titled.device = d /\ titled.seconds = page.seconds
      /\ titled.cached = IF Page[type].chart THEN values ELSE <<>>
      /\ titled.asked = IF reports[d] # <<>> /\ ok.newest /\ ok.values
                          THEN reports[d][1].timestamp ELSE Unset
  BY <1>5, PageKeys
<1>7. /\ DOMAIN filled = DOMAIN NewPage
      /\ filled.device = d /\ filled.seconds = page.seconds
      /\ filled.cached = titled.cached /\ filled.asked = titled.asked
      /\ ValuesOf(filled.shown, d)
      /\ values # <<>> => filled.shown # <<>> /\ filled.shown[1] = values[1]
      /\ Page[type].button /\ filled.shown # <<>> => (filled.label = "on" <=> filled.state = 0)
  <2>1. ValuesOf(values, d) /\ NewestFirst(values) /\ DOMAIN titled = DOMAIN NewPage
    BY <1>4, <1>6
  <2>2. filled = Shows(type, titled, values)
    BY <1>5
  <2>3. /\ DOMAIN filled = DOMAIN NewPage
        /\ \A key \in {"device", "seconds", "cached", "enabled", "asked"} : filled[key] = titled[key]
        /\ ValuesOf(filled.shown, d)
        /\ values # <<>> => filled.shown # <<>> /\ filled.shown[1] = values[1]
        /\ Page[type].button /\ filled.shown # <<>> => (filled.label = "on" <=> filled.state = 0)
    BY <2>1, <2>2, ShownPage
  <2> QED
    BY <1>6, <2>3
<1>8. ValuesOf(filled.cached, d) /\ NewestFirst(filled.cached)
  BY <1>4, <1>6, <1>7 DEF ValuesOf, NewestFirst, Range
<1>9. filled.asked # Unset => filled.shown # <<>> /\ filled.shown[1].timestamp = filled.asked
  BY <1>4, <1>6, <1>7
<1>10. ~Page[type].chart => filled.cached = <<>>
  BY <1>6, <1>7
<1> QED
  BY <1>7, <1>8, <1>9, <1>10 DEF OpenFor

(* ... and for none.                                                        *)
LEMMA EmptiedPage ==
  ASSUME NEW type, NEW page, DOMAIN page = DOMAIN NewPage, NEW ok,
         NEW emptied, emptied = Initialized(type, Nobody, page, ok)
  PROVE  /\ DOMAIN emptied = DOMAIN NewPage
         /\ emptied.seconds = page.seconds /\ emptied.device = Nobody /\ emptied.cached = page.cached
BY PageKeys DEF Initialized, ClearData
------------------------------------------------------------------------------
(* The steps of a session.                                                  *)

LEMMA ReportsKept ==
  ASSUME ReportsOK, UNCHANGED <<reports, now>>
  PROVE  ReportsOK'
BY DEF ReportsOK

LEMMA ListKept ==
  ASSUME DevicesOK, UNCHANGED devices
  PROVE  DevicesOK'
BY DEF DevicesOK

LEMMA ButtonsKept ==
  ASSUME ButtonsOK, UNCHANGED buttons
  PROVE  ButtonsOK'
BY DEF ButtonsOK

LEMMA NoneListed == DOMAIN NoButtons = {"scenarios", "boxes", "devices"} /\ NoButtons.devices = {}
BY DEF NoButtons

LEMMA ButtonsGone ==
  ASSUME buttons' = NoButtons
  PROVE  ButtonsOK'
BY NoneListed DEF ButtonsOK

(* Neither is a page opened or left, nor does one change.                   *)
LEMMA PagesKept ==
  ASSUME PagesOK, UNCHANGED <<reports, pages>>,
         open' = open \/ (open \notin DeviceTypes /\ open' \notin DeviceTypes)
  PROVE  PagesOK'
<1>1. ASSUME NEW type \in DeviceTypes
      PROVE  PageOK(type)'
  <2>1. PageOK(type)
    BY DEF PagesOK
  <2>2. open' = type <=> open = type
    OBVIOUS
  <2>3. \A d \in Devices : OpenFor(type, pages[type], d) => OpenFor(type, pages[type], d)'
    BY DEF OpenFor, ValuesOf
  <2> QED
    BY <2>1, <2>2, <2>3 DEF PageOK
<1> QED
  BY <1>1 DEF PagesOK

(* The page of one type changes.                                            *)
LEMMA OnePageChanges ==
  ASSUME PagesOK, UNCHANGED reports, NEW type \in DeviceTypes, NEW page,
         pages' = [pages EXCEPT ![type] = page],
         \A other \in DeviceTypes : other # type => (open' = other <=> open = other),
         DOMAIN page = DOMAIN NewPage, page.seconds \in Nat,
         IF open' = type THEN \E d \in Devices : OpenFor(type, page, d) ELSE Closed(page)
  PROVE  PagesOK'
<1>1. DOMAIN pages' = DeviceTypes /\ pages'[type] = page
  BY DEF PagesOK
<1>2. PageOK(type)'
  <2>1. \A d \in Devices : OpenFor(type, page, d) => OpenFor(type, pages[type], d)'
    BY <1>1 DEF OpenFor, ValuesOf
  <2> QED
    BY <1>1, <2>1 DEF PageOK
<1>3. ASSUME NEW other \in DeviceTypes, other # type
      PROVE  PageOK(other)'
  <2>1. PageOK(other) /\ pages'[other] = pages[other] /\ (open' = other <=> open = other)
    BY <1>3 DEF PagesOK
  <2>2. \A d \in Devices : OpenFor(other, pages[other], d) => OpenFor(other, pages[other], d)'
    BY <2>1 DEF OpenFor, ValuesOf
  <2> QED
    BY <2>1, <2>2 DEF PageOK
<1> QED
  BY <1>1, <1>2, <1>3 DEF PagesOK

(* Every page is made anew.                                                 *)
LEMMA NewPages ==
  ASSUME pages' = [type \in DeviceTypes |-> NewPage], open' \notin DeviceTypes
  PROVE  PagesOK'
<1>1. NewPage.seconds \in Nat /\ NewPage.device = Nobody /\ NewPage.cached = <<>>
  BY PagesAssumption DEF NewPage
<1>2. \A type \in DeviceTypes : pages'[type] = NewPage
  OBVIOUS
<1>3. \A type \in DeviceTypes : PageOK(type)'
  BY <1>1, <1>2 DEF PageOK, Closed, NewPage
<1> QED
  BY <1>3 DEF PagesOK

(* A page is filled, or what it was to draw ends the session.               *)
LEMMA Fills ==
  ASSUME NEW type, NEW d, NEW page, NEW next, Fill(type, d, page, next)
  PROVE  \/ /\ open' = next
            /\ buttons' = NoButtons \/ UNCHANGED buttons
            /\ \E ok \in [{"name", "grp", "newest", "values"} -> BOOLEAN] :
                 pages' = [pages EXCEPT ![type] = Initialized(type, d, page, ok)]
         \/ SessionEnds
BY DEF Fill, Outcomes

LEMMA EndedPages ==
  ASSUME SessionEnds
  PROVE  PagesOK'
<1>1. open' \notin DeviceTypes /\ pages' = [type \in DeviceTypes |-> NewPage]
  BY DEF SessionEnds, DeviceTypes
<1> QED
  BY <1>1, NewPages

LEMMA FilledButtons ==
  ASSUME ButtonsOK, NEW type, NEW d, NEW page, NEW next, Fill(type, d, page, next)
  PROVE  ButtonsOK'
<1>1. buttons' = NoButtons \/ UNCHANGED buttons
  BY Fills DEF SessionEnds
<1> QED
  BY <1>1, ButtonsGone, ButtonsKept

(* A page is filled for the device it is open for.                          *)
LEMMA FillOpen ==
  ASSUME ReportsOK, PagesOK, UNCHANGED reports, NEW type \in DeviceTypes, NEW d \in Devices, TypeOf[d] = type,
         NEW page, DOMAIN page = DOMAIN NewPage, page.seconds \in Nat,
         ValuesOf(page.cached, d), NewestFirst(page.cached),
         open = type \/ open \notin DeviceTypes, Fill(type, d, page, type)
  PROVE  PagesOK'
<1>1. CASE SessionEnds
  BY <1>1, EndedPages
<1>2. CASE ~SessionEnds
  <2>1. open' = type
    BY <1>2, Fills
  <2>2. PICK ok \in [{"name", "grp", "newest", "values"} -> BOOLEAN] :
          pages' = [pages EXCEPT ![type] = Initialized(type, d, page, ok)]
    BY <1>2, Fills
  <2>3. PICK filled : filled = Initialized(type, d, page, ok)
    OBVIOUS
  <2>4. DOMAIN filled = DOMAIN NewPage /\ filled.seconds \in Nat /\ OpenFor(type, filled, d)
    BY <2>3, FilledPage
  <2>5. pages' = [pages EXCEPT ![type] = filled]
    BY <2>2, <2>3
  <2>6. \A other \in DeviceTypes : other # type => (open' = other <=> open = other)
    BY <2>1
  <2> QED
    BY <2>1, <2>4, <2>5, <2>6, OnePageChanges
<1> QED
  BY <1>1, <1>2

LEMMA RefreshTimerPages ==
  ASSUME SessionInv, NEW type \in DeviceTypes, RefreshTimer(type)
  PROVE  PagesOK'
<1>1. Fill(type, pages[type].device, pages[type], open) /\ UNCHANGED reports
  BY DEF RefreshTimer, serverVars
<1>2. PageOK(type) /\ PagesOK /\ ReportsOK
  BY DEF SessionInv, PagesOK
<1>3. CASE open = type
  <2>1. PICK d \in Devices : OpenFor(type, pages[type], d)
    BY <1>2, <1>3 DEF PageOK
  <2>2. /\ pages[type].device = d /\ TypeOf[d] = type
        /\ ValuesOf(pages[type].cached, d) /\ NewestFirst(pages[type].cached)
    BY <2>1 DEF OpenFor
  <2>3. Fill(type, d, pages[type], type)
    BY <1>1, <1>3, <2>2
  <2>4. DOMAIN pages[type] = DOMAIN NewPage /\ pages[type].seconds \in Nat
    BY <1>2 DEF PageOK
  <2> QED
    BY <1>1, <1>2, <1>3, <2>2, <2>3, <2>4, FillOpen
<1>4. CASE SessionEnds
  BY <1>4, EndedPages
<1>5. CASE open # type /\ ~SessionEnds
  <2>1. PICK ok \in [{"name", "grp", "newest", "values"} -> BOOLEAN] :
          pages' = [pages EXCEPT ![type] = Initialized(type, pages[type].device, pages[type], ok)]
    BY <1>1, <1>5, Fills
  <2>2. Closed(pages[type]) /\ DOMAIN pages[type] = DOMAIN NewPage /\ pages[type].seconds \in Nat
    BY <1>2, <1>5 DEF PageOK
  <2>3. PICK emptied : emptied = Initialized(type, Nobody, pages[type], ok)
    OBVIOUS
  <2>4. /\ DOMAIN emptied = DOMAIN NewPage
        /\ emptied.seconds = pages[type].seconds /\ emptied.device = Nobody
        /\ emptied.cached = pages[type].cached
    BY <2>2, <2>3, EmptiedPage
  <2>5. pages' = [pages EXCEPT ![type] = emptied]
    BY <2>1, <2>2, <2>3 DEF Closed
  <2>6. Closed(emptied)
    BY <2>2, <2>4 DEF Closed
  <2>7. open' = open
    BY <1>1, <1>5, Fills
  <2> QED
    BY <1>1, <1>2, <1>5, <2>2, <2>4, <2>5, <2>6, <2>7, OnePageChanges
<1> QED
  BY <1>3, <1>4, <1>5

LEMMA SelectSecondsPages ==
  ASSUME SessionInv, NEW type \in DeviceTypes, SelectSeconds(type)
  PROVE  PagesOK'
<1>1. /\ open = type /\ UNCHANGED reports
      /\ \E s \in Seconds :
           Fill(type, pages[type].device, [pages[type] EXCEPT !.seconds = s, !.cached = <<>>], open)
  BY DEF SelectSeconds, serverVars
<1>2. PageOK(type) /\ PagesOK /\ ReportsOK
  BY DEF SessionInv, PagesOK
<1>3. PICK d \in Devices : OpenFor(type, pages[type], d)
  BY <1>1, <1>2 DEF PageOK
<1>4. PICK s \in Seconds : Fill(type, pages[type].device, [pages[type] EXCEPT !.seconds = s, !.cached = <<>>], open)
  BY <1>1
<1>5. PICK page :
        /\ page = [pages[type] EXCEPT !.seconds = s, !.cached = <<>>]
        /\ Fill(type, pages[type].device, page, open)
  BY <1>4
<1>6. pages[type].device = d /\ TypeOf[d] = type /\ s \in Nat
  BY <1>3, PagesAssumption DEF OpenFor
<1>7. DOMAIN page = DOMAIN NewPage /\ page.seconds \in Nat /\ page.cached = <<>>
  BY <1>2, <1>5, <1>6, PageKeys DEF PageOK
<1>8. ValuesOf(page.cached, d) /\ NewestFirst(page.cached)
  BY <1>7 DEF ValuesOf, NewestFirst, Range
<1>9. Fill(type, d, page, type)
  BY <1>1, <1>5, <1>6
<1> QED
  BY <1>1, <1>2, <1>6, <1>7, <1>8, <1>9, FillOpen

LEMMA OpenDevicePages ==
  ASSUME SessionInv, OpenDevice
  PROVE  PagesOK' /\ ButtonsOK'
<1>1. /\ open = "Devices" /\ UNCHANGED reports
      /\ \E b \in buttons.devices : Fill(TypeOf[b.id], b.id, pages[TypeOf[b.id]], TypeOf[b.id])
  BY DEF OpenDevice, SeesDevices, serverVars
<1>2. PICK d \in Devices : Fill(TypeOf[d], d, pages[TypeOf[d]], TypeOf[d])
  BY <1>1 DEF SessionInv, ButtonsOK
<1>3. PICK type \in DeviceTypes : type = TypeOf[d]
  BY PagesAssumption
<1>4. open \notin DeviceTypes
  BY <1>1 DEF DeviceTypes
<1>5. PageOK(type) /\ PagesOK /\ ReportsOK /\ ButtonsOK
  BY DEF SessionInv, PagesOK
<1>6. Closed(pages[type]) /\ DOMAIN pages[type] = DOMAIN NewPage /\ pages[type].seconds \in Nat
  BY <1>4, <1>5 DEF PageOK
<1>7. ValuesOf(pages[type].cached, d) /\ NewestFirst(pages[type].cached)
  BY <1>6 DEF Closed, ValuesOf, NewestFirst, Range
<1>8. ButtonsOK'
  BY <1>2, <1>5, FilledButtons
<1> QED
  BY <1>1, <1>2, <1>3, <1>4, <1>5, <1>6, <1>7, <1>8, FillOpen

LEMMA BackFromDevicePages ==
  ASSUME SessionInv, NEW type \in DeviceTypes, BackFromDevice(type)
  PROVE  PagesOK'
<1>1. /\ open = type /\ open' = "Devices" /\ UNCHANGED reports
      /\ pages' = [pages EXCEPT ![type] = [OnBack(type, pages[type]) EXCEPT !.device = Nobody]]
  BY DEF BackFromDevice, ShowDevices, serverVars, SessionInv, PagesOK
<1>2. PageOK(type) /\ PagesOK
  BY DEF SessionInv, PagesOK
<1>3. PICK page : page = [OnBack(type, pages[type]) EXCEPT !.device = Nobody]
  OBVIOUS
<1>4. "Devices" \notin DeviceTypes
  BY DEF DeviceTypes
<1>5. DOMAIN pages[type] = DOMAIN NewPage /\ pages[type].seconds \in Nat /\ DefaultSeconds \in Nat
  BY <1>2, PagesAssumption DEF PageOK
<1>6. DOMAIN page = DOMAIN NewPage /\ page.seconds \in Nat /\ Closed(page)
  <2>1. CASE type = "motion_relay"
    <3>1. page = [pages[type] EXCEPT !.device = Nobody]
      BY <1>3, <2>1 DEF OnBack
    <3>2. pages[type].cached = <<>>
      BY <1>1, <1>2, <2>1 DEF PageOK, OpenFor, Page, MotionRelayWidget
    <3> QED
      BY <1>5, <3>1, <3>2, PageKeys DEF Closed
  <2>2. CASE type # "motion_relay"
    <3>1. \/ page = [[pages[type] EXCEPT !.seconds = DefaultSeconds, !.cached = <<>>] EXCEPT !.device = Nobody]
          \/ page = [ClearData([pages[type] EXCEPT !.seconds = DefaultSeconds, !.cached = <<>>])
                       EXCEPT !.device = Nobody]
      BY <1>3, <2>2 DEF OnBack
    <3> QED
      BY <1>5, <3>1, PageKeys DEF Closed, ClearData
  <2> QED
    BY <2>1, <2>2
<1>7. open' # type /\ \A other \in DeviceTypes : other # type => (open' = other <=> open = other)
  BY <1>1, <1>4
<1>8. pages' = [pages EXCEPT ![type] = page]
  BY <1>1, <1>3
<1> QED
  BY <1>1, <1>2, <1>6, <1>7, <1>8, OnePageChanges

(* A report adds the newest value of its device.                            *)
LEMMA ReportArrives ==
  ASSUME ReportsOK, PagesOK, NEW d \in Devices, Report(d)
  PROVE  ReportsOK' /\ PagesOK'
<1>1. PICK json \in Readings[TypeOf[d]] :
        reports' = [reports EXCEPT ![d] =
                      <<[ValueOf(TypeOf[d], json) EXCEPT !.timestamp = now]>> \o reports[d]]
  BY DEF Report, ReportsOK
<1>2. UNCHANGED <<now, open, pages>>
  BY DEF Report, sessionVars
<1>3. PICK v : v = [ValueOf(TypeOf[d], json) EXCEPT !.timestamp = now]
  OBVIOUS
<1>4. now \in Nat /\ DOMAIN reports = Devices /\ reports[d] \in Seq(Values(TypeOf[d]))
  BY DEF ReportsOK
<1>5. v \in Values(TypeOf[d])
  BY <1>3, <1>4 DEF Values
<1>6. v.timestamp = now
  <2>1. "timestamp" \in DOMAIN ValueOf(TypeOf[d], json)
    <3>1. TypeOf[d] \in DeviceTypes
      BY PagesAssumption
    <3>2. CASE TypeOf[d] = "thermometer"
      BY <3>2 DEF ValueOf, Object, ThermometerValue
    <3>3. CASE TypeOf[d] = "relay"
      BY <3>3 DEF ValueOf, Object, RelayValue
    <3>4. CASE TypeOf[d] = "motion_relay"
      BY <3>4 DEF ValueOf, MotionRelayValueOf, Object, MotionRelayValue
    <3>5. CASE TypeOf[d] = "universal_device"
      BY <3>5 DEF ValueOf, UniversalValueOf, Object, UniversalValue
    <3> QED
      BY <3>1, <3>2, <3>3, <3>4, <3>5 DEF DeviceTypes
  <2> QED
    BY <1>3, <2>1
<1>7. PICK all : all = <<v>> \o reports[d]
  OBVIOUS
<1>8. /\ all \in Seq(Values(TypeOf[d]))
      /\ Len(all) = Len(reports[d]) + 1 /\ Len(reports[d]) \in Nat
      /\ \A i \in 1 .. Len(all) : all[i] = IF i = 1 THEN v ELSE reports[d][i - 1]
  BY <1>4, <1>5, <1>7
<1>9. DOMAIN all = 1 .. Len(all) /\ DOMAIN reports[d] = 1 .. Len(reports[d])
  BY <1>4, <1>8
<1>10. 1 \in DOMAIN all /\ all[1] = v
  BY <1>8, <1>9
<1>11. \A i \in DOMAIN all : all[i].timestamp \in Nat /\ all[i].timestamp <= now
  <2> SUFFICES ASSUME NEW i \in DOMAIN all
               PROVE  all[i].timestamp \in Nat /\ all[i].timestamp <= now
    OBVIOUS
  <2>1. CASE i = 1
    BY <1>4, <1>6, <1>10, <2>1
  <2>2. CASE i # 1
    <3>1. i - 1 \in DOMAIN reports[d] /\ all[i] = reports[d][i - 1]
      BY <1>8, <1>9, <2>2
    <3> QED
      BY <3>1 DEF ReportsOK, NewestFirst
  <2> QED
    BY <2>1, <2>2
<1>12. NewestFirst(all)
  BY <1>6, <1>10, <1>11 DEF NewestFirst
<1>13. DOMAIN reports' = Devices /\ reports'[d] = all
       /\ \A e \in Devices : e # d => reports'[e] = reports[e]
  BY <1>1, <1>3, <1>4, <1>7
<1>14. ReportsOK'
  <2>1. ASSUME NEW e \in Devices
        PROVE  /\ reports'[e] \in Seq(Values(TypeOf[e]))
               /\ NewestFirst(reports'[e])
               /\ \A i \in DOMAIN reports'[e] : reports'[e][i].timestamp <= now
    <3>1. CASE e = d
      BY <1>8, <1>11, <1>12, <1>13, <3>1
    <3>2. CASE e # d
      BY <1>13, <3>2 DEF ReportsOK
    <3> QED
      BY <3>1, <3>2
  <2>2. \A e \in Devices : NewestFirst(reports'[e]) => NewestFirst(reports[e])'
    BY DEF NewestFirst
  <2>3. \A type \in DeviceTypes : Values(type)' = Values(type)
    BY DEF Values, ValueOf, MotionRelayValueOf, UniversalValueOf
  <2>4. \A e \in Devices : TypeOf[e] \in DeviceTypes
    BY PagesAssumption
  <2> QED
    BY <1>2, <1>4, <1>13, <2>1, <2>2, <2>3, <2>4 DEF ReportsOK
<1>15. \A e \in Devices : Range(reports[e]) \subseteq Range(reports'[e])
  <2>1. Range(reports[d]) \subseteq Range(all)
    <3> SUFFICES ASSUME NEW i \in DOMAIN reports[d]
                 PROVE  \E j \in DOMAIN all : all[j] = reports[d][i]
      BY DEF Range
    <3>1. i + 1 \in DOMAIN all /\ all[i + 1] = reports[d][i]
      BY <1>8, <1>9
    <3> QED
      BY <3>1
  <2> QED
    BY <1>13, <2>1
<1>16. PagesOK'
  <2>1. ASSUME NEW type \in DeviceTypes
        PROVE  PageOK(type)'
    <3>1. PageOK(type)
      BY DEF PagesOK
    <3>2. \A e \in Devices : OpenFor(type, pages[type], e) => OpenFor(type, pages[type], e)'
      BY <1>2, <1>15 DEF OpenFor, ValuesOf
    <3> QED
      BY <1>2, <3>1, <3>2 DEF PageOK
  <2> QED
    BY <1>2, <2>1 DEF PagesOK
<1> QED
  BY <1>14, <1>16
------------------------------------------------------------------------------
(* The buttons of the devices.                                              *)

LEMMA ButtonOf ==
  ASSUME NEW device, NEW border, NEW ok
  PROVE  DeviceButton(device, border, ok).id = device.id
BY DEF DeviceButton

LEMMA ListedDevice ==
  ASSUME NEW x
  PROVE  DeviceOf(Json(Device, x)).id = x.id
<1>1. Required # Unset
  BY MarkersAssumption
<1>2. DOMAIN Device = {"id", "type", "name", "grp", "timestamp"} /\ \A k \in DOMAIN Device : Device[k] # Unset
  BY <1>1 DEF Device
<1>3. PICK json : json = Json(Device, x)
  OBVIOUS
<1>4. DOMAIN json = DOMAIN Device /\ json.id = x.id
  BY <1>2, <1>3 DEF Json
<1>5. PICK read : read = Object(Device, json)
  OBVIOUS
<1>6. DOMAIN read = DOMAIN Device /\ read.id = x.id
  BY <1>2, <1>4, <1>5 DEF Object
<1>7. DeviceOf(json) = [read EXCEPT !.type = EnumOf(DeviceTypes, read.type, "undefined_type")]
  BY <1>2, <1>5, <1>6 DEF DeviceOf
<1> QED
  BY <1>2, <1>3, <1>6, <1>7

LEMMA RefreshedButtons ==
  ASSUME NEW evs, NEW ok, NEW listed, \A x \in listed : x.id \in Devices,
         NEW page, page = Refreshed(evs, listed, ok)
  PROVE  DOMAIN page = DOMAIN NoButtons /\ \A b \in page.devices : b.id \in Devices
<1>1. CASE ~ok.devices \/ listed = {}
  BY <1>1, NoneListed DEF Refreshed
<1>2. CASE ~(~ok.devices \/ listed = {})
  <2>1. /\ DOMAIN page = {"scenarios", "boxes", "devices"}
        /\ page.devices = {DeviceButton(DeviceOf(Json(Device, x)), "none", ok.buttons)
                             : x \in {y \in listed : HasButton(y)}}
    BY <1>2 DEF Refreshed
  <2>2. \A x \in listed : DeviceButton(DeviceOf(Json(Device, x)), "none", ok.buttons).id \in Devices
    BY ButtonOf, ListedDevice
  <2> QED
    BY <2>1, <2>2, NoneListed
<1> QED
  BY <1>1, <1>2

LEMMA ShownButtons ==
  ASSUME DevicesOK, NEW ok, NEW evs, buttons' = Refreshed(evs, devices, ok)
  PROVE  ButtonsOK'
<1>1. PICK page : page = Refreshed(evs, devices, ok)
  OBVIOUS
<1>2. DOMAIN page = DOMAIN NoButtons /\ \A b \in page.devices : b.id \in Devices
  BY <1>1, RefreshedButtons DEF DevicesOK
<1> QED
  BY <1>1, <1>2 DEF ButtonsOK, NoButtons

LEMMA WithPropertyList ==
  ASSUME NEW listed, \A x \in listed : "id" \in DOMAIN x /\ x.id \in Devices,
         NEW d, NEW key \in {"name", "grp"}, NEW value
  PROVE  \A x \in WithProperty(listed, d, key, value) : "id" \in DOMAIN x /\ x.id \in Devices
<1>1. \A x \in listed : LET y == [x EXCEPT ![key] = value] IN "id" \in DOMAIN y /\ y.id = x.id
  OBVIOUS
<1> QED
  BY <1>1 DEF WithProperty

LEMMA AcceptSettingsList ==
  ASSUME DevicesOK, NEW type, AcceptSettings(type)
  PROVE  DevicesOK'
<1> DEFINE d == pages[type].device
<1>1. PICK name, grp, ok : Accepted(type, name, grp, ok)
  BY DEF AcceptSettings
<1>2. PICK renamed :
        /\ renamed = devices \/ renamed = WithProperty(devices, d, "name", name)
        /\ devices' = renamed \/ devices' = WithProperty(renamed, d, "grp", grp)
  BY <1>1 DEF Accepted
<1> HIDE DEF d
<1>3. \A x \in renamed : "id" \in DOMAIN x /\ x.id \in Devices
  <2>1. \A x \in devices : "id" \in DOMAIN x /\ x.id \in Devices
    BY DEF DevicesOK
  <2>2. \A x \in WithProperty(devices, d, "name", name) : "id" \in DOMAIN x /\ x.id \in Devices
    BY <2>1, WithPropertyList
  <2> QED
    BY <1>2, <2>1, <2>2
<1>4. \A x \in devices' : "id" \in DOMAIN x /\ x.id \in Devices
  <2>1. \A x \in WithProperty(renamed, d, "grp", grp) : "id" \in DOMAIN x /\ x.id \in Devices
    BY <1>3, WithPropertyList
  <2> QED
    BY <1>2, <1>3, <2>1
<1> QED
  BY <1>4 DEF DevicesOK

(* The name, the group or the state of its button: the rest of a page stays. *)
LEMMA SameValues ==
  ASSUME PagesOK, UNCHANGED <<reports, open>>, NEW type \in DeviceTypes, NEW page,
         pages' = [pages EXCEPT ![type] = page], DOMAIN page = DOMAIN NewPage,
         \A key \in DOMAIN NewPage \ {"name", "grp", "enabled"} : page[key] = pages[type][key]
  PROVE  PagesOK'
<1>1. PageOK(type)
  BY DEF PagesOK
<1>2. /\ page.device = pages[type].device /\ page.seconds = pages[type].seconds
      /\ page.cached = pages[type].cached /\ page.shown = pages[type].shown
      /\ page.asked = pages[type].asked /\ page.label = pages[type].label /\ page.state = pages[type].state
  BY PageKeys
<1>3. \A d \in Devices : OpenFor(type, pages[type], d) => OpenFor(type, page, d)
  BY <1>2 DEF OpenFor
<1>4. Closed(pages[type]) => Closed(page)
  BY <1>2 DEF Closed
<1>5. page.seconds \in Nat /\ IF open' = type THEN \E d \in Devices : OpenFor(type, page, d) ELSE Closed(page)
  BY <1>1, <1>2, <1>3, <1>4 DEF PageOK
<1> QED
  BY <1>5, OnePageChanges
------------------------------------------------------------------------------
(* The steps preserve the invariant.                                        *)

(* Most leave what it is about alone.                                       *)
LEMMA NothingChanges ==
  ASSUME SessionInv, UNCHANGED <<devices, reports, now, open, pages, buttons>>
  PROVE  SessionInv'
BY ReportsKept, ListKept, ButtonsKept, PagesKept DEF SessionInv

LEMMA StateButtonKeeps ==
  ASSUME SessionInv, NEW type \in DeviceTypes, OnStateButton(type)
  PROVE  SessionInv'
<1>1. /\ UNCHANGED <<devices, reports, now, open, buttons>>
      /\ pages' = [pages EXCEPT ![type].enabled = FALSE]
  BY DEF OnStateButton
<1>2. PagesOK /\ PageOK(type) /\ DOMAIN pages = DeviceTypes
  BY DEF SessionInv, PagesOK
<1>3. PICK page : page = [pages[type] EXCEPT !.enabled = FALSE]
  OBVIOUS
<1>4. pages' = [pages EXCEPT ![type] = page]
  BY <1>1, <1>3
<1>5. DOMAIN pages[type] = DOMAIN NewPage
  BY <1>2 DEF PageOK
<1>6. DOMAIN page = DOMAIN NewPage /\ \A key \in DOMAIN NewPage \ {"name", "grp", "enabled"} : page[key] = pages[type][key]
  BY <1>3, <1>5
<1>7. PagesOK'
  BY <1>1, <1>2, <1>4, <1>6, SameValues
<1> QED
  BY <1>1, <1>7, ReportsKept, ListKept, ButtonsKept DEF SessionInv

(* Of its page, a dialog that is accepted changes the name and the group.   *)
LEMMA AcceptedPage ==
  ASSUME NEW type, AcceptSettings(type)
  PROVE  \E name, grp : pages' = [pages EXCEPT ![type].name = name, ![type].grp = grp]
<1>1. PICK name, grp, ok : Accepted(type, name, grp, ok)
  BY DEF AcceptSettings
<1> QED
  BY <1>1 DEF Accepted

LEMMA AcceptKeeps ==
  ASSUME SessionInv, NEW type \in DeviceTypes, AcceptSettings(type)
  PROVE  SessionInv'
<1>1. UNCHANGED <<reports, now, open, buttons>>
  BY DEF AcceptSettings
<1>2. PagesOK /\ PageOK(type) /\ DOMAIN pages = DeviceTypes
  BY DEF SessionInv, PagesOK
<1>3. PICK name, grp : pages' = [pages EXCEPT ![type].name = name, ![type].grp = grp]
  BY AcceptedPage
<1>4. PICK page : page = [pages[type] EXCEPT !.name = name, !.grp = grp]
  OBVIOUS
<1>5. pages' = [pages EXCEPT ![type] = page]
  BY <1>2, <1>3, <1>4
<1>6. DOMAIN pages[type] = DOMAIN NewPage
  BY <1>2 DEF PageOK
<1>7. DOMAIN page = DOMAIN NewPage /\ \A key \in DOMAIN NewPage \ {"name", "grp", "enabled"} : page[key] = pages[type][key]
  BY <1>4, <1>6
<1>8. PagesOK'
  BY <1>1, <1>2, <1>5, <1>7, SameValues
<1>9. DevicesOK'
  BY AcceptSettingsList DEF SessionInv
<1> QED
  BY <1>1, <1>8, <1>9, ReportsKept, ButtonsKept DEF SessionInv

LEMMA DeviceStepsKeep ==
  ASSUME SessionInv, DeviceSteps
  PROVE  SessionInv'
<1>1. PICK type \in DeviceTypes :
        \/ RefreshTimer(type) \/ SelectSeconds(type) \/ OnStateButton(type)
        \/ OnSettingsButton(type) \/ AcceptSettings(type) \/ BackFromDevice(type)
  BY DEF DeviceSteps
<1>2. CASE RefreshTimer(type)
  <2>1. UNCHANGED <<devices, reports, now>> /\ Fill(type, pages[type].device, pages[type], open)
    BY <1>2 DEF RefreshTimer, serverVars
  <2>2. PagesOK'
    BY <1>2, RefreshTimerPages
  <2>3. ButtonsOK'
    BY <2>1, FilledButtons DEF SessionInv
  <2> QED
    BY <2>1, <2>2, <2>3, ReportsKept, ListKept DEF SessionInv
<1>3. CASE SelectSeconds(type)
  <2>1. /\ UNCHANGED <<devices, reports, now>>
        /\ \E page : Fill(type, pages[type].device, page, open)
    BY <1>3 DEF SelectSeconds, serverVars
  <2>2. PagesOK'
    BY <1>3, SelectSecondsPages
  <2>3. ButtonsOK'
    BY <2>1, FilledButtons DEF SessionInv
  <2> QED
    BY <2>1, <2>2, <2>3, ReportsKept, ListKept DEF SessionInv
<1>4. CASE OnStateButton(type)
  BY <1>4, StateButtonKeeps
<1>5. CASE OnSettingsButton(type)
  <2>1. UNCHANGED <<devices, reports, now, open, pages, buttons>>
    BY <1>5 DEF OnSettingsButton, serverVars
  <2> QED
    BY <2>1, NothingChanges
<1>6. CASE AcceptSettings(type)
  BY <1>6, AcceptKeeps
<1>7. CASE BackFromDevice(type)
  <2>1. UNCHANGED <<devices, reports, now>> /\ \E ok : buttons' = Refreshed(events, devices, ok)
    BY <1>7 DEF BackFromDevice, ShowDevices, serverVars
  <2>2. ButtonsOK'
    BY <2>1, ShownButtons DEF SessionInv
  <2>3. PagesOK'
    BY <1>7, BackFromDevicePages
  <2> QED
    BY <2>1, <2>2, <2>3, ReportsKept, ListKept DEF SessionInv
<1> QED
  BY <1>1, <1>2, <1>3, <1>4, <1>5, <1>6, <1>7

LEMMA ServerStepsKeep ==
  ASSUME SessionInv, ServerSteps
  PROVE  SessionInv'
<1>1. CASE \E d \in Devices : Report(d)
  <2>1. PICK d \in Devices : Report(d)
    BY <1>1
  <2>2. ReportsOK' /\ PagesOK'
    BY <2>1, ReportArrives DEF SessionInv
  <2>3. UNCHANGED <<devices, buttons>>
    BY <2>1 DEF Report, sessionVars
  <2> QED
    BY <2>2, <2>3, ListKept, ButtonsKept DEF SessionInv
<1>2. CASE Tick
  <2>1. now' = now + 1 /\ UNCHANGED <<devices, reports, open, pages, buttons>>
    BY <1>2 DEF Tick, sessionVars
  <2>2. ReportsOK /\ now \in Nat /\ now' \in Nat
    BY <2>1 DEF SessionInv, ReportsOK
  <2>3. \A d \in Devices : \A i \in DOMAIN reports[d] : reports[d][i].timestamp <= now'
    <3> SUFFICES ASSUME NEW d \in Devices, NEW i \in DOMAIN reports[d]
                 PROVE  reports[d][i].timestamp <= now'
      OBVIOUS
    <3>1. reports[d][i].timestamp \in Nat /\ reports[d][i].timestamp <= now
      BY <2>2 DEF ReportsOK, NewestFirst
    <3> QED
      BY <2>1, <2>2, <3>1
  <2>4. ReportsOK'
    <3>1. \A d \in Devices : reports'[d] \in Seq(Values(TypeOf[d])) /\ NewestFirst(reports[d])'
      BY <2>1, <2>2 DEF ReportsOK
    <3> QED
      BY <2>1, <2>2, <2>3, <3>1 DEF ReportsOK
  <2> QED
    BY <2>1, <2>4, ListKept, ButtonsKept, PagesKept DEF SessionInv
<1>3. CASE \E d \in Touched : OtherClient(d)
  <2>1. PICK d \in Touched : OtherClient(d)
    BY <1>3
  <2>2. /\ UNCHANGED <<reports, now, open, pages, buttons>>
        /\ \/ devices' = {x \in devices : x.id # d}
           \/ \E name \in Names : devices' = WithProperty(devices, d, "name", name)
    BY <2>1 DEF OtherClient, sessionVars
  <2>3. \A x \in devices : "id" \in DOMAIN x /\ x.id \in Devices
    BY DEF SessionInv, DevicesOK
  <2>4. \A name : \A x \in WithProperty(devices, d, "name", name) : "id" \in DOMAIN x /\ x.id \in Devices
    BY <2>3, WithPropertyList
  <2>5. DevicesOK'
    BY <2>2, <2>3, <2>4 DEF DevicesOK
  <2> QED
    BY <2>2, <2>5, ReportsKept, ButtonsKept, PagesKept DEF SessionInv
<1> QED
  BY <1>1, <1>2, <1>3 DEF ServerSteps

LEMMA EditorsKeep ==
  ASSUME SessionInv, EditorSteps \/ OtherClientsEvent \/ RejectSettings
  PROVE  SessionInv'
<1>1. CASE EditorSteps
  <2>1. UNCHANGED <<serverVars, sessionVars>>
    BY <1>1 DEF EditorSteps, SelectEvent, SelectEventType, EnterEvent, AddEvent, UpdateEvent, DeleteEvent,
       RefreshEvents, OnSelection, EnterScenario, AddScenario, UpdateScenario, DeleteScenario,
       RefreshScenarios, SendEvent, SendScenario, OnlyEvents, OnlyScenarios, serverVars, sessionVars
  <2> QED
    BY <2>1, NothingChanges DEF serverVars, sessionVars
<1>2. CASE OtherClientsEvent
  BY <1>2, NothingChanges DEF OtherClientsEvent, serverVars, sessionVars
<1>3. CASE RejectSettings
  BY <1>3, NothingChanges DEF RejectSettings, serverVars
<1> QED
  BY <1>1, <1>2, <1>3

(* One button is replaced by what it shows now.                             *)
LEMMA ButtonsRefreshed ==
  ASSUME SessionInv, RefreshDevices \/ DeviceButtonTimer \/ ScenarioButtonTimer \/ PressScenario
  PROVE  SessionInv'
<1>1. UNCHANGED <<devices, reports, now, open, pages>>
  BY DEF RefreshDevices, DeviceButtonTimer, ScenarioButtonTimer, PressScenario, serverVars
<1>2. DOMAIN buttons = {"scenarios", "boxes", "devices"} /\ \A b \in buttons.devices : b.id \in Devices
  BY NoneListed DEF SessionInv, ButtonsOK
<1>3. ButtonsOK'
  <2>1. CASE RefreshDevices
    <3>1. \E ok : buttons' = Refreshed(events, devices, ok)
      BY <2>1 DEF RefreshDevices
    <3> QED
      BY <3>1, ShownButtons DEF SessionInv
  <2>2. CASE DeviceButtonTimer
    <3>1. PICK b \in buttons.devices, ok \in Outcomes({"values"}) :
            buttons' = [buttons EXCEPT !.devices = (buttons.devices \ {b}) \cup
                          {DeviceButton([id |-> b.id, type |-> TypeOf[b.id]], b.border, ok.values)}]
      BY <1>2, <2>2 DEF DeviceButtonTimer
    <3>2. PICK new : new = DeviceButton([id |-> b.id, type |-> TypeOf[b.id]], b.border, ok.values)
      OBVIOUS
    <3>3. new.id \in Devices
      BY <1>2, <3>2, ButtonOf
    <3>4. /\ DOMAIN buttons' = {"scenarios", "boxes", "devices"}
          /\ buttons'.devices = (buttons.devices \ {b}) \cup {new}
      BY <1>2, <3>1, <3>2
    <3> QED
      BY <1>2, <3>3, <3>4, NoneListed DEF ButtonsOK
  <2>3. CASE ScenarioButtonTimer \/ PressScenario
    <3>1. \E shown : buttons' = [buttons EXCEPT !.scenarios = shown]
      BY <2>3 DEF ScenarioButtonTimer, PressScenario
    <3> QED
      BY <1>2, <3>1, NoneListed DEF ButtonsOK
  <2> QED
    BY <2>1, <2>2, <2>3
<1> QED
  BY <1>1, <1>3, ReportsKept, ListKept, PagesKept DEF SessionInv

LEMMA DeleteKeeps ==
  ASSUME SessionInv, DeleteDevice
  PROVE  SessionInv'
<1>1. /\ UNCHANGED <<reports, now, open, pages>>
      /\ \/ UNCHANGED <<devices, buttons>>
         \/ \E id, ok : /\ devices' = {x \in devices : x.id # id}
                        /\ buttons' = Refreshed(events, devices', ok)
  BY DEF DeleteDevice
<1>2. CASE UNCHANGED <<devices, buttons>>
  BY <1>1, <1>2, NothingChanges
<1>3. ASSUME NEW id, NEW ok,
             devices' = {x \in devices : x.id # id}, buttons' = Refreshed(events, devices', ok)
      PROVE  SessionInv'
  <2>1. \A x \in devices' : "id" \in DOMAIN x /\ x.id \in Devices
    BY <1>3 DEF SessionInv, DevicesOK
  <2>2. PICK page : page = Refreshed(events, devices', ok)
    OBVIOUS
  <2>3. DOMAIN page = DOMAIN NoButtons /\ \A b \in page.devices : b.id \in Devices
    BY <2>1, <2>2, RefreshedButtons
  <2>4. buttons' = page
    BY <1>3, <2>2
  <2>5. DevicesOK'
    BY <2>1 DEF DevicesOK
  <2>6. ButtonsOK'
    BY <2>3, <2>4 DEF ButtonsOK, NoButtons
  <2> QED
    BY <1>1, <2>5, <2>6, ReportsKept, PagesKept DEF SessionInv
<1> QED
  BY <1>1, <1>2, <1>3

(* The page that is seen changes, and it is not, and was not, a device's.   *)
LEMMA OtherPagesKeep ==
  ASSUME SessionInv, OpenEvents \/ OpenScenarios \/ BackFromEditor \/ Login \/ Exit
  PROVE  SessionInv'
<1>1. UNCHANGED <<devices, reports, now, pages>>
  BY DEF OpenEvents, OpenScenarios, BackFromEditor, Login, Exit, serverVars
<1>2. /\ open \in {"Devices", "Events", "Scenarios", "Login"}
      /\ open' \in {"Devices", "Events", "Scenarios", "Login"}
  BY DEF OpenEvents, OpenScenarios, BackFromEditor, Login, Exit, ShowDevices, SeesDevices
<1>3. open \notin DeviceTypes /\ open' \notin DeviceTypes
  BY <1>2 DEF DeviceTypes
<1>4. buttons' = NoButtons \/ \E ok : buttons' = Refreshed(events, devices, ok)
  BY DEF OpenEvents, OpenScenarios, BackFromEditor, Login, Exit, ShowDevices
<1>5. ButtonsOK'
  BY <1>4, ButtonsGone, ShownButtons DEF SessionInv
<1>6. PagesOK'
  BY <1>1, <1>3, PagesKept DEF SessionInv
<1> QED
  BY <1>1, <1>5, <1>6, ReportsKept, ListKept DEF SessionInv

LEMMA ReloadKeeps ==
  ASSUME SessionInv, Reload
  PROVE  SessionInv'
<1>1. /\ UNCHANGED <<devices, reports, now>>
      /\ pages' = [type \in DeviceTypes |-> NewPage]
      /\ open' \in {"Devices", "Login"}
      /\ buttons' = NoButtons \/ \E ok : buttons' = Refreshed(events, devices, ok)
  BY DEF Reload, ShowDevices, serverVars
<1>2. open' \notin DeviceTypes
  BY <1>1 DEF DeviceTypes
<1>3. PagesOK'
  BY <1>1, <1>2, NewPages
<1>4. ButtonsOK'
  BY <1>1, ButtonsGone, ShownButtons DEF SessionInv
<1> QED
  BY <1>1, <1>3, <1>4, ReportsKept, ListKept DEF SessionInv

LEMMA InitKeeps ==
  ASSUME Init
  PROVE  SessionInv
<1>1. ReportsOK
  <2>1. /\ now = 0 /\ DOMAIN reports = Devices
        /\ \A d \in Devices : reports[d] = <<>>
    BY DEF Init
  <2>2. DOMAIN <<>> = {}
    OBVIOUS
  <2>3. \A d \in Devices : reports[d] \in Seq(Values(TypeOf[d])) /\ DOMAIN reports[d] = {}
    BY <2>1, <2>2, EmptySeq
  <2>4. \A d \in Devices : NewestFirst(reports[d])
    BY <2>1, <2>3 DEF NewestFirst
  <2> QED
    BY <2>1, <2>3, <2>4 DEF ReportsOK
<1>2. DevicesOK
  <2>1. devices = {DeviceOfRow(row) : row \in InitialRows}
    BY DEF Init
  <2>2. \A row : "id" \in DOMAIN DeviceOfRow(row)
    BY DEF DeviceOfRow
  <2> QED
    BY <2>1, <2>2, RowsAssumption DEF DevicesOK
<1>3. ButtonsOK
  BY NoneListed DEF Init, ButtonsOK
<1>4. PagesOK
  <2>1. pages = [type \in DeviceTypes |-> NewPage] /\ open \notin DeviceTypes
    BY DEF Init, DeviceTypes
  <2>2. NewPage.seconds \in Nat /\ NewPage.device = Nobody /\ NewPage.cached = <<>>
    BY PagesAssumption DEF NewPage
  <2>3. \A type \in DeviceTypes : PageOK(type)
    BY <2>1, <2>2 DEF PageOK, Closed
  <2> QED
    BY <2>1, <2>3 DEF PagesOK
<1> QED
  BY <1>1, <1>2, <1>3, <1>4 DEF SessionInv

LEMMA NextKeeps ==
  ASSUME SessionInv, [Next]_vars
  PROVE  SessionInv'
<1>1. CASE DeviceSteps
  BY <1>1, DeviceStepsKeep
<1>2. CASE ServerSteps
  BY <1>2, ServerStepsKeep
<1>3. CASE EditorSteps \/ OtherClientsEvent \/ RejectSettings
  BY <1>3, EditorsKeep
<1>4. CASE RefreshDevices \/ DeviceButtonTimer \/ ScenarioButtonTimer \/ PressScenario
  BY <1>4, ButtonsRefreshed
<1>5. CASE DeleteDevice
  BY <1>5, DeleteKeeps
<1>6. CASE OpenDevice
  <2>1. UNCHANGED <<devices, reports, now>>
    BY <1>6 DEF OpenDevice, serverVars
  <2>2. PagesOK' /\ ButtonsOK'
    BY <1>6, OpenDevicePages
  <2> QED
    BY <2>1, <2>2, ReportsKept, ListKept DEF SessionInv
<1>7. CASE OpenEvents \/ OpenScenarios \/ BackFromEditor \/ Login \/ Exit
  BY <1>7, OtherPagesKeep
<1>8. CASE Reload
  BY <1>8, ReloadKeeps
<1>9. CASE UNCHANGED vars
  BY <1>9, NothingChanges DEF vars, deviceVars, serverVars, sessionVars
<1> QED
  BY <1>1, <1>2, <1>3, <1>4, <1>5, <1>6, <1>7, <1>8, <1>9 DEF Next

LEMMA Session == Spec => []SessionInv
BY InitKeeps, NextKeeps, PTL DEF Spec

(* The page of a device shows values of this device, the newest one first   *)
(* when its requests were answered, for any devices, readings and requests *)
(* that fail: Initialize() and OnBack() of the four pages keep _cachedValues*)
(* of a page for the device that it is open for.                           *)
THEOREM PagesShowTheirDevices == Spec => []PageShowsItsDevice
<1>1. ASSUME SessionInv
      PROVE  PageShowsItsDevice
  <2>1. SUFFICES ASSUME open \in DeviceTypes
                 PROVE  /\ TypeOf[pages[open].device] = open
                        /\ Range(pages[open].shown) \subseteq Range(reports[pages[open].device])
                        /\ pages[open].asked # Unset =>
                             pages[open].shown # <<>> /\ pages[open].shown[1].timestamp = pages[open].asked
    BY DEF PageShowsItsDevice
  <2>2. PageOK(open)
    BY <1>1, <2>1 DEF SessionInv, PagesOK
  <2>3. PICK d \in Devices : OpenFor(open, pages[open], d)
    BY <2>2 DEF PageOK
  <2> QED
    BY <2>3 DEF OpenFor, ValuesOf
<1> QED
  BY <1>1, Session, PTL

(* The button of a relay sends what it says, whatever came between its last *)
(* refresh and the press: _state and the text of the button change together *)
(* (Refresh() and OnStateButton() of the two relay pages).                 *)
THEOREM ButtonsSendWhatTheySay == Spec => CommandMatchesLabel
<1>1. ASSUME SessionInv, Next, NEW type \in {"relay", "motion_relay"},
             open = type, pages[type].shown # <<>>, pages[type].enabled, ~pages'[type].enabled,
             command' # command
      PROVE  command'[pages[type].device].state = IF pages[type].label = "on" THEN 1 ELSE 0
  <2>1. PICK pressed \in DeviceTypes : OnStateButton(pressed) \/ AcceptSettings(pressed)
    BY <1>1 DEF Next, DeviceSteps, RefreshTimer, SelectSeconds, OnSettingsButton, BackFromDevice,
       RejectSettings, ServerSteps, Report, Tick, OtherClient, EditorSteps, SelectEvent, SelectEventType,
       EnterEvent, AddEvent, UpdateEvent, DeleteEvent, RefreshEvents, OnSelection, EnterScenario,
       AddScenario, UpdateScenario, DeleteScenario, RefreshScenarios, SendEvent, SendScenario, OnlyEvents,
       OnlyScenarios, OtherClientsEvent, RefreshDevices, DeviceButtonTimer, ScenarioButtonTimer,
       PressScenario, DeleteDevice, OpenDevice, OpenEvents, OpenScenarios, BackFromEditor, Login, Exit,
       Reload, serverVars
  <2>2. /\ type \in DeviceTypes /\ DOMAIN pages = DeviceTypes
        /\ DOMAIN pages[type] = DOMAIN NewPage
    BY <1>1 DEF SessionInv, PagesOK, PageOK, DeviceTypes
  <2>3. CASE AcceptSettings(pressed)
    <3>1. PICK name, grp : pages' = [pages EXCEPT ![pressed].name = name, ![pressed].grp = grp]
      BY <2>3, AcceptedPage
    <3>2. pages'[type].enabled = pages[type].enabled
      BY <2>1, <2>2, <3>1, PageKeys
    <3> QED
      BY <1>1, <3>2
  <2>4. CASE OnStateButton(pressed)
    <3>1. pressed = type
      BY <1>1, <2>4 DEF OnStateButton
    <3>2. PICK ok \in Outcomes({"command"}) :
            command' = IF ok.command
              THEN With(command, pages[type].device, CommandOf([state |-> IF pages[type].state # 0 THEN 0 ELSE 1]))
              ELSE command
      BY <2>4, <3>1 DEF OnStateButton
    <3>3. command'[pages[type].device] = CommandOf([state |-> IF pages[type].state # 0 THEN 0 ELSE 1])
      BY <1>1, <3>2 DEF With
    <3>4. \A s : CommandOf([state |-> s]).state = s
      BY DEF CommandOf, Object, RelayState
    <3>5. pages[type].label = "on" <=> pages[type].state = 0
      <4>1. Page[type].button
        BY <1>1 DEF Page, RelayWidget, MotionRelayWidget
      <4>2. \E d \in Devices : OpenFor(type, pages[type], d)
        BY <1>1, <2>2 DEF SessionInv, PagesOK, PageOK
      <4> QED
        BY <1>1, <4>1, <4>2 DEF OpenFor
    <3> QED
      BY <3>3, <3>4, <3>5
  <2> QED
    BY <2>1, <2>3, <2>4
<1>2. ASSUME SessionInv, [Next]_vars
      PROVE  [\A type \in {"relay", "motion_relay"} :
                LET page == pages[type] IN
                open = type /\ page.shown # <<>> /\ page.enabled /\ ~pages'[type].enabled /\ command' # command
                  => command'[page.device].state = (IF page.label = "on" THEN 1 ELSE 0)]_vars
  BY <1>1, <1>2
<1> QED
  BY <1>2, Session, PTL DEF Spec, CommandMatchesLabel
==============================================================================
