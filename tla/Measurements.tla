----------------------------- MODULE Measurements -----------------------------
(***************************************************************************)
(* What devices measure: the four TimeValuesControllers (a table and a     *)
(* cache of time-stamped values each), the processors that fill and read   *)
(* them, and CleanupController, which the timer thread runs every minute   *)
(* to drop what is older than two weeks.                                   *)
(*                                                                         *)
(* The cache knows the full time stamp of a value, the table its second.   *)
(* A cache is only touched under its controller's mutex, so Add and        *)
(* Cleanup of a cache are single steps; the DELETEs of the clean-up hold   *)
(* no controller's mutex and interleave with everything.  A table is the   *)
(* set of its rows: no SELECT of these tables asks for an order.           *)
(***************************************************************************)
EXTENDS Storage, Integers, Sequences, FiniteSets

CONSTANTS
  Devices,      \* ids of devices
  Workers,      \* server threads that handle messages
  Idle,         \* a worker without a message
  TPS,          \* ticks of the system clock in a second
  Age,          \* ticks in two weeks, a whole number of seconds
  MaxTime,      \* bound: the last tick
  MaxRows       \* bound: values stored in all

Kinds == {"Thermometers", "Relays", "MotionRelays", "UniversalDevices"}

(* Storage::GetDataTables, in the order of the vector. *)
DataTables == <<"Thermometers", "Relays", "MotionRelays", "UniversalDevices">>

ASSUME MeasurementsAssumption ==
  /\ TPS \in Nat \ {0} /\ Age \in Nat \ {0} /\ Age % TPS = 0
  /\ MaxTime \in Nat /\ Age <= MaxTime /\ MaxRows \in Nat

VARIABLES
  kindOf,     \* the build of each device's firmware, which reports one subject
  now,        \* system_clock::now(), in ticks
  cache,      \* TimeValuesController::_caches of each kind: a set of entries
  job,        \* the message each worker handles, and when it came
  cleanup,    \* CleanupController::Cleanup: its limit and how many calls it has made
  swept,      \* history: the limit of the last DELETE that removed rows for good
  newest      \* history: the newest acknowledged time of each device

clockVars == <<kindOf, now, cleanup, swept>>
measurementVars == <<storageVars, clockVars, cache, job, newest>>

(* TimeHelper::TimeToInt.                                                   *)
Second(tick) == tick \div TPS

(* Mutant: the seconds are taken for the clock's own unit, times thousand.  *)
TimeFromMillis(second) == second * TPS * 1000

(* TimeHelper::TimeFromInt.                                                 *)
TimeFromInt(second) == second * TPS

(***************************************************************************)
(* What a device sends.  -127 is the value of a thermometer without its    *)
(* sensor.                                                                 *)
(***************************************************************************)
Payloads ==
  [Thermometers |-> [value : {"degrees", "-127"}], Relays |-> [state : {"state"}],
   MotionRelays |-> [motion : BOOLEAN, state : {"on"}],
   UniversalDevices |-> [values : {"values"}]]

(* from_json of the value types.  That of a motion relay looks for its      *)
(* state under the key "value", which no device sends.                     *)
FromJson(kind, data) ==
  IF kind = "MotionRelays" THEN [motion |-> data.motion, state |-> "unset"] ELSE data

(* What an INSERT makes of a value: fmt prints a bool as a word, which the  *)
(* INTEGER column keeps as text.                                           *)
Row(kind, value) ==
  IF kind = "MotionRelays"
    THEN [motion |-> IF value.motion THEN "true" ELSE "false", state |-> value.state]
    ELSE value

(* DbExtension::FindValueByName<bool> is atoi, and 0 for any word.          *)
BoolOfColumn(text) == text = "1"

MotionRelayOfRow(row) == [motion |-> BoolOfColumn(row.motion), state |-> row.state]

(* Cache::Add, try_emplace: the first value of a time stamp stays.          *)
Emplace(entries, e) ==
  IF \E x \in entries : x.id = e.id /\ x.time = e.time THEN entries ELSE entries \cup {e}

(* A cache is a map of one value for each time stamp of a device.           *)
OneEach(entries) ==
  \A x, y \in entries : x.id = y.id /\ x.time = y.time => x = y

(* FillCache of the controllers: a row becomes an entry on its full second, *)
(* and of the rows of one second the one the SELECT returns first stays.    *)
(* A failing SELECT leaves the cache empty.                                 *)
Fill(rows, Value(_)) ==
  LET Entry(r) == [id |-> r.id, time |-> TimeFromInt(r.second), value |-> Value(r.value)]
      Complete(entries) == \A r \in rows : \E e \in entries :
                             e.id = r.id /\ e.time = TimeFromInt(r.second)
  IN  {entries \in SUBSET {Entry(r) : r \in rows} : OneEach(entries) /\ Complete(entries)}
        \cup {{} : f \in Faults \cap {"select"}}

ThermometersFillCache(rows) == Fill(rows, LAMBDA v : v)

RelaysFillCache(rows) == Fill(rows, LAMBDA v : v)

MotionRelaysFillCache(rows) == Fill(rows, MotionRelayOfRow)

UniversalDevicesFillCache(rows) == Fill(rows, LAMBDA v : v)

FilledCaches(tables) ==
  [Thermometers : ThermometersFillCache(tables.Thermometers),
   Relays : RelaysFillCache(tables.Relays),
   MotionRelays : MotionRelaysFillCache(tables.MotionRelays),
   UniversalDevices : UniversalDevicesFillCache(tables.UniversalDevices)]
------------------------------------------------------------------------------
RowsInAll ==
  Cardinality(db.Thermometers) + Cardinality(db.Relays)
    + Cardinality(db.MotionRelays) + Cardinality(db.UniversalDevices)

Busy == {w \in Workers : job[w] # Idle}

(* OnWebSocketMessage reads the clock before anything else.                 *)
Receive(w) ==
  /\ job[w] = Idle
  /\ RowsInAll + Cardinality(Busy) < MaxRows
  /\ \E d \in Devices : \E data \in Payloads[kindOf[d]] :
       job' = [job EXCEPT ![w] = [id |-> d, data |-> data, time |-> now]]
  /\ UNCHANGED <<storageVars, clockVars, cache, newest>>

Done(w) == job' = [job EXCEPT ![w] = Idle]

Refused(w) == Done(w) /\ UNCHANGED <<storageVars, cache, newest>>

(* Mutant: the cache has the value before the INSERT is known to succeed.   *)
InsertCacheFirst(w, kind) ==
  LET j == job[w]
      value == FromJson(kind, j.data)
      row == [id |-> j.id, second |-> Second(j.time), value |-> Row(kind, value)]
  IN  /\ cache' = [cache EXCEPT ![kind] =
                     Emplace(@, [id |-> j.id, time |-> j.time, value |-> value])]
      /\ \/ \E c \in Connections : Leaves(c, [c.rows EXCEPT ![kind] = @ \cup {row}])
         \/ Fails("write")
      /\ Done(w) /\ UNCHANGED newest

(* INSERT, then the cache; acknowledged when the INSERT succeeded.          *)
Insert(w, kind) ==
  LET j == job[w]
      value == FromJson(kind, j.data)
      row == [id |-> j.id, second |-> Second(j.time), value |-> Row(kind, value)]
  IN  \/ /\ \E c \in Connections :
              /\ Leaves(c, [c.rows EXCEPT ![kind] = @ \cup {row}])
              /\ newest' = IF c.tx THEN newest
                           ELSE [newest EXCEPT ![j.id] = IF j.time > @ THEN j.time ELSE @]
         /\ cache' = [cache EXCEPT ![kind] =
                        Emplace(@, [id |-> j.id, time |-> j.time, value |-> value])]
         /\ Done(w)
      \/ Fails("write") /\ Done(w) /\ UNCHANGED <<cache, newest>>

ThermometersAdd(w) ==
  \/ job[w].data.value = "-127" /\ Refused(w)
  \/ job[w].data.value # "-127" /\ Insert(w, "Thermometers")

RelaysAdd(w) == Insert(w, "Relays")

MotionRelaysAdd(w) == Insert(w, "MotionRelays")

UniversalDevicesAdd(w) == Insert(w, "UniversalDevices")

(* A processor handles its own subject and leaves every other one alone.    *)
Handles(w, kind) == w \in Busy /\ kindOf[job[w].id] = kind

ThermometerProcessor(w) == Handles(w, "Thermometers") /\ ThermometersAdd(w)

RelayProcessor(w) == Handles(w, "Relays") /\ RelaysAdd(w)

MotionRelayProcessor(w) == Handles(w, "MotionRelays") /\ MotionRelaysAdd(w)

UniversalDeviceProcessor(w) == Handles(w, "UniversalDevices") /\ UniversalDevicesAdd(w)

Handle(w) ==
  /\ \/ ThermometerProcessor(w)
     \/ RelayProcessor(w)
     \/ MotionRelayProcessor(w)
     \/ UniversalDeviceProcessor(w)
  /\ UNCHANGED clockVars
------------------------------------------------------------------------------
(* Mutant: without the reverse.                                             *)
OldestFirst(entries) ==
  [i \in 1..Cardinality(entries) |->
     CHOOSE e \in entries : Cardinality({x \in entries : x.time < e.time}) = i - 1]

(* std::reverse: the i-th entry is the one with i - 1 newer ones.           *)
NewestFirst(entries) ==
  [i \in 1..Cardinality(entries) |->
     CHOOSE e \in entries : Cardinality({x \in entries : x.time > e.time}) = i - 1]

(* Get of the controllers: the values after now - seconds, newest first, or *)
(* the newest one when there is none.                                      *)
Get(kind, id, seconds) ==
  LET mine == {e \in cache[kind] : e.id = id}
      recent == {e \in mine : seconds # 0 /\ e.time > now - seconds * TPS}
  IN  IF mine = {} THEN <<>>
      ELSE IF recent # {} THEN NewestFirst(recent)
      ELSE <<CHOOSE e \in mine : \A x \in mine : x.time <= e.time>>

ThermometersGet(id, seconds) == Get("Thermometers", id, seconds)

RelaysGet(id, seconds) == Get("Relays", id, seconds)

MotionRelaysGet(id, seconds) == Get("MotionRelays", id, seconds)

UniversalDevicesGet(id, seconds) == Get("UniversalDevices", id, seconds)

(* GetDeviceInfo asks all four processors and joins their arrays.           *)
DeviceInfo(id, seconds) ==
  ThermometersGet(id, seconds) \o RelaysGet(id, seconds)
    \o MotionRelaysGet(id, seconds) \o UniversalDevicesGet(id, seconds)
------------------------------------------------------------------------------
(* Mutant: one controller is forgotten.                                     *)
CleanupCallsButOne ==
  [i \in 1..7 |-> IF i <= 4 THEN <<"table", DataTables[i]>> ELSE <<"cache", DataTables[i - 4]>>]

CleanupCalls ==
  [i \in 1..8 |-> IF i <= 4 THEN <<"table", DataTables[i]>> ELSE <<"cache", DataTables[i - 4]>>]

(* The calls still to make.                                                 *)
ToMake == (cleanup.made + 1)..Len(CleanupCalls)

(* The timer's message, a minute later or much later.                       *)
StartCleanup ==
  /\ ToMake = {}
  /\ cleanup' = [limit |-> now - Age, made |-> 0]
  /\ UNCHANGED <<storageVars, kindOf, now, swept, cache, job, newest>>

NextCall(what, kind) ==
  /\ ToMake # {}
  /\ CleanupCalls[cleanup.made + 1] = <<what, kind>>
  /\ cleanup' = [cleanup EXCEPT !.made = @ + 1]

(* Storage::CleanupOldData: one DELETE a table, whose result nobody reads.  *)
CleanupOldData(kind) ==
  LET Kept(rows) == {r \in rows : r.second >= Second(cleanup.limit)}
  IN  /\ NextCall("table", kind)
      /\ \/ \E c \in Connections :
              /\ Leaves(c, [c.rows EXCEPT ![kind] = Kept(@)])
              /\ swept' = IF c.tx \/ Kept(c.rows[kind]) = c.rows[kind] THEN swept
                          ELSE [swept EXCEPT ![kind] = cleanup.limit]
         \/ Fails("write") /\ UNCHANGED swept
      /\ UNCHANGED <<kindOf, now, cache, job, newest>>

(* Mutant: everything up to the time of the message goes.                   *)
CleanupCacheToNow(kind) ==
  /\ NextCall("cache", kind)
  /\ cache' = [cache EXCEPT ![kind] = {e \in @ : e.time >= cleanup.limit + Age}]
  /\ UNCHANGED <<storageVars, kindOf, now, swept, job, newest>>

(* ChronoCache::Cleanup erases up to lower_bound, with the full time stamp. *)
CleanupCache(kind) ==
  /\ NextCall("cache", kind)
  /\ cache' = [cache EXCEPT ![kind] = {e \in @ : e.time >= cleanup.limit}]
  /\ UNCHANGED <<storageVars, kindOf, now, swept, job, newest>>
------------------------------------------------------------------------------
(* No handler takes as long as two weeks.                                   *)
Tick ==
  /\ now < MaxTime
  /\ \A w \in Busy : now + 1 - job[w].time < Age
  /\ now' = now + 1
  /\ UNCHANGED <<storageVars, kindOf, cleanup, swept, cache, job, newest>>

(* An activation of a scenario on the connection all controllers share.     *)
OtherTransaction ==
  /\ \E ok \in BOOLEAN : Begin(ok) \/ Commit(ok)
  /\ UNCHANGED <<clockVars, cache, job, newest>>

(* A new process: the constructors fill the caches from the tables.         *)
Restart ==
  /\ "crash" \in Faults
  /\ Reconnects
  /\ cache' \in FilledCaches(durable)
  /\ job' = [w \in Workers |-> Idle]
  /\ cleanup' = [cleanup EXCEPT !.made = Len(CleanupCalls)]
  /\ UNCHANGED <<kindOf, now, swept, newest>>

Init ==
  /\ db = [k \in Kinds |-> {}]
  /\ durable = db
  /\ txOpen = FALSE
  /\ kindOf \in [Devices -> Kinds]
  /\ now = Age
  /\ cache = [k \in Kinds |-> {}]
  /\ job = [w \in Workers |-> Idle]
  /\ cleanup = [limit |-> 0, made |-> Len(CleanupCalls)]
  /\ swept = [k \in Kinds |-> 0]
  /\ newest = [d \in Devices |-> 0]

Next ==
  \/ \E w \in Workers : Receive(w) \/ Handle(w)
  \/ StartCleanup
  \/ \E kind \in Kinds : CleanupOldData(kind) \/ CleanupCache(kind)
  \/ Tick
  \/ OtherTransaction
  \/ Restart

Spec == Init /\ [][Next]_measurementVars
------------------------------------------------------------------------------
Times == 0..MaxTime

Values(kind) ==
  IF kind = "MotionRelays" THEN [motion : BOOLEAN, state : {"unset"}] ELSE Payloads[kind]

RowValues(kind) ==
  IF kind = "MotionRelays" THEN [motion : {"true", "false"}, state : {"unset"}]
  ELSE Payloads[kind]

Rows(kind) ==
  [id : Devices, second : 0..Second(MaxTime), value : RowValues(kind)]

Entries(kind) == [id : Devices, time : Times, value : Values(kind)]

(* A device sends what its build measures.                                  *)
Messages ==
  UNION {[id : {d}, data : Payloads[kindOf[d]], time : Times] : d \in Devices}

MeasurementsTypeOK ==
  /\ kindOf \in [Devices -> Kinds]
  /\ now \in Times
  /\ \A k \in Kinds : db[k] \subseteq Rows(k) /\ cache[k] \subseteq Entries(k)
  /\ job \in [Workers -> Messages \cup {Idle}]
  /\ cleanup \in [limit : Times, made : 0..Len(CleanupCalls)]
  /\ swept \in [Kinds -> Times]
  /\ newest \in [Devices -> Times]

CacheWaits(kind) == \E i \in ToMake : CleanupCalls[i] = <<"cache", kind>>

SameSecond(r, e) == r.id = e.id /\ r.second = Second(e.time)

(***************************************************************************)
(* Every value the server answers with is in its table: the cache never    *)
(* runs ahead of a failing INSERT, and after the DELETE of old rows it is  *)
(* only waiting for its own turn.                                          *)
(***************************************************************************)
AnsweredIsStored ==
  \A k \in Kinds : \A e \in cache[k] :
    \/ \E r \in db[k] : SameSecond(r, e)
    \/ e.time < cleanup.limit /\ CacheWaits(k)

(***************************************************************************)
(* Every stored value that is not older than the last clean-up is          *)
(* answered, though the table has seconds and the cache full time stamps,  *)
(* and messages of one device may be handled in another order than they    *)
(* came.                                                                   *)
(***************************************************************************)
StoredIsAnswered ==
  \A k \in Kinds : \A r \in db[k] :
    TimeFromInt(r.second) >= cleanup.limit => \E e \in cache[k] : SameSecond(r, e)

(***************************************************************************)
(* What a clean-up deleted for good never comes back, neither by a late    *)
(* message nor by a restart between its calls; the cache follows at the    *)
(* latest with its own call.                                               *)
(***************************************************************************)
CleanedStaysGone ==
  \A k \in Kinds :
    /\ \A r \in db[k] : r.second >= Second(swept[k])
    /\ CacheWaits(k) \/ \A e \in cache[k] : Second(e.time) >= Second(swept[k])

(***************************************************************************)
(* A device whose report was acknowledged is answered with that value or a *)
(* newer one, through restarts, until the clean-up reaches it; the answer  *)
(* is ordered, newest first.  (Reports stored while somebody's transaction *)
(* is open are acknowledged too, and a crash takes them: not promised.)    *)
(***************************************************************************)
AcknowledgedIsAnswered ==
  \A d \in Devices, seconds \in {0, 1} :
    LET answer == DeviceInfo(d, seconds)
    IN  /\ newest[d] > 0 /\ TimeFromInt(Second(newest[d])) >= cleanup.limit
             => answer # <<>> /\ Second(answer[1].time) >= Second(newest[d])
        /\ \A i, j \in DOMAIN answer : i < j => answer[i].time > answer[j].time
==============================================================================
