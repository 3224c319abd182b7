-------------------------- MODULE MeasurementsProofs --------------------------
(***************************************************************************)
(* What the four tables of measured values and their caches promise, for   *)
(* every set of devices and workers, every length of a second and of the   *)
(* time a value is kept, and, where nothing else is said, whatever         *)
(* statements fail.                                                        *)
(***************************************************************************)
EXTENDS Measurements, StorageProofs, FiniteSetTheorems, SequenceTheorems

(***************************************************************************)
(* Seconds and ticks.                                                      *)
(***************************************************************************)
(* Division leaves a quotient and a remainder, also by a parameter.         *)
LEMMA SecondBounds ==
  ASSUME NEW t \in Nat
  PROVE  Second(t) \in Nat /\ Second(t) * TPS <= t /\ t < Second(t) * TPS + TPS
BY MeasurementsAssumption DEF Second

LEMMA SecondUnique ==
  ASSUME NEW a \in Nat, NEW b \in Nat, a * TPS < b * TPS + TPS
  PROVE  a <= b
<1> SUFFICES ASSUME a >= b + 1 PROVE FALSE
  OBVIOUS
<1> QED
  BY MeasurementsAssumption

(* TimeToInt keeps the order of the clock.                                  *)
LEMMA SecondMonotone ==
  ASSUME NEW s \in Nat, NEW t \in Nat, s <= t
  PROVE  Second(s) <= Second(t)
<1>1. /\ Second(s) \in Nat /\ Second(s) * TPS \in Nat /\ Second(s) * TPS <= s
      /\ Second(t) \in Nat /\ Second(t) * TPS \in Nat /\ t < Second(t) * TPS + TPS
  BY SecondBounds, MeasurementsAssumption
<1>2. Second(s) * TPS < Second(t) * TPS + TPS
  BY <1>1, MeasurementsAssumption
<1> QED
  BY <1>1, <1>2, SecondUnique

(* TimeFromInt and TimeToInt: a full second is read back as itself.         *)
LEMMA SecondOfTime ==
  ASSUME NEW s \in Nat
  PROVE  TimeFromInt(s) \in Nat /\ Second(TimeFromInt(s)) = s
<1>1. TimeFromInt(s) \in Nat /\ TimeFromInt(s) = s * TPS
  BY MeasurementsAssumption DEF TimeFromInt
<1>2. Second(s * TPS) <= s /\ s <= Second(s * TPS)
  BY <1>1, SecondBounds, SecondUnique, MeasurementsAssumption
<1> QED
  BY <1>1, <1>2, SecondBounds

(* A row is not newer than the value it was made of.                        *)
LEMMA TimeOfSecond ==
  ASSUME NEW t \in Nat
  PROVE  TimeFromInt(Second(t)) \in Nat /\ TimeFromInt(Second(t)) <= t
BY SecondBounds, SecondOfTime DEF TimeFromInt

(* The times a row can stand for are those of the model's clock.            *)
LEMMA RowTime ==
  ASSUME NEW s \in 0..Second(MaxTime)
  PROVE  TimeFromInt(s) \in Times
<1>1. Second(MaxTime) \in Nat /\ Second(MaxTime) * TPS <= MaxTime /\ s \in Nat /\ s <= Second(MaxTime)
  BY SecondBounds, MeasurementsAssumption
<1>2. s * TPS <= Second(MaxTime) * TPS
  BY <1>1, MeasurementsAssumption
<1> QED
  BY <1>1, <1>2, MeasurementsAssumption DEF TimeFromInt, Times

LEMMA SecondType ==
  ASSUME NEW t \in Times
  PROVE  Second(t) \in 0..Second(MaxTime)
BY SecondBounds, SecondMonotone, MeasurementsAssumption DEF Times
------------------------------------------------------------------------------
(***************************************************************************)
(* Types.                                                                  *)
(***************************************************************************)
Tables ==
  {t \in [Kinds -> SUBSET UNION {Rows(k) : k \in Kinds}] : \A k \in Kinds : t[k] \subseteq Rows(k)}

Caches ==
  {t \in [Kinds -> SUBSET UNION {Entries(k) : k \in Kinds}] :
     \A k \in Kinds : t[k] \subseteq Entries(k)}

CleanupOK == cleanup \in [limit : Times, made : 0..Len(CleanupCalls)]

JobsOK == job \in [Workers -> Messages \cup {Idle}]

TypeInv ==
  /\ StorageTypeOK(Tables)
  /\ cache \in Caches
  /\ kindOf \in [Devices -> Kinds]
  /\ now \in Age..MaxTime
  /\ JobsOK
  /\ CleanupOK
  /\ swept \in [Kinds -> Times]
  /\ newest \in [Devices -> Times]

LEMMA TableWith ==
  ASSUME NEW t \in Tables, NEW k \in Kinds, NEW S, S \subseteq Rows(k)
  PROVE  [t EXCEPT ![k] = S] \in Tables
BY DEF Tables

LEMMA CacheWith ==
  ASSUME NEW t \in Caches, NEW k \in Kinds, NEW S, S \subseteq Entries(k)
  PROVE  [t EXCEPT ![k] = S] \in Caches
BY DEF Caches

(***************************************************************************)
(* The calls of a clean-up.                                                *)
(***************************************************************************)
LEMMA Calls ==
  /\ Len(CleanupCalls) = 8
  /\ \A i \in 1..4 : CleanupCalls[i] = <<"table", DataTables[i]>>
  /\ \A i \in 5..8 : CleanupCalls[i] = <<"cache", DataTables[i - 4]>>
<1>1. CleanupCalls = [i \in 1..8 |-> IF i <= 4 THEN <<"table", DataTables[i]>>
                                    ELSE <<"cache", DataTables[i - 4]>>]
  BY DEF CleanupCalls
<1>2. CleanupCalls \in Seq({CleanupCalls[i] : i \in 1..8})
  BY <1>1
<1> QED
  BY <1>1, <1>2

LEMMA EachKindHasATable ==
  ASSUME NEW k \in Kinds
  PROVE  \E i \in 1..4 : DataTables[i] = k
<1>1. DataTables[1] = "Thermometers" /\ DataTables[2] = "Relays"
      /\ DataTables[3] = "MotionRelays" /\ DataTables[4] = "UniversalDevices"
  BY DEF DataTables
<1> QED
  BY <1>1 DEF Kinds

(* A call of the clean-up keeps its limit and makes progress.               *)
LEMMA CallMade ==
  ASSUME CleanupOK, NEW what, NEW k, NextCall(what, k)
  PROVE  /\ CleanupOK'
         /\ cleanup'.limit = cleanup.limit
         /\ cleanup'.made = cleanup.made + 1
         /\ cleanup.made \in 0..7
         /\ CleanupCalls[cleanup.made + 1] = <<what, k>>
BY Calls DEF CleanupOK, NextCall, ToMake

(* The four caches come after all tables.                                   *)
LEMMA CachesComeLast ==
  ASSUME CleanupOK, NEW k \in Kinds, NextCall("table", k)
  PROVE  \A kind \in Kinds : CacheWaits(kind)'
<1>1. cleanup.made \in 0..7 /\ cleanup'.made = cleanup.made + 1
      /\ CleanupCalls[cleanup.made + 1] = <<"table", k>>
  BY CallMade
<1>2. cleanup.made + 1 \in 1..4
  <2>1. SUFFICES ASSUME cleanup.made + 1 \in 5..8 PROVE FALSE
    BY <1>1
  <2>2. CleanupCalls[cleanup.made + 1][1] = "cache"
    BY <2>1, Calls
  <2> QED
    BY <1>1, <2>2
<1> SUFFICES ASSUME NEW kind \in Kinds
             PROVE  CacheWaits(kind)'
  OBVIOUS
<1>3. PICK i \in 1..4 : DataTables[i] = kind
  BY EachKindHasATable
<1>4. CleanupCalls[i + 4] = <<"cache", kind>> /\ i + 4 \in (cleanup'.made + 1)..Len(CleanupCalls)
  BY <1>1, <1>2, <1>3, Calls
<1> QED
  BY <1>4 DEF CacheWaits, ToMake

(* The call of one cache leaves those of the others to be made.             *)
LEMMA OtherCachesWait ==
  ASSUME CleanupOK, NEW k \in Kinds, NextCall("cache", k),
         NEW kind \in Kinds, kind # k, CacheWaits(kind)
  PROVE  CacheWaits(kind)'
<1>1. cleanup.made \in 0..7 /\ cleanup'.made = cleanup.made + 1
      /\ CleanupCalls[cleanup.made + 1] = <<"cache", k>>
  BY CallMade
<1>2. PICK i \in (cleanup.made + 1)..Len(CleanupCalls) : CleanupCalls[i] = <<"cache", kind>>
  BY DEF CacheWaits, ToMake
<1>3. i # cleanup.made + 1
  BY <1>1, <1>2
<1>4. i \in (cleanup'.made + 1)..Len(CleanupCalls)
  BY <1>1, <1>2, <1>3, Calls
<1> QED
  BY <1>2, <1>4 DEF CacheWaits, ToMake

(* A clean-up starts with every call to make, and only when none is left.   *)
LEMMA CleanupStarts ==
  ASSUME StartCleanup, NEW kind \in Kinds
  PROVE  CacheWaits(kind)' /\ ~CacheWaits(kind)
<1>1. PICK i \in 1..4 : DataTables[i] = kind
  BY EachKindHasATable
<1>2. cleanup'.made = 0
  BY DEF StartCleanup
<1>3. CleanupCalls[i + 4] = <<"cache", kind>> /\ i + 4 \in (cleanup'.made + 1)..Len(CleanupCalls)
  BY <1>1, <1>2, Calls
<1> QED
  BY <1>3 DEF CacheWaits, ToMake, StartCleanup
------------------------------------------------------------------------------
(***************************************************************************)
(* What a filled cache holds.                                              *)
(***************************************************************************)
ValueOfRow(kind, value) == IF kind = "MotionRelays" THEN MotionRelayOfRow(value) ELSE value

(* A cache filled from rows: each entry comes from a row, and unless the    *)
(* SELECT failed each row's second has its entry.                          *)
FilledFrom(entries, kind, rows) ==
  /\ \A e \in entries : \E r \in rows :
       e = [id |-> r.id, time |-> TimeFromInt(r.second), value |-> ValueOfRow(kind, r.value)]
  /\ OneEach(entries)
  /\ "select" \notin Faults
       => \A r \in rows : \E e \in entries : e.id = r.id /\ e.time = TimeFromInt(r.second)

LEMMA FilledCache ==
  ASSUME NEW tables, NEW caches \in FilledCaches(tables), NEW k \in Kinds
  PROVE  FilledFrom(caches[k], k, tables[k])
<1>1. CASE k = "Thermometers"
  <2>1. caches[k] \in Fill(tables[k], LAMBDA v : v)
    BY <1>1 DEF FilledCaches, ThermometersFillCache
  <2> QED
    BY <1>1, <2>1 DEF Fill, FilledFrom, ValueOfRow, OneEach
<1>2. CASE k = "Relays"
  <2>1. caches[k] \in Fill(tables[k], LAMBDA v : v)
    BY <1>2 DEF FilledCaches, RelaysFillCache
  <2> QED
    BY <1>2, <2>1 DEF Fill, FilledFrom, ValueOfRow, OneEach
<1>3. CASE k = "MotionRelays"
  <2>1. caches[k] \in Fill(tables[k], MotionRelayOfRow)
    BY <1>3 DEF FilledCaches, MotionRelaysFillCache
  <2> QED
    BY <1>3, <2>1 DEF Fill, FilledFrom, ValueOfRow, OneEach
<1>4. CASE k = "UniversalDevices"
  <2>1. caches[k] \in Fill(tables[k], LAMBDA v : v)
    BY <1>4 DEF FilledCaches, UniversalDevicesFillCache
  <2> QED
    BY <1>4, <2>1 DEF Fill, FilledFrom, ValueOfRow, OneEach
<1> QED
  BY <1>1, <1>2, <1>3, <1>4 DEF Kinds

(* A refilled cache is of its type: the value of a row is one the kind has. *)
LEMMA FilledType ==
  ASSUME NEW tables \in Tables, NEW caches \in FilledCaches(tables)
  PROVE  caches \in Caches
<1>1. caches = [k \in Kinds |-> caches[k]]
  BY DEF FilledCaches, Kinds
<1>2. ASSUME NEW k \in Kinds
      PROVE  caches[k] \subseteq Entries(k)
  <2> SUFFICES ASSUME NEW e \in caches[k]
               PROVE  e \in Entries(k)
    OBVIOUS
  <2>1. PICK r \in tables[k] :
          e = [id |-> r.id, time |-> TimeFromInt(r.second), value |-> ValueOfRow(k, r.value)]
    BY FilledCache DEF FilledFrom
  <2>2. r \in Rows(k)
    BY DEF Tables
  <2>3. r.id \in Devices /\ TimeFromInt(r.second) \in Times /\ r.value \in RowValues(k)
    BY <2>2, RowTime DEF Rows
  <2>4. ValueOfRow(k, r.value) \in Values(k)
    BY <2>3 DEF ValueOfRow, Values, RowValues, MotionRelayOfRow, BoolOfColumn
  <2> QED
    BY <2>1, <2>3, <2>4 DEF Entries
<1> QED
  BY <1>1, <1>2 DEF Caches
------------------------------------------------------------------------------
(***************************************************************************)
(* A handler, whatever it is called for: it refuses the value, fails to    *)
(* insert it, or stores it in its table and its cache.                     *)
(***************************************************************************)
KindOfJob(w) == kindOf[job[w].id]

ValueOfJob(w) == FromJson(KindOfJob(w), job[w].data)

RowOfJob(w) ==
  [id |-> job[w].id, second |-> Second(job[w].time), value |-> Row(KindOfJob(w), ValueOfJob(w))]

EntryOfJob(w) == [id |-> job[w].id, time |-> job[w].time, value |-> ValueOfJob(w)]

Keeps == UNCHANGED <<cache, newest>> /\ (UNCHANGED storageVars \/ Fails("write"))

Stores(w, c) ==
  /\ Leaves(c, [c.rows EXCEPT ![KindOfJob(w)] = @ \cup {RowOfJob(w)}])
  /\ cache' = [cache EXCEPT ![KindOfJob(w)] = Emplace(@, EntryOfJob(w))]
  /\ newest' = IF c.tx THEN newest
               ELSE [newest EXCEPT ![job[w].id] = IF job[w].time > @ THEN job[w].time ELSE @]

LEMMA HandleCases ==
  ASSUME NEW w \in Workers, Handle(w)
  PROVE  /\ job[w] # Idle
         /\ job' = [job EXCEPT ![w] = Idle]
         /\ UNCHANGED clockVars
         /\ Keeps \/ \E c \in Connections : Stores(w, c)
<1> DEFINE k == KindOfJob(w)
<1>1. job[w] # Idle /\ UNCHANGED clockVars
      /\ (Refused(w) \/ Insert(w, k))
  BY DEF Handle, ThermometerProcessor, RelayProcessor, MotionRelayProcessor,
         UniversalDeviceProcessor, Handles, Busy, ThermometersAdd, RelaysAdd, MotionRelaysAdd,
         UniversalDevicesAdd, KindOfJob
<1>2. CASE Refused(w)
  BY <1>1, <1>2 DEF Refused, Done, Keeps
<1>3. CASE Insert(w, k)
  BY <1>1, <1>3 DEF Insert, Done, Keeps, Stores, RowOfJob, EntryOfJob, ValueOfJob
<1> QED
  BY <1>1, <1>2, <1>3

(* What a device sends becomes a row and an entry of its kind.              *)
LEMMA JobTypes ==
  ASSUME TypeInv, NEW w \in Workers, job[w] # Idle
  PROVE  /\ job[w].id \in Devices /\ job[w].time \in Times
         /\ KindOfJob(w) \in Kinds
         /\ RowOfJob(w) \in Rows(KindOfJob(w))
         /\ EntryOfJob(w) \in Entries(KindOfJob(w))
<1>1. job[w] \in Messages
  BY DEF TypeInv, JobsOK
<1>2. PICK d \in Devices : job[w] \in [id : {d}, data : Payloads[kindOf[d]], time : Times]
  BY <1>1 DEF Messages
<1>3. job[w].id = d /\ job[w].time \in Times /\ job[w].data \in Payloads[KindOfJob(w)]
  BY <1>2 DEF KindOfJob
<1>4. KindOfJob(w) \in Kinds
  BY <1>3 DEF KindOfJob, TypeInv
<1>5. ValueOfJob(w) \in Values(KindOfJob(w))
      /\ Row(KindOfJob(w), ValueOfJob(w)) \in RowValues(KindOfJob(w))
  <2>1. CASE KindOfJob(w) = "MotionRelays"
    <3>1. job[w].data.motion \in BOOLEAN
      BY <1>3, <2>1 DEF Payloads
    <3> QED
      BY <2>1, <3>1 DEF ValueOfJob, FromJson, Row, Values, RowValues
  <2>2. CASE KindOfJob(w) # "MotionRelays"
    BY <1>3, <2>2 DEF ValueOfJob, FromJson, Row, Values, RowValues
  <2> QED
    BY <2>1, <2>2
<1> QED
  BY <1>3, <1>4, <1>5, SecondType DEF RowOfJob, EntryOfJob, Rows, Entries
------------------------------------------------------------------------------
LEMMA InitType ==
  ASSUME Init
  PROVE  TypeInv
<1> DEFINE none == [k \in Kinds |-> {}]
<1>1. none \in Tables /\ none \in Caches
  BY DEF Tables, Caches
<1>2. db = none /\ durable = none /\ cache = none /\ txOpen = FALSE
  BY DEF Init
<1>3. StorageTypeOK(Tables) /\ cache \in Caches
  BY <1>1, <1>2 DEF StorageTypeOK
<1>4. CleanupOK /\ JobsOK /\ kindOf \in [Devices -> Kinds]
      /\ swept \in [Kinds -> Times] /\ newest \in [Devices -> Times]
  BY Calls, MeasurementsAssumption DEF Init, CleanupOK, JobsOK, Times
<1>5. now \in Age..MaxTime
  BY MeasurementsAssumption DEF Init
<1> QED
  BY <1>3, <1>4, <1>5 DEF TypeInv

LEMMA NextType ==
  ASSUME TypeInv, [Next]_measurementVars
  PROVE  TypeInv'
<1> USE DEF TypeInv
<1>1. ASSUME NEW w \in Workers, Receive(w)
      PROVE  TypeInv'
  <2>0. PICK d \in Devices : \E data \in Payloads[kindOf[d]] :
          job' = [job EXCEPT ![w] = [id |-> d, data |-> data, time |-> now]]
    BY <1>1 DEF Receive
  <2>1. PICK data \in Payloads[kindOf[d]] :
          job' = [job EXCEPT ![w] = [id |-> d, data |-> data, time |-> now]]
    BY <2>0
  <2>2. [id |-> d, data |-> data, time |-> now] \in Messages
    <3>1. now \in Times
      BY MeasurementsAssumption DEF Times
    <3> QED
      BY <3>1 DEF Messages
  <2> QED
    BY <1>1, <2>1, <2>2 DEF Receive, storageVars, clockVars, StorageTypeOK, JobsOK, Messages, CleanupOK
<1>2. ASSUME NEW w \in Workers, Handle(w)
      PROVE  TypeInv'
  <2>1. job' = [job EXCEPT ![w] = Idle] /\ UNCHANGED clockVars
        /\ job[w].id \in Devices /\ job[w].time \in Times /\ KindOfJob(w) \in Kinds
        /\ RowOfJob(w) \in Rows(KindOfJob(w)) /\ EntryOfJob(w) \in Entries(KindOfJob(w))
    BY <1>2, HandleCases, JobTypes
  <2>2. JobsOK' /\ CleanupOK' /\ kindOf' \in [Devices -> Kinds] /\ now' \in Age..MaxTime
        /\ swept' \in [Kinds -> Times]
    BY <2>1 DEF clockVars, JobsOK, Messages, CleanupOK
  <2>3. CASE Keeps
    <3>1. StorageTypeOK(Tables)'
      BY <2>3, FailsType DEF Keeps, storageVars, StorageTypeOK
    <3> QED
      BY <2>2, <2>3, <3>1 DEF Keeps
  <2>4. ASSUME NEW c \in Connections, Stores(w, c)
        PROVE  TypeInv'
    <3> DEFINE k == KindOfJob(w)
    <3>1. c.rows \in Tables
      BY ConnectionType
    <3>2. [c.rows EXCEPT ![k] = @ \cup {RowOfJob(w)}] \in Tables
      <4>1. c.rows[k] \cup {RowOfJob(w)} \subseteq Rows(k)
        BY <2>1, <3>1 DEF Tables
      <4> HIDE DEF k
      <4> QED
        BY <2>1, <3>1, <4>1, TableWith DEF k
    <3>3. StorageTypeOK(Tables)'
      BY <2>4, <3>2, LeavesType DEF Stores
    <3>4. cache' \in Caches
      <4>1. Emplace(cache[k], EntryOfJob(w)) \subseteq Entries(k)
        BY <2>1 DEF Caches, Emplace
      <4>2. cache' = [cache EXCEPT ![k] = Emplace(cache[k], EntryOfJob(w))] /\ k \in Kinds
        BY <2>1, <2>4 DEF Stores
      <4> QED
        BY <4>1, <4>2, CacheWith
    <3>5. newest' \in [Devices -> Times]
      BY <2>1, <2>4 DEF Stores
    <3> QED
      BY <2>2, <3>3, <3>4, <3>5
  <2> QED
    BY <1>2, <2>3, <2>4, HandleCases
<1>3. CASE StartCleanup
  <2>1. now - Age \in Times
    BY MeasurementsAssumption DEF Times
  <2> QED
    BY <1>3, <2>1, Calls DEF StartCleanup, storageVars, StorageTypeOK, JobsOK, CleanupOK, Messages
<1>4. ASSUME NEW k \in Kinds, CleanupOldData(k)
      PROVE  TypeInv'
  <2> DEFINE Kept(rows) == {r \in rows : r.second >= Second(cleanup.limit)}
  <2>1. CleanupOK' /\ UNCHANGED <<kindOf, now, cache, job, newest>>
    BY <1>4, CallMade DEF CleanupOldData
  <2>2. CASE Fails("write") /\ UNCHANGED swept
    BY <2>1, <2>2, FailsType DEF JobsOK, Messages
  <2>3. ASSUME NEW c \in Connections, Leaves(c, [c.rows EXCEPT ![k] = Kept(@)]),
               swept' = IF c.tx \/ Kept(c.rows[k]) = c.rows[k] THEN swept
                        ELSE [swept EXCEPT ![k] = cleanup.limit]
        PROVE  TypeInv'
    <3>1. c.rows \in Tables
      BY ConnectionType
    <3>2. [c.rows EXCEPT ![k] = Kept(@)] \in Tables
      BY <3>1, TableWith DEF Tables
    <3>3. StorageTypeOK(Tables)'
      BY <2>3, <3>2, LeavesType
    <3>4. swept' \in [Kinds -> Times]
      BY <2>3 DEF CleanupOK
    <3> QED
      BY <2>1, <3>3, <3>4 DEF JobsOK, Messages
  <2> QED
    BY <1>4, <2>2, <2>3 DEF CleanupOldData
<1>5. ASSUME NEW k \in Kinds, CleanupCache(k)
      PROVE  TypeInv'
  <2>1. CleanupOK'
    BY <1>5, CallMade DEF CleanupCache
  <2>2. cache' \in Caches
    BY <1>5, CacheWith DEF CleanupCache, Caches
  <2> QED
    BY <1>5, <2>1, <2>2 DEF CleanupCache, storageVars, StorageTypeOK, JobsOK, Messages
<1>6. CASE Tick
  BY <1>6, MeasurementsAssumption
     DEF Tick, Times, storageVars, StorageTypeOK, JobsOK, Messages, CleanupOK
<1>7. CASE OtherTransaction
  <2>1. StorageTypeOK(Tables)'
    BY <1>7, TransactionType DEF OtherTransaction
  <2> QED
    BY <1>7, <2>1 DEF OtherTransaction, clockVars, JobsOK, Messages, CleanupOK
<1>8. CASE Restart
  <2>1. StorageTypeOK(Tables)'
    BY <1>8 DEF Restart, Reconnects, StorageTypeOK
  <2>2. cache' \in Caches
    BY <1>8, FilledType DEF Restart, StorageTypeOK
  <2> QED
    BY <1>8, <2>1, <2>2, Calls DEF Restart, JobsOK, CleanupOK
<1>9. CASE UNCHANGED measurementVars
  BY <1>9 DEF measurementVars, storageVars, clockVars, StorageTypeOK, JobsOK, Messages, CleanupOK
<1> QED
  BY <1>1, <1>2, <1>3, <1>4, <1>5, <1>6, <1>7, <1>8, <1>9 DEF Next
------------------------------------------------------------------------------
(***************************************************************************)
(* Which rows a step can add or lose, in the tables the connection shows   *)
(* and in those of the file.                                               *)
(***************************************************************************)
StoredRows(k) == db[k] \cup durable[k]

LastingRows(k) == db[k] \cap durable[k]

NoNewRows == \A k \in Kinds : StoredRows(k)' \subseteq StoredRows(k)

NoLostRows == \A k \in Kinds : LastingRows(k) \subseteq LastingRows(k)'

(* No failure of a statement ends a transaction.                            *)
TransactionsLast == Faults \cap {"rollback", "reopen"} = {}

(* What a step does that changes no table of values for good.               *)
SameRows == NoNewRows /\ NoLostRows /\ (TransactionsLast => db' = db)

LEMMA FailsSameRows ==
  ASSUME NEW kind, Fails(kind)
  PROVE  SameRows
BY DEF Fails, storageVars, SameRows, NoNewRows, NoLostRows, StoredRows, LastingRows, TransactionsLast

LEMMA ConnectionRows ==
  ASSUME NEW c \in Connections
  PROVE  c.rows \in {db, durable} /\ (TransactionsLast => c.rows = db)
         /\ (c.tx => c.rows = db) /\ (~c.tx => c.rows = durable \/ ~txOpen)
BY DEF Connections, TransactionsLast

LEMMA TransactionSameRows ==
  ASSUME OtherTransaction
  PROVE  SameRows
<1>1. PICK ok \in BOOLEAN : Begin(ok) \/ Commit(ok)
  BY DEF OtherTransaction
<1>2. CASE Fails("write")
  BY <1>2, FailsSameRows
<1>3. ASSUME NEW c \in Connections, db' = c.rows, durable' \in {durable, c.rows}
      PROVE  SameRows
  BY <1>3, ConnectionRows DEF SameRows, NoNewRows, NoLostRows, StoredRows, LastingRows
<1> QED
  BY <1>1, <1>2, <1>3 DEF Begin, Commit

LEMMA RestartRows ==
  ASSUME Restart
  PROVE  NoNewRows /\ NoLostRows
BY DEF Restart, Reconnects, NoNewRows, NoLostRows, StoredRows, LastingRows

(* A statement on one table leaves the others as its connection shows them. *)
LEMMA LeavesRows ==
  ASSUME StorageTypeOK(Tables), NEW c \in Connections, NEW k \in Kinds, NEW S,
         Leaves(c, [c.rows EXCEPT ![k] = S])
  PROVE  /\ \A kind \in Kinds \ {k} :
              db'[kind] = c.rows[kind] /\ durable'[kind] \in {durable[kind], c.rows[kind]}
         /\ db'[k] = S /\ durable'[k] = IF c.tx THEN durable[k] ELSE S
<1>1. c.rows \in Tables
  BY ConnectionType
<1>2. /\ [c.rows EXCEPT ![k] = S][k] = S
      /\ \A kind \in Kinds \ {k} : [c.rows EXCEPT ![k] = S][kind] = c.rows[kind]
  BY <1>1 DEF Tables
<1> QED
  BY <1>2 DEF Leaves
------------------------------------------------------------------------------
(***************************************************************************)
(* The steps, by what they do to tables and caches.                        *)
(***************************************************************************)
Quiet == UNCHANGED <<kindOf, cache, swept, newest, cleanup>> /\ SameRows

(* Everything but stored values, clean-ups and restarts is quiet.           *)
LEMMA StepCases ==
  ASSUME [Next]_measurementVars
  PROVE  \/ Quiet
         \/ \E w \in Workers : \E c \in Connections :
              job[w] # Idle /\ Stores(w, c) /\ UNCHANGED clockVars
         \/ StartCleanup
         \/ \E k \in Kinds : CleanupOldData(k) \/ CleanupCache(k)
         \/ Restart
<1>1. UNCHANGED storageVars => SameRows
  BY DEF storageVars, SameRows, NoNewRows, NoLostRows, StoredRows, LastingRows
<1>2. ASSUME NEW w \in Workers, Receive(w)
      PROVE  Quiet
  BY <1>1, <1>2 DEF Receive, clockVars, Quiet
<1>3. ASSUME NEW w \in Workers, Handle(w), Keeps
      PROVE  Quiet
  BY <1>1, <1>3, HandleCases, FailsSameRows DEF Keeps, clockVars, Quiet
<1>4. CASE Tick
  BY <1>1, <1>4 DEF Tick, Quiet
<1>5. CASE OtherTransaction
  BY <1>5, TransactionSameRows DEF OtherTransaction, clockVars, Quiet
<1>6. CASE UNCHANGED measurementVars
  BY <1>1, <1>6 DEF measurementVars, clockVars, Quiet
<1> QED
  BY <1>2, <1>3, <1>4, <1>5, <1>6, HandleCases DEF Next

(* What a stored value adds, and that nothing is lost.                      *)
LEMMA StoresAdds ==
  ASSUME TypeInv, NEW w \in Workers, job[w] # Idle, NEW c \in Connections, Stores(w, c),
         NEW k \in Kinds, k = KindOfJob(w)
  PROVE  /\ NoLostRows
         /\ \A kind \in Kinds \ {k} :
              StoredRows(kind)' \subseteq StoredRows(kind) /\ cache'[kind] = cache[kind]
         /\ StoredRows(k)' \subseteq StoredRows(k) \cup {RowOfJob(w)}
         /\ RowOfJob(w) \in db'[k]
         /\ ~c.tx => RowOfJob(w) \in LastingRows(k)'
         /\ cache'[k] = Emplace(cache[k], EntryOfJob(w))
         /\ TransactionsLast => \A kind \in Kinds : db[kind] \subseteq db'[kind]
<1>1. PICK S : S = c.rows[k] \cup {RowOfJob(w)}
  OBVIOUS
<1>2. Leaves(c, [c.rows EXCEPT ![k] = S])
  BY <1>1 DEF Stores
<1>3. /\ \A kind \in Kinds \ {k} :
           db'[kind] = c.rows[kind] /\ durable'[kind] \in {durable[kind], c.rows[kind]}
      /\ db'[k] = S /\ durable'[k] = IF c.tx THEN durable[k] ELSE S
  <2>1. StorageTypeOK(Tables)
    BY DEF TypeInv
  <2> QED
    BY <1>2, <2>1, LeavesRows
<1>4. /\ c.rows \in {db, durable}
      /\ TransactionsLast => c.rows = db
  BY ConnectionRows
<1>5. cache'[k] = Emplace(cache[k], EntryOfJob(w))
      /\ \A kind \in Kinds \ {k} : cache'[kind] = cache[kind]
  <2>1. cache' = [cache EXCEPT ![k] = Emplace(@, EntryOfJob(w))] /\ cache \in Caches
    BY DEF Stores, TypeInv
  <2> QED
    BY <2>1 DEF Caches
<1>6. NoLostRows
  <2> SUFFICES ASSUME NEW kind \in Kinds, NEW r \in LastingRows(kind)
               PROVE  r \in LastingRows(kind)'
    BY DEF NoLostRows
  <2> QED
    BY <1>1, <1>3, <1>4 DEF LastingRows
<1>7. \A kind \in Kinds \ {k} : StoredRows(kind)' \subseteq StoredRows(kind)
  BY <1>3, <1>4 DEF StoredRows
<1>8. StoredRows(k)' \subseteq StoredRows(k) \cup {RowOfJob(w)}
  BY <1>1, <1>3, <1>4 DEF StoredRows
<1>9. RowOfJob(w) \in db'[k] /\ (~c.tx => RowOfJob(w) \in LastingRows(k)')
  BY <1>1, <1>3 DEF LastingRows
<1>10. TransactionsLast => \A kind \in Kinds : db[kind] \subseteq db'[kind]
  BY <1>1, <1>3, <1>4
<1> QED
  BY <1>5, <1>6, <1>7, <1>8, <1>9, <1>10

(* What a DELETE of old rows takes: nothing that is not older than its      *)
(* limit; and when it took something for good, nothing older is left.       *)
LEMMA CleanupRows ==
  ASSUME TypeInv, NEW k \in Kinds, CleanupOldData(k)
  PROVE  /\ NoNewRows
         /\ \A kind \in Kinds : \A r \in LastingRows(kind) :
              r.second >= Second(cleanup.limit) => r \in LastingRows(kind)'
         /\ TransactionsLast => \A kind \in Kinds : \A r \in db[kind] :
              r \in db'[kind] \/ (kind = k /\ ~(r.second >= Second(cleanup.limit)))
         /\ \/ swept' = swept
            \/ /\ swept' = [swept EXCEPT ![k] = cleanup.limit]
               /\ \A r \in StoredRows(k)' : r.second >= Second(cleanup.limit)
         /\ UNCHANGED <<kindOf, cache, newest>>
<1> DEFINE Kept(rows) == {r \in rows : r.second >= Second(cleanup.limit)}
<1>1. CASE Fails("write") /\ UNCHANGED swept
  <2>1. SameRows
    BY <1>1, FailsSameRows
  <2>2. UNCHANGED <<kindOf, cache, newest>>
    BY DEF CleanupOldData
  <2> QED
    BY <1>1, <2>1, <2>2 DEF SameRows, NoLostRows
<1>2. ASSUME NEW c \in Connections, Leaves(c, [c.rows EXCEPT ![k] = Kept(@)]),
             swept' = IF c.tx \/ Kept(c.rows[k]) = c.rows[k] THEN swept
                      ELSE [swept EXCEPT ![k] = cleanup.limit]
      PROVE  /\ NoNewRows
             /\ \A kind \in Kinds : \A r \in LastingRows(kind) :
                  r.second >= Second(cleanup.limit) => r \in LastingRows(kind)'
             /\ TransactionsLast => \A kind \in Kinds : \A r \in db[kind] :
                  r \in db'[kind] \/ (kind = k /\ ~(r.second >= Second(cleanup.limit)))
             /\ \/ swept' = swept
                \/ /\ swept' = [swept EXCEPT ![k] = cleanup.limit]
                   /\ \A r \in StoredRows(k)' : r.second >= Second(cleanup.limit)
  <2>1. PICK S : S = Kept(c.rows[k])
    OBVIOUS
  <2>2. \A r : r \in S <=> r \in c.rows[k] /\ r.second >= Second(cleanup.limit)
    BY <2>1
  <2>3. /\ \A kind \in Kinds \ {k} :
             db'[kind] = c.rows[kind] /\ durable'[kind] \in {durable[kind], c.rows[kind]}
        /\ db'[k] = S /\ durable'[k] = IF c.tx THEN durable[k] ELSE S
    <3>1. Leaves(c, [c.rows EXCEPT ![k] = S])
      BY <1>2, <2>1
    <3> HIDE DEF Kept
    <3> QED
      BY <3>1, LeavesRows DEF TypeInv
  <2>4. /\ c.rows \in {db, durable}
        /\ TransactionsLast => c.rows = db
    BY ConnectionRows
  <2>5. NoNewRows
    <3> SUFFICES ASSUME NEW kind \in Kinds, NEW r \in StoredRows(kind)'
                 PROVE  r \in StoredRows(kind)
      BY DEF NoNewRows
    <3> QED
      BY <2>2, <2>3, <2>4 DEF StoredRows
  <2>6. ASSUME NEW kind \in Kinds, NEW r \in LastingRows(kind), r.second >= Second(cleanup.limit)
        PROVE  r \in LastingRows(kind)'
    BY <2>2, <2>3, <2>4, <2>6 DEF LastingRows
  <2>7. ASSUME TransactionsLast, NEW kind \in Kinds, NEW r \in db[kind]
        PROVE  r \in db'[kind] \/ (kind = k /\ ~(r.second >= Second(cleanup.limit)))
    BY <2>2, <2>3, <2>4, <2>7
  <2>8. CASE swept' = swept
    BY <2>5, <2>6, <2>7, <2>8
  <2>9. CASE swept' # swept
    <3>1. swept' = [swept EXCEPT ![k] = cleanup.limit] /\ ~c.tx
      BY <1>2, <2>9
    <3>2. \A r \in StoredRows(k)' : r.second >= Second(cleanup.limit)
      BY <2>2, <2>3, <3>1 DEF StoredRows
    <3> QED
      BY <2>5, <2>6, <2>7, <3>1, <3>2
  <2> QED
    BY <2>8, <2>9
<1> QED
  BY <1>1, <1>2 DEF CleanupOldData

(* What a refilled cache holds, of the rows the file had.                   *)
LEMMA RestartFills ==
  ASSUME Restart, NEW k \in Kinds
  PROVE  /\ db' = durable /\ durable' = durable /\ UNCHANGED <<kindOf, swept, newest>>
         /\ cleanup'.made = Len(CleanupCalls) \/ cleanup'.made = cleanup.made
         /\ FilledFrom(cache'[k], k, durable[k])
BY FilledCache DEF Restart, Reconnects
------------------------------------------------------------------------------
(***************************************************************************)
(* Times: the clean-up reaches nothing that a handler still works on.      *)
(***************************************************************************)
OnTime ==
  /\ cleanup.limit <= now - Age
  /\ \A k \in Kinds : swept[k] <= cleanup.limit
  /\ \A w \in Workers : job[w] # Idle => now - job[w].time < Age

LEMMA InitOnTime ==
  ASSUME Init
  PROVE  OnTime
BY MeasurementsAssumption DEF Init, OnTime

LEMMA NextOnTime ==
  ASSUME TypeInv, OnTime, [Next]_measurementVars
  PROVE  OnTime'
<1> USE DEF OnTime
<1>0. /\ now \in Nat /\ Age \in Nat \ {0} /\ cleanup.limit \in Nat
      /\ swept \in [Kinds -> Nat]
      /\ \A w \in Workers : job[w] # Idle => job[w].time \in Nat
  BY JobTypes, MeasurementsAssumption DEF TypeInv, CleanupOK, Times
<1>1. ASSUME NEW w \in Workers, Receive(w)
      PROVE  OnTime'
  <2>1. PICK d \in Devices : \E data \in Payloads[kindOf[d]] :
          job' = [job EXCEPT ![w] = [id |-> d, data |-> data, time |-> now]]
    BY <1>1 DEF Receive
  <2>2. \A u \in Workers : job'[u] # Idle => job'[u].time = now \/ job'[u] = job[u]
    BY <2>1
  <2>3. \A u \in Workers : job'[u] # Idle => now - job'[u].time < Age
    BY <2>2, <1>0
  <2> QED
    BY <1>1, <2>3 DEF Receive, clockVars
<1>2. ASSUME NEW w \in Workers, Handle(w)
      PROVE  OnTime'
  <2>1. job' = [job EXCEPT ![w] = Idle] /\ UNCHANGED clockVars
    BY <1>2, HandleCases
  <2>2. \A u \in Workers : job'[u] # Idle => job'[u] = job[u] /\ job[u] # Idle
    BY <2>1
  <2> QED
    BY <2>1, <2>2 DEF clockVars
<1>3. CASE StartCleanup
  <2>1. cleanup'.limit = now - Age /\ UNCHANGED <<now, swept, job>>
    BY <1>3 DEF StartCleanup
  <2>2. \A k \in Kinds : swept'[k] <= cleanup'.limit
    BY <2>1, <1>0
  <2> QED
    BY <2>1, <2>2, <1>0
<1>4. ASSUME NEW k \in Kinds, CleanupOldData(k)
      PROVE  OnTime'
  <2>1. swept' = swept \/ swept' = [swept EXCEPT ![k] = cleanup.limit]
    BY <1>4 DEF CleanupOldData
  <2>2. cleanup'.limit = cleanup.limit /\ UNCHANGED <<now, job>>
    BY <1>4, CallMade DEF CleanupOldData, TypeInv
  <2>3. \A kind \in Kinds : swept'[kind] <= cleanup.limit
    BY <2>1, <1>0
  <2> QED
    BY <2>2, <2>3
<1>5. ASSUME NEW k \in Kinds, CleanupCache(k)
      PROVE  OnTime'
  BY <1>5, CallMade DEF CleanupCache, TypeInv
<1>6. CASE Tick
  <2>1. \A w \in Workers : job[w] # Idle => now + 1 - job[w].time < Age
    BY <1>6 DEF Tick, Busy
  <2>2. now' = now + 1 /\ UNCHANGED <<cleanup, swept, job>>
    BY <1>6 DEF Tick
  <2> QED
    BY <2>1, <2>2, <1>0
<1>7. CASE OtherTransaction
  BY <1>7 DEF OtherTransaction, clockVars
<1>8. CASE Restart
  BY <1>8 DEF Restart, TypeInv, CleanupOK
<1>9. CASE UNCHANGED measurementVars
  BY <1>9 DEF measurementVars, clockVars
<1> QED
  BY <1>1, <1>2, <1>3, <1>4, <1>5, <1>6, <1>7, <1>8, <1>9 DEF Next
------------------------------------------------------------------------------
(***************************************************************************)
(* Nothing that was cleaned comes back.                                    *)
(***************************************************************************)
(* Rows of an interrupted clean-up count: a restart brings them back.       *)
GoneInv ==
  \A k \in Kinds :
    /\ \A r \in StoredRows(k) : r.second >= Second(swept[k])
    /\ CacheWaits(k) \/ \A e \in cache[k] : Second(e.time) >= Second(swept[k])

(* A handler's value is younger than whatever was cleaned so far.           *)
LEMMA JobIsYoung ==
  ASSUME TypeInv, OnTime, NEW w \in Workers, job[w] # Idle, NEW k \in Kinds
  PROVE  Second(job[w].time) \in Nat /\ Second(job[w].time) >= Second(swept[k])
         /\ Second(job[w].time) >= Second(cleanup.limit)
<1>1. /\ now \in Nat /\ Age \in Nat /\ cleanup.limit \in Nat /\ swept[k] \in Nat
      /\ job[w].time \in Nat
  BY JobTypes, MeasurementsAssumption DEF TypeInv, CleanupOK, Times
<1>2. swept[k] <= job[w].time /\ cleanup.limit <= job[w].time
  BY <1>1 DEF OnTime
<1> QED
  BY <1>1, <1>2, SecondMonotone, SecondBounds

LEMMA InitGone ==
  ASSUME Init
  PROVE  GoneInv
BY DEF Init, GoneInv, StoredRows

LEMMA NextGone ==
  ASSUME TypeInv, OnTime, GoneInv, [Next]_measurementVars
  PROVE  GoneInv'
<1>0. /\ CleanupOK /\ cache \in Caches /\ swept \in [Kinds -> Nat] /\ cleanup.limit \in Nat
      /\ \A k \in Kinds : swept[k] <= cleanup.limit
      /\ durable \in Tables
  BY DEF TypeInv, StorageTypeOK, CleanupOK, Times, OnTime
<1>1. CASE Quiet
  <2>1. \A k \in Kinds : CacheWaits(k)' <=> CacheWaits(k)
    BY <1>1 DEF Quiet, CacheWaits, ToMake
  <2> QED
    BY <1>1, <2>1 DEF Quiet, GoneInv, SameRows, NoNewRows
<1>2. ASSUME NEW w \in Workers, NEW c \in Connections, job[w] # Idle, Stores(w, c),
             UNCHANGED clockVars
      PROVE  GoneInv'
  <2> SUFFICES ASSUME NEW k \in Kinds
               PROVE  /\ \A r \in StoredRows(k)' : r.second >= Second(swept'[k])
                      /\ CacheWaits(k)' \/ \A e \in cache'[k] : Second(e.time) >= Second(swept'[k])
    BY DEF GoneInv
  <2>1. (CacheWaits(k)' <=> CacheWaits(k)) /\ swept' = swept
    BY <1>2 DEF clockVars, CacheWaits, ToMake
  <2>2. CASE k = KindOfJob(w)
    <3>1. /\ StoredRows(k)' \subseteq StoredRows(k) \cup {RowOfJob(w)}
          /\ cache'[k] \subseteq cache[k] \cup {EntryOfJob(w)}
      BY <1>2, <2>2, StoresAdds DEF Emplace
    <3>2. /\ RowOfJob(w).second >= Second(swept[k])
          /\ Second(EntryOfJob(w).time) >= Second(swept[k])
      BY <1>2, JobIsYoung DEF RowOfJob, EntryOfJob
    <3> QED
      BY <2>1, <3>1, <3>2 DEF GoneInv
  <2>3. CASE k # KindOfJob(w)
    <3>1. StoredRows(k)' \subseteq StoredRows(k) /\ cache'[k] = cache[k]
      BY <1>2, <2>3, StoresAdds, JobTypes
    <3> QED
      BY <2>1, <3>1 DEF GoneInv
  <2> QED
    BY <2>2, <2>3
<1>3. CASE StartCleanup
  <2>1. UNCHANGED <<storageVars, swept, cache>> /\ \A k \in Kinds : CacheWaits(k)'
    BY <1>3, CleanupStarts DEF StartCleanup
  <2> QED
    BY <2>1 DEF GoneInv, StoredRows, storageVars
<1>4. ASSUME NEW k \in Kinds, CleanupOldData(k)
      PROVE  GoneInv'
  <2>1. \A kind \in Kinds : CacheWaits(kind)'
    BY <1>4, <1>0, CachesComeLast DEF CleanupOldData
  <2>2. ASSUME NEW kind \in Kinds, NEW r \in StoredRows(kind)'
        PROVE  r.second >= Second(swept'[kind])
    <3>1. r.second >= Second(swept[kind])
      BY <1>4, <2>2, CleanupRows DEF NoNewRows, GoneInv
    <3>2. CASE swept' = swept
      BY <3>1, <3>2
    <3>3. CASE swept' = [swept EXCEPT ![k] = cleanup.limit]
               /\ \A x \in StoredRows(k)' : x.second >= Second(cleanup.limit)
      BY <1>0, <2>2, <3>1, <3>3
    <3> QED
      BY <1>4, <3>2, <3>3, CleanupRows
  <2> QED
    BY <2>1, <2>2 DEF GoneInv
<1>5. ASSUME NEW k \in Kinds, CleanupCache(k)
      PROVE  GoneInv'
  <2>1. /\ UNCHANGED <<storageVars, swept>> /\ NextCall("cache", k)
        /\ cache' = [cache EXCEPT ![k] = {e \in @ : e.time >= cleanup.limit}]
    BY <1>5 DEF CleanupCache
  <2> SUFFICES ASSUME NEW kind \in Kinds
               PROVE  CacheWaits(kind)' \/ \A e \in cache'[kind] : Second(e.time) >= Second(swept[kind])
    BY <2>1 DEF GoneInv, StoredRows, storageVars
  <2>2. CASE kind = k
    <3> SUFFICES ASSUME NEW e \in cache'[k]
                 PROVE  Second(e.time) >= Second(swept[k])
      BY <2>2
    <3>1. e \in cache[k] /\ e.time >= cleanup.limit
      BY <1>0, <2>1 DEF Caches
    <3>2. e.time \in Nat
      BY <1>0, <3>1 DEF Caches, Entries, Times
    <3>3. Second(swept[k]) <= Second(e.time)
      BY <1>0, <3>1, <3>2, SecondMonotone
    <3> QED
      BY <1>0, <3>2, <3>3, SecondBounds
  <2>3. CASE kind # k
    <3>1. cache'[kind] = cache[kind]
      BY <1>0, <2>1, <2>3 DEF Caches
    <3>2. CacheWaits(kind) => CacheWaits(kind)'
      BY <1>0, <2>1, <2>3, OtherCachesWait
    <3> QED
      BY <3>1, <3>2 DEF GoneInv
  <2> QED
    BY <2>2, <2>3
<1>6. CASE Restart
  <2> SUFFICES ASSUME NEW k \in Kinds
               PROVE  /\ \A r \in StoredRows(k)' : r.second >= Second(swept'[k])
                      /\ \A e \in cache'[k] : Second(e.time) >= Second(swept'[k])
    BY DEF GoneInv
  <2>1. db' = durable /\ durable' = durable /\ swept' = swept /\ FilledFrom(cache'[k], k, durable[k])
    BY <1>6, RestartFills
  <2>2. \A r \in durable[k] : r.second >= Second(swept[k])
    BY DEF GoneInv, StoredRows
  <2>3. ASSUME NEW e \in cache'[k]
        PROVE  Second(e.time) >= Second(swept[k])
    <3>1. PICK r \in durable[k] : e.time = TimeFromInt(r.second)
      BY <2>1, <2>3 DEF FilledFrom
    <3>2. r.second \in Nat
      BY <1>0, SecondBounds, MeasurementsAssumption DEF Tables, Rows
    <3> QED
      BY <2>2, <3>1, <3>2, SecondOfTime
  <2> QED
    BY <2>1, <2>2, <2>3 DEF StoredRows
<1> QED
  BY <1>1, <1>2, <1>3, <1>4, <1>5, <1>6, StepCases
------------------------------------------------------------------------------
(***************************************************************************)
(* A device's values are in the tables and the cache of its own kind, and  *)
(* a cache has one value for a time stamp.                                 *)
(***************************************************************************)
OwnKind ==
  \A k \in Kinds :
    /\ \A r \in StoredRows(k) : kindOf[r.id] = k
    /\ \A e \in cache[k] : kindOf[e.id] = k
    /\ OneEach(cache[k])

LEMMA InitOwnKind ==
  ASSUME Init
  PROVE  OwnKind
BY DEF Init, OwnKind, StoredRows, OneEach

LEMMA NextOwnKind ==
  ASSUME TypeInv, OwnKind, [Next]_measurementVars
  PROVE  OwnKind'
<1>0. cache \in Caches
  BY DEF TypeInv
<1>1. CASE Quiet
  BY <1>1 DEF Quiet, OwnKind, SameRows, NoNewRows
<1>2. ASSUME NEW w \in Workers, NEW c \in Connections, job[w] # Idle, Stores(w, c),
             UNCHANGED clockVars
      PROVE  OwnKind'
  <2> SUFFICES ASSUME NEW k \in Kinds
               PROVE  /\ \A r \in StoredRows(k)' : kindOf[r.id] = k
                      /\ \A e \in cache'[k] : kindOf[e.id] = k
                      /\ OneEach(cache'[k])
    BY <1>2 DEF OwnKind, clockVars
  <2>1. CASE k = KindOfJob(w)
    <3>1. /\ StoredRows(k)' \subseteq StoredRows(k) \cup {RowOfJob(w)}
          /\ cache'[k] = Emplace(cache[k], EntryOfJob(w))
      BY <1>2, <2>1, StoresAdds
    <3>2. kindOf[RowOfJob(w).id] = k /\ kindOf[EntryOfJob(w).id] = k
      BY <2>1 DEF RowOfJob, EntryOfJob, KindOfJob
    <3>3. OneEach(cache'[k])
      BY <3>1 DEF OwnKind, OneEach, Emplace
    <3>4. \A e \in cache'[k] : kindOf[e.id] = k
      BY <3>1, <3>2 DEF OwnKind, Emplace
    <3> QED
      BY <3>1, <3>2, <3>3, <3>4 DEF OwnKind
  <2>2. CASE k # KindOfJob(w)
    <3>1. StoredRows(k)' \subseteq StoredRows(k) /\ cache'[k] = cache[k]
      BY <1>2, <2>2, StoresAdds, JobTypes
    <3> QED
      BY <3>1 DEF OwnKind
  <2> QED
    BY <2>1, <2>2
<1>3. CASE StartCleanup
  BY <1>3 DEF StartCleanup, OwnKind, StoredRows, storageVars
<1>4. ASSUME NEW k \in Kinds, CleanupOldData(k)
      PROVE  OwnKind'
  BY <1>4, CleanupRows DEF OwnKind, NoNewRows
<1>5. ASSUME NEW k \in Kinds, CleanupCache(k)
      PROVE  OwnKind'
  <2>1. UNCHANGED <<storageVars, kindOf>> /\ \A kind \in Kinds : cache'[kind] \subseteq cache[kind]
    BY <1>0, <1>5 DEF CleanupCache, Caches
  <2> QED
    BY <2>1 DEF OwnKind, OneEach, StoredRows, storageVars
<1>6. CASE Restart
  <2> SUFFICES ASSUME NEW k \in Kinds
               PROVE  /\ \A r \in StoredRows(k)' : kindOf[r.id] = k
                      /\ \A e \in cache'[k] : kindOf[e.id] = k
                      /\ OneEach(cache'[k])
    BY <1>6, RestartFills DEF OwnKind
  <2>1. db' = durable /\ durable' = durable /\ FilledFrom(cache'[k], k, durable[k])
    BY <1>6, RestartFills
  <2>2. \A r \in durable[k] : kindOf[r.id] = k
    BY DEF OwnKind, StoredRows
  <2> QED
    BY <2>1, <2>2 DEF FilledFrom, StoredRows
<1> QED
  BY <1>1, <1>2, <1>3, <1>4, <1>5, <1>6, StepCases
------------------------------------------------------------------------------
(***************************************************************************)
(* What is stored is answered.                                             *)
(***************************************************************************)
HasEntry(k, r) == \E e \in cache[k] : SameSecond(r, e)

(* Also what only the file still has: a transaction may be lost.            *)
StoredInv ==
  \A k \in Kinds : \A r \in StoredRows(k) :
    TimeFromInt(r.second) >= cleanup.limit => HasEntry(k, r)

(* Every SELECT of a constructor succeeds.                                  *)
FillsSucceed == "select" \notin Faults

LEMMA InitStored ==
  ASSUME Init
  PROVE  StoredInv
BY DEF Init, StoredInv, StoredRows

LEMMA RowSeconds ==
  ASSUME TypeInv, NEW k \in Kinds, NEW r \in StoredRows(k)
  PROVE  r.second \in Nat /\ TimeFromInt(r.second) \in Nat
<1>1. r \in Rows(k)
  BY DEF TypeInv, StorageTypeOK, Tables, StoredRows
<1>2. r.second \in Nat
  BY <1>1, SecondBounds, MeasurementsAssumption DEF Rows
<1> QED
  BY <1>2, SecondOfTime

(* A stored value has an entry, its own or one of the same time stamp.      *)
LEMMA EmplacedHas ==
  ASSUME NEW entries, NEW e
  PROVE  \E x \in Emplace(entries, e) : x.id = e.id /\ x.time = e.time
BY DEF Emplace

LEMMA NextStored ==
  ASSUME FillsSucceed, TypeInv, OnTime, StoredInv, [Next]_measurementVars
  PROVE  StoredInv'
<1>0. /\ CleanupOK /\ cache \in Caches /\ cleanup.limit \in Nat /\ now \in Nat /\ Age \in Nat
      /\ cleanup.limit <= now - Age
  BY MeasurementsAssumption DEF TypeInv, CleanupOK, Times, OnTime
<1>1. CASE Quiet
  BY <1>1 DEF Quiet, StoredInv, SameRows, NoNewRows, HasEntry
<1>2. ASSUME NEW w \in Workers, NEW c \in Connections, job[w] # Idle, Stores(w, c),
             UNCHANGED clockVars
      PROVE  StoredInv'
  <2> SUFFICES ASSUME NEW k \in Kinds, NEW r \in StoredRows(k)',
                      TimeFromInt(r.second) >= cleanup.limit
               PROVE  \E e \in cache'[k] : SameSecond(r, e)
    BY <1>2 DEF StoredInv, HasEntry, clockVars
  <2>1. CASE k = KindOfJob(w)
    <3>1. /\ r \in StoredRows(k) \/ r = RowOfJob(w)
          /\ cache'[k] = Emplace(cache[k], EntryOfJob(w))
      BY <1>2, <2>1, StoresAdds
    <3>2. CASE r \in StoredRows(k)
      BY <3>1, <3>2 DEF StoredInv, HasEntry, Emplace
    <3>3. CASE r = RowOfJob(w)
      <4>1. EntryOfJob(w).id = job[w].id /\ EntryOfJob(w).time = job[w].time
        BY DEF EntryOfJob
      <4>2. PICK e \in cache'[k] : e.id = job[w].id /\ e.time = job[w].time
        BY <3>1, <4>1, EmplacedHas
      <4> QED
        BY <3>3, <4>2 DEF RowOfJob, SameSecond
    <3> QED
      BY <3>1, <3>2, <3>3
  <2>2. CASE k # KindOfJob(w)
    <3>1. StoredRows(k)' \subseteq StoredRows(k) /\ cache'[k] = cache[k]
      BY <1>2, <2>2, StoresAdds, JobTypes
    <3> QED
      BY <3>1 DEF StoredInv, HasEntry
  <2> QED
    BY <2>1, <2>2
<1>3. CASE StartCleanup
  <2>1. UNCHANGED <<storageVars, cache>> /\ cleanup'.limit = now - Age
    BY <1>3 DEF StartCleanup
  <2> SUFFICES ASSUME NEW k \in Kinds, NEW r \in StoredRows(k),
                      TimeFromInt(r.second) >= cleanup'.limit
               PROVE  HasEntry(k, r)
    BY <2>1 DEF StoredInv, StoredRows, storageVars, HasEntry
  <2>2. TimeFromInt(r.second) >= cleanup.limit
    BY <1>0, <2>1, RowSeconds
  <2> QED
    BY <2>2 DEF StoredInv
<1>4. ASSUME NEW k \in Kinds, CleanupOldData(k)
      PROVE  StoredInv'
  <2>1. cleanup'.limit = cleanup.limit
    BY <1>0, <1>4, CallMade DEF CleanupOldData
  <2> QED
    BY <1>4, <2>1, CleanupRows DEF StoredInv, NoNewRows, HasEntry
<1>5. ASSUME NEW k \in Kinds, CleanupCache(k)
      PROVE  StoredInv'
  <2>1. /\ UNCHANGED storageVars /\ NextCall("cache", k) /\ cleanup'.limit = cleanup.limit
        /\ cache' = [cache EXCEPT ![k] = {e \in @ : e.time >= cleanup.limit}]
    BY <1>0, <1>5, CallMade DEF CleanupCache
  <2> SUFFICES ASSUME NEW kind \in Kinds, NEW r \in StoredRows(kind),
                      TimeFromInt(r.second) >= cleanup.limit
               PROVE  \E e \in cache'[kind] : SameSecond(r, e)
    BY <2>1 DEF StoredInv, StoredRows, storageVars, HasEntry
  <2>2. PICK e \in cache[kind] : SameSecond(r, e)
    BY DEF StoredInv, HasEntry
  <2>3. e.time \in Nat
    BY <1>0 DEF Caches, Entries, Times
  <2>4. TimeFromInt(r.second) <= e.time
    BY <2>2, <2>3, TimeOfSecond DEF SameSecond
  <2>5. e.time >= cleanup.limit
    BY <1>0, <2>3, <2>4, RowSeconds
  <2>6. e \in cache'[kind]
    BY <1>0, <2>1, <2>5 DEF Caches
  <2> QED
    BY <2>2, <2>6
<1>6. CASE Restart
  <2> SUFFICES ASSUME NEW k \in Kinds, NEW r \in StoredRows(k)'
               PROVE  \E e \in cache'[k] : SameSecond(r, e)
    BY DEF StoredInv, HasEntry
  <2>1. db' = durable /\ durable' = durable /\ FilledFrom(cache'[k], k, durable[k])
    BY <1>6, RestartFills
  <2>2. r \in durable[k] /\ r \in StoredRows(k)
    BY <2>1 DEF StoredRows
  <2>3. PICK e \in cache'[k] : e.id = r.id /\ e.time = TimeFromInt(r.second)
    BY <2>1, <2>2 DEF FilledFrom, FillsSucceed
  <2> QED
    BY <2>2, <2>3, RowSeconds, SecondOfTime DEF SameSecond
<1> QED
  BY <1>1, <1>2, <1>3, <1>4, <1>5, <1>6, StepCases
------------------------------------------------------------------------------
(***************************************************************************)
(* What is answered is stored.                                             *)
(***************************************************************************)
LEMMA InitAnswered ==
  ASSUME Init
  PROVE  AnsweredIsStored
BY DEF Init, AnsweredIsStored

LEMMA NextAnswered ==
  ASSUME TransactionsLast, TypeInv, OnTime, AnsweredIsStored, [Next]_measurementVars
  PROVE  AnsweredIsStored'
<1> DEFINE Holds(k, e) == \/ \E r \in db[k] : SameSecond(r, e)
                          \/ e.time < cleanup.limit /\ CacheWaits(k)
<1>0. /\ CleanupOK /\ cache \in Caches /\ cleanup.limit \in Nat
      /\ \A k \in Kinds : \A e \in cache[k] : e.time \in Nat /\ Holds(k, e)
  BY DEF TypeInv, CleanupOK, Caches, Entries, Times, AnsweredIsStored
<1>1. CASE Quiet
  <2>1. db' = db /\ cache' = cache /\ cleanup' = cleanup
    BY <1>1 DEF Quiet, SameRows
  <2>2. \A k \in Kinds : CacheWaits(k)' <=> CacheWaits(k)
    BY <2>1 DEF CacheWaits, ToMake
  <2> QED
    BY <2>1, <2>2 DEF AnsweredIsStored
<1>2. ASSUME NEW w \in Workers, NEW c \in Connections, job[w] # Idle, Stores(w, c),
             UNCHANGED clockVars
      PROVE  AnsweredIsStored'
  <2> SUFFICES ASSUME NEW k \in Kinds, NEW e \in cache'[k]
               PROVE  \/ \E r \in db'[k] : SameSecond(r, e)
                      \/ e.time < cleanup'.limit /\ CacheWaits(k)'
    BY DEF AnsweredIsStored
  <2>1. cleanup' = cleanup /\ (CacheWaits(k)' <=> CacheWaits(k))
    BY <1>2 DEF clockVars, CacheWaits, ToMake
  <2>2. db[k] \subseteq db'[k]
    BY <1>2, StoresAdds, JobTypes
  <2>3. CASE e \in cache[k]
    BY <1>0, <2>1, <2>2, <2>3
  <2>4. CASE e \notin cache[k]
    <3>1. k = KindOfJob(w)
      BY <1>2, <2>4, StoresAdds, JobTypes
    <3>2. e = EntryOfJob(w) /\ RowOfJob(w) \in db'[k]
      <4>1. RowOfJob(w) \in db'[k] /\ cache'[k] = Emplace(cache[k], EntryOfJob(w))
        BY <1>2, <3>1, StoresAdds
      <4> QED
        BY <2>4, <4>1 DEF Emplace
    <3>3. SameSecond(RowOfJob(w), e)
      BY <3>2 DEF SameSecond, RowOfJob, EntryOfJob
    <3> QED
      BY <3>2, <3>3
  <2> QED
    BY <2>3, <2>4
<1>3. CASE StartCleanup
  <2>1. UNCHANGED <<storageVars, cache>> /\ \A k \in Kinds : ~CacheWaits(k)
    BY <1>3, CleanupStarts DEF StartCleanup
  <2> QED
    BY <1>0, <2>1 DEF AnsweredIsStored, storageVars
<1>4. ASSUME NEW k \in Kinds, CleanupOldData(k)
      PROVE  AnsweredIsStored'
  <2>1. cleanup'.limit = cleanup.limit /\ \A kind \in Kinds : CacheWaits(kind)'
    BY <1>0, <1>4, CallMade, CachesComeLast DEF CleanupOldData
  <2>2. cache' = cache
    BY <1>4 DEF CleanupOldData
  <2> SUFFICES ASSUME NEW kind \in Kinds, NEW e \in cache[kind]
               PROVE  \/ \E r \in db'[kind] : SameSecond(r, e)
                      \/ e.time < cleanup.limit
    BY <2>1, <2>2 DEF AnsweredIsStored
  <2>3. CASE e.time < cleanup.limit
    BY <2>3
  <2>4. CASE ~(e.time < cleanup.limit)
    <3>1. PICK r \in db[kind] : SameSecond(r, e)
      BY <1>0, <2>4
    <3>2. cleanup.limit <= e.time
      BY <1>0, <2>4
    <3>3. r.second \in Nat /\ r.second = Second(e.time) /\ Second(cleanup.limit) \in Nat
      BY <1>0, <3>1, SecondBounds DEF SameSecond
    <3>4. r.second >= Second(cleanup.limit)
      BY <1>0, <3>2, <3>3, SecondMonotone
    <3>5. r \in db'[kind]
      BY <1>4, <3>4, CleanupRows
    <3> QED
      BY <3>1, <3>5
  <2> QED
    BY <2>3, <2>4
<1>5. ASSUME NEW k \in Kinds, CleanupCache(k)
      PROVE  AnsweredIsStored'
  <2>1. /\ UNCHANGED storageVars /\ NextCall("cache", k) /\ cleanup'.limit = cleanup.limit
        /\ cache' = [cache EXCEPT ![k] = {e \in @ : e.time >= cleanup.limit}]
    BY <1>0, <1>5, CallMade DEF CleanupCache
  <2> SUFFICES ASSUME NEW kind \in Kinds, NEW e \in cache'[kind]
               PROVE  \/ \E r \in db[kind] : SameSecond(r, e)
                      \/ e.time < cleanup.limit /\ CacheWaits(kind)'
    BY <2>1 DEF AnsweredIsStored, storageVars
  <2>2. CASE kind = k
    <3>1. e \in cache[k] /\ e.time >= cleanup.limit
      BY <1>0, <2>1, <2>2 DEF Caches
    <3> QED
      BY <1>0, <2>2, <3>1
  <2>3. CASE kind # k
    <3>1. e \in cache[kind]
      BY <1>0, <2>1, <2>3 DEF Caches
    <3>2. CacheWaits(kind) => CacheWaits(kind)'
      BY <1>0, <2>1, <2>3, OtherCachesWait
    <3> QED
      BY <1>0, <3>1, <3>2
  <2> QED
    BY <2>2, <2>3
<1>6. CASE Restart
  <2> SUFFICES ASSUME NEW k \in Kinds, NEW e \in cache'[k]
               PROVE  \E r \in db'[k] : SameSecond(r, e)
    BY DEF AnsweredIsStored
  <2>1. db' = durable /\ FilledFrom(cache'[k], k, durable[k])
    BY <1>6, RestartFills
  <2>2. PICK r \in durable[k] : e.id = r.id /\ e.time = TimeFromInt(r.second)
    BY <2>1 DEF FilledFrom
  <2>3. r.second \in Nat
    BY <2>2, RowSeconds DEF StoredRows
  <2> QED
    BY <2>1, <2>2, <2>3, SecondOfTime DEF SameSecond
<1> QED
  BY <1>1, <1>2, <1>3, <1>4, <1>5, <1>6, StepCases
------------------------------------------------------------------------------
(***************************************************************************)
(* What was acknowledged is stored, in the file and on the connection,     *)
(* until the clean-up reaches it.                                          *)
(***************************************************************************)
HasRow(d) == \E r \in LastingRows(kindOf[d]) : r.id = d /\ r.second = Second(newest[d])

AcknowledgedInv ==
  \A d \in Devices :
    newest[d] > 0 /\ TimeFromInt(Second(newest[d])) >= cleanup.limit => HasRow(d)

LEMMA InitAcknowledged ==
  ASSUME Init
  PROVE  AcknowledgedInv
BY DEF Init, AcknowledgedInv

LEMMA NextAcknowledged ==
  ASSUME TypeInv, OnTime, AcknowledgedInv, [Next]_measurementVars
  PROVE  AcknowledgedInv'
<1>0. /\ CleanupOK /\ cleanup.limit \in Nat /\ now \in Nat /\ Age \in Nat
      /\ cleanup.limit <= now - Age
      /\ \A d \in Devices : kindOf[d] \in Kinds /\ newest[d] \in Nat
                            /\ TimeFromInt(Second(newest[d])) \in Nat
  BY TimeOfSecond, MeasurementsAssumption DEF TypeInv, CleanupOK, Times, OnTime
<1>1. CASE Quiet
  BY <1>0, <1>1 DEF Quiet, AcknowledgedInv, HasRow, SameRows, NoLostRows
<1>2. ASSUME NEW w \in Workers, NEW c \in Connections, job[w] # Idle, Stores(w, c),
             UNCHANGED clockVars
      PROVE  AcknowledgedInv'
  <2>1. cleanup' = cleanup /\ kindOf' = kindOf
    BY <1>2 DEF clockVars
  <2>2. PICK d \in Devices : d = job[w].id
    BY <1>2, JobTypes
  <2>3. PICK k \in Kinds : k = kindOf[d]
    BY <1>0
  <2>4. k = KindOfJob(w)
    BY <2>2, <2>3 DEF KindOfJob
  <2>5. NoLostRows /\ (~c.tx => RowOfJob(w) \in LastingRows(k)')
    BY <1>2, <2>4, StoresAdds
  <2>6. \/ newest' = newest
        \/ /\ ~c.tx
           /\ newest' = [newest EXCEPT ![d] = IF job[w].time > @ THEN job[w].time ELSE @]
    BY <1>2, <2>2 DEF Stores
  <2> SUFFICES ASSUME NEW x \in Devices, newest'[x] > 0,
                      TimeFromInt(Second(newest'[x])) >= cleanup.limit
               PROVE  \E r \in LastingRows(kindOf[x])' : r.id = x /\ r.second = Second(newest'[x])
    BY <2>1 DEF AcknowledgedInv, HasRow
  <2>7. CASE newest'[x] = newest[x]
    <3>1. PICK r \in LastingRows(kindOf[x]) : r.id = x /\ r.second = Second(newest[x])
      BY <2>7 DEF AcknowledgedInv, HasRow
    <3>2. PICK kind \in Kinds : kind = kindOf[x]
      BY <1>0
    <3>3. r \in LastingRows(kind)'
      BY <2>5, <3>1, <3>2 DEF NoLostRows
    <3> QED
      BY <2>1, <2>7, <3>1, <3>2, <3>3
  <2>8. CASE newest'[x] # newest[x]
    <3>1. ~c.tx /\ x = d /\ newest'[x] = job[w].time
      BY <2>6, <2>8 DEF TypeInv
    <3>2. RowOfJob(w) \in LastingRows(k)' /\ kindOf' = kindOf
      BY <2>1, <2>5, <3>1
    <3>3. RowOfJob(w).id = x /\ RowOfJob(w).second = Second(newest'[x])
      BY <2>2, <3>1 DEF RowOfJob
    <3> QED
      BY <2>3, <3>1, <3>2, <3>3
  <2> QED
    BY <2>7, <2>8
<1>3. CASE StartCleanup
  <2>1. UNCHANGED <<storageVars, kindOf, newest>> /\ cleanup'.limit = now - Age
    BY <1>3 DEF StartCleanup
  <2> SUFFICES ASSUME NEW d \in Devices, newest[d] > 0,
                      TimeFromInt(Second(newest[d])) >= cleanup'.limit
               PROVE  HasRow(d)
    BY <2>1 DEF AcknowledgedInv, HasRow, LastingRows, storageVars
  <2>2. TimeFromInt(Second(newest[d])) >= cleanup.limit
    BY <1>0, <2>1
  <2> QED
    BY <2>2 DEF AcknowledgedInv
<1>4. ASSUME NEW k \in Kinds, CleanupOldData(k)
      PROVE  AcknowledgedInv'
  <2>1. cleanup'.limit = cleanup.limit /\ UNCHANGED <<kindOf, newest>>
    BY <1>0, <1>4, CallMade DEF CleanupOldData
  <2> SUFFICES ASSUME NEW d \in Devices, newest[d] > 0,
                      TimeFromInt(Second(newest[d])) >= cleanup.limit
               PROVE  \E r \in LastingRows(kindOf[d])' : r.id = d /\ r.second = Second(newest[d])
    BY <2>1 DEF AcknowledgedInv, HasRow
  <2>2. PICK r \in LastingRows(kindOf[d]) : r.id = d /\ r.second = Second(newest[d])
    BY DEF AcknowledgedInv, HasRow
  <2>3. r.second \in Nat /\ Second(cleanup.limit) \in Nat /\ Second(TimeFromInt(r.second)) = r.second
    BY <1>0, <2>2, SecondBounds, SecondOfTime
  <2>4. Second(cleanup.limit) <= r.second
    BY <1>0, <2>2, <2>3, SecondMonotone
  <2> QED
    BY <1>0, <1>4, <2>2, <2>3, <2>4, CleanupRows
<1>5. ASSUME NEW k \in Kinds, CleanupCache(k)
      PROVE  AcknowledgedInv'
  <2>1. UNCHANGED <<storageVars, kindOf, newest>> /\ cleanup'.limit = cleanup.limit
    BY <1>0, <1>5, CallMade DEF CleanupCache
  <2> QED
    BY <2>1 DEF AcknowledgedInv, HasRow, LastingRows, storageVars
<1>6. CASE Restart
  <2>1. NoLostRows /\ UNCHANGED <<kindOf, newest>> /\ cleanup'.limit = cleanup.limit
    BY <1>0, <1>6, RestartRows DEF Restart, CleanupOK
  <2> QED
    BY <1>0, <2>1 DEF AcknowledgedInv, HasRow, NoLostRows
<1> QED
  BY <1>1, <1>2, <1>3, <1>4, <1>5, <1>6, StepCases
------------------------------------------------------------------------------
(***************************************************************************)
(* The answer: every recent value once, newest first.                      *)
(***************************************************************************)
Newer(entries, e) == {x \in entries : x.time > e.time}

(* Each place of an answer has its value: the numbers of newer values of    *)
(* n different times are 0 .. n - 1, each of them once.                     *)
LEMMA NewestFirstSorts ==
  ASSUME NEW entries, IsFiniteSet(entries),
         \A e \in entries : e.time \in Nat,
         \A x, y \in entries : x.time = y.time => x = y
  PROVE  /\ Cardinality(entries) \in Nat
         /\ NewestFirst(entries) \in Seq(entries)
         /\ Len(NewestFirst(entries)) = Cardinality(entries)
         /\ \A i \in 1..Cardinality(entries) :
              Cardinality(Newer(entries, NewestFirst(entries)[i])) = i - 1
<1> DEFINE n == Cardinality(entries)
           rank == [e \in entries |-> Cardinality(Newer(entries, e))]
<1>1. n \in Nat
  BY FS_CardinalityType
<1>2. \A e \in entries : IsFiniteSet(Newer(entries, e)) /\ Newer(entries, e) # entries
                        /\ Newer(entries, e) \in SUBSET entries
  <2> SUFFICES ASSUME NEW e \in entries
               PROVE  IsFiniteSet(Newer(entries, e)) /\ Newer(entries, e) # entries
                      /\ Newer(entries, e) \in SUBSET entries
    OBVIOUS
  <2>1. Newer(entries, e) \in SUBSET entries /\ e \notin Newer(entries, e)
    BY DEF Newer
  <2> QED
    BY <2>1, FS_Subset
<1>3. \A e \in entries : rank[e] \in 0..(n - 1)
  <2> SUFFICES ASSUME NEW e \in entries
               PROVE  Cardinality(Newer(entries, e)) \in 0..(n - 1)
    OBVIOUS
  <2>1. Cardinality(Newer(entries, e)) \in Nat
    BY <1>2, FS_CardinalityType
  <2>2. Cardinality(Newer(entries, e)) <= n /\ Cardinality(Newer(entries, e)) # n
    BY <1>2, FS_Subset
  <2> QED
    BY <1>1, <2>1, <2>2
<1>4. ASSUME NEW x \in entries, NEW y \in entries, rank[x] = rank[y]
      PROVE  x = y
  <2>1. ASSUME NEW a \in entries, NEW b \in entries, a.time > b.time
        PROVE  Cardinality(Newer(entries, a)) # Cardinality(Newer(entries, b))
    <3>1. Newer(entries, a) \in SUBSET Newer(entries, b)
      BY <2>1 DEF Newer
    <3>2. a \in Newer(entries, b) /\ a \notin Newer(entries, a)
      BY <2>1 DEF Newer
    <3> QED
      BY <1>2, <3>1, <3>2, FS_Subset
  <2>2. Cardinality(Newer(entries, x)) = Cardinality(Newer(entries, y))
    BY <1>4
  <2>3. ~(x.time > y.time) /\ ~(y.time > x.time)
    BY <2>1, <2>2
  <2> QED
    BY <2>3
<1>5. rank \in Injection(entries, 0..(n - 1))
  BY <1>3, <1>4 DEF Injection, IsInjective
<1>6. IsFiniteSet(0..(n - 1)) /\ Cardinality(0..(n - 1)) = n
  BY <1>1, FS_Interval
<1>7. rank \in Surjection(entries, 0..(n - 1))
  BY <1>5, <1>6, FS_Injection
<1> DEFINE Place(i) == CHOOSE e \in entries : Cardinality(Newer(entries, e)) = i - 1
<1>8. ASSUME NEW i \in 1..n
      PROVE  Place(i) \in entries /\ Cardinality(Newer(entries, Place(i))) = i - 1
  <2>1. i - 1 \in 0..(n - 1)
    BY <1>1
  <2>2. \E e \in entries : Cardinality(Newer(entries, e)) = i - 1
    BY <1>7, <2>1 DEF Surjection
  <2> QED
    BY <2>2
<1>9. NewestFirst(entries) = [i \in 1..n |-> Place(i)]
  BY DEF NewestFirst, Newer
<1> HIDE DEF Place
<1>10. /\ NewestFirst(entries) \in Seq(entries) /\ Len(NewestFirst(entries)) = n
       /\ \A i \in 1..n : NewestFirst(entries)[i] = Place(i)
  BY <1>1, <1>8, <1>9
<1> QED
  BY <1>1, <1>8, <1>10

Mine(kind, id) == {e \in cache[kind] : e.id = id}

LEMMA MineIsFinite ==
  ASSUME TypeInv, OwnKind, NEW k \in Kinds, NEW id
  PROVE  /\ IsFiniteSet(Mine(k, id))
         /\ \A e \in Mine(k, id) : e.time \in Times
         /\ \A x, y \in Mine(k, id) : x.time = y.time => x = y
<1> DEFINE time == [e \in Mine(k, id) |-> e.time]
<1>1. \A e \in Mine(k, id) : e.time \in Times
  BY DEF TypeInv, Caches, Entries, Mine
<1>2. \A x, y \in Mine(k, id) : x.time = y.time => x = y
  BY DEF OwnKind, OneEach, Mine
<1>3. time \in Injection(Mine(k, id), Times)
  BY <1>1, <1>2 DEF Injection, IsInjective
<1>4. IsFiniteSet(Times)
  BY FS_Interval, MeasurementsAssumption DEF Times
<1> QED
  BY <1>1, <1>2, <1>3, <1>4, FS_Injection

(* One controller's answer: a sequence of the device's entries, newest      *)
(* first, that starts with the newest there is and is empty when there is  *)
(* none.                                                                   *)
LEMMA GetIsSorted ==
  ASSUME TypeInv, OwnKind, NEW k \in Kinds, NEW id, NEW seconds \in Nat
  PROVE  LET answer == Get(k, id, seconds)
         IN  /\ answer \in Seq(Mine(k, id))
             /\ Mine(k, id) = {} => answer = <<>>
             /\ Mine(k, id) # {} => /\ answer # <<>>
                                   /\ \A e \in Mine(k, id) : answer[1].time >= e.time
             /\ \A i, j \in DOMAIN answer : i < j => answer[i].time > answer[j].time
<1> DEFINE answer == Get(k, id, seconds)
           mine == Mine(k, id)
           recent == {e \in mine : seconds # 0 /\ e.time > now - seconds * TPS}
<1>1. answer = IF mine = {} THEN <<>>
               ELSE IF recent # {} THEN NewestFirst(recent)
               ELSE <<CHOOSE e \in mine : \A x \in mine : x.time <= e.time>>
  BY DEF Get, Mine
<1>2. /\ IsFiniteSet(mine) /\ \A e \in mine : e.time \in Nat
      /\ \A x, y \in mine : x.time = y.time => x = y
      /\ now \in Nat /\ TPS \in Nat /\ seconds * TPS \in Nat
  BY MineIsFinite, MeasurementsAssumption DEF Times, TypeInv
<1> HIDE DEF mine, answer
<1>3. CASE mine = {}
  BY <1>1, <1>3 DEF mine, answer
<1>4. CASE recent # {}
  <2>1. recent \in SUBSET mine /\ IsFiniteSet(recent) /\ mine # {}
    BY <1>2, <1>4, FS_Subset
  <2> DEFINE n == Cardinality(recent)
  <2> HIDE DEF recent
  <2>2. /\ n \in Nat /\ answer \in Seq(recent) /\ Len(answer) = n
        /\ \A i \in 1..n : Cardinality(Newer(recent, answer[i])) = i - 1
    BY <1>1, <1>2, <1>4, <2>1, NewestFirstSorts
  <2>3. n # 0
    BY <1>4, <2>1, FS_EmptySet
  <2>4. \A i \in 1..n : answer[i] \in recent /\ answer[i].time \in Nat
    BY <1>2, <2>1, <2>2
  <2>5. ASSUME NEW i \in 1..n, NEW j \in 1..n, i < j
        PROVE  answer[i].time > answer[j].time
    <3>1. SUFFICES ASSUME answer[i].time <= answer[j].time PROVE FALSE
      BY <2>4
    <3>2. Newer(recent, answer[j]) \in SUBSET Newer(recent, answer[i])
      BY <1>2, <2>1, <2>4, <3>1 DEF Newer
    <3>3. IsFiniteSet(Newer(recent, answer[i]))
      BY <2>1, FS_Subset DEF Newer
    <3>4. Cardinality(Newer(recent, answer[j])) <= Cardinality(Newer(recent, answer[i]))
      BY <3>2, <3>3, FS_Subset
    <3> QED
      BY <2>2, <2>5, <3>4
  <2>6. ASSUME NEW e \in mine
        PROVE  answer[1].time >= e.time
    <3>1. 1 \in 1..n
      BY <2>2, <2>3
    <3>2. CASE e \in recent
      <4>1. Newer(recent, answer[1]) = {}
        <5>1. IsFiniteSet(Newer(recent, answer[1])) /\ Cardinality(Newer(recent, answer[1])) = 0
          BY <2>1, <2>2, <3>1, FS_Subset DEF Newer
        <5> QED
          BY <5>1, FS_EmptySet
      <4> QED
        BY <1>2, <2>4, <3>1, <3>2, <4>1 DEF Newer
    <3>3. CASE e \notin recent
      <4>1. answer[1] \in recent /\ answer[1].time \in Nat
        BY <2>4, <3>1
      <4>2. seconds # 0 /\ answer[1].time > now - seconds * TPS
        BY <4>1 DEF recent
      <4>3. ~(e.time > now - seconds * TPS)
        BY <3>3, <4>2 DEF recent
      <4> QED
        BY <1>2, <4>1, <4>2, <4>3
    <3> QED
      BY <3>2, <3>3
  <2>7. answer \in Seq(mine) /\ answer # <<>> /\ DOMAIN answer = 1..n
    BY <2>1, <2>2, <2>3
  <2> QED
    BY <2>1, <2>5, <2>6, <2>7 DEF mine, answer
<1>5. CASE mine # {} /\ recent = {}
  <2> DEFINE latest == CHOOSE e \in mine : \A x \in mine : x.time <= e.time
  <2>1. answer = <<latest>>
    BY <1>1, <1>5
  <2>2. \E e \in mine : \A x \in mine : x.time <= e.time
    <3>1. mine \in SUBSET mine /\ IsFiniteSet(mine)
      BY <1>2
    <3> DEFINE n == Cardinality(mine)
               first == NewestFirst(mine)[1]
    <3>2. n \in Nat /\ n # 0
      BY <1>2, <1>5, FS_EmptySet, FS_CardinalityType
    <3>3. first \in mine /\ Cardinality(Newer(mine, first)) = 0
      BY <1>2, <3>2, NewestFirstSorts
    <3>4. Newer(mine, first) = {}
      <4>1. IsFiniteSet(Newer(mine, first))
        BY <1>2, FS_Subset DEF Newer
      <4> QED
        BY <3>3, <4>1, FS_EmptySet
    <3>5. \A x \in mine : x.time <= first.time
      BY <1>2, <3>3, <3>4 DEF Newer
    <3> QED
      BY <3>3, <3>5
  <2>3. latest \in mine /\ \A x \in mine : x.time <= latest.time
    BY <2>2
  <2> HIDE DEF latest
  <2>4. answer \in Seq(mine) /\ answer # <<>> /\ answer[1] = latest /\ DOMAIN answer = {1}
    BY <2>1, <2>3
  <2>5. \A e \in mine : answer[1].time >= e.time
    BY <1>2, <2>3, <2>4
  <2> QED
    BY <1>5, <2>4, <2>5 DEF mine, answer
<1> QED
  BY <1>3, <1>4, <1>5

(* A device's answer is that of its own kind: the others have nothing.      *)
LEMMA DeviceInfoIsOwn ==
  ASSUME TypeInv, OwnKind, NEW d \in Devices, NEW seconds \in Nat
  PROVE  DeviceInfo(d, seconds) = Get(kindOf[d], d, seconds)
<1> DEFINE S == Mine(kindOf[d], d)
           answer(k) == Get(k, d, seconds)
<1>1. kindOf[d] \in Kinds
  BY DEF TypeInv
<1>2. answer(kindOf[d]) \in Seq(S)
  BY <1>1, GetIsSorted
<1>3. \A k \in Kinds \ {kindOf[d]} : answer(k) = <<>>
  <2> SUFFICES ASSUME NEW k \in Kinds, k # kindOf[d]
               PROVE  answer(k) = <<>>
    OBVIOUS
  <2>1. Mine(k, d) = {}
    BY DEF Mine, OwnKind
  <2> QED
    BY <2>1, GetIsSorted
<1>4. DeviceInfo(d, seconds) = answer("Thermometers") \o answer("Relays")
                                \o answer("MotionRelays") \o answer("UniversalDevices")
  BY DEF DeviceInfo, ThermometersGet, RelaysGet, MotionRelaysGet, UniversalDevicesGet
<1> HIDE DEF S, answer
<1>5. <<>> \in Seq(S) /\ <<>> \o <<>> = <<>>
  OBVIOUS
<1>6. answer(kindOf[d]) \o <<>> = answer(kindOf[d]) /\ <<>> \o answer(kindOf[d]) = answer(kindOf[d])
  BY <1>2, ConcatEmptySeq
<1>7. CASE kindOf[d] = "Thermometers"
  <2>1. answer("Relays") = <<>> /\ answer("MotionRelays") = <<>> /\ answer("UniversalDevices") = <<>>
    BY <1>3, <1>7 DEF Kinds
  <2> QED
    BY <1>4, <1>6, <1>7, <2>1 DEF answer
<1>8. CASE kindOf[d] = "Relays"
  <2>1. answer("Thermometers") = <<>> /\ answer("MotionRelays") = <<>> /\ answer("UniversalDevices") = <<>>
    BY <1>3, <1>8 DEF Kinds
  <2> QED
    BY <1>4, <1>6, <1>8, <2>1 DEF answer
<1>9. CASE kindOf[d] = "MotionRelays"
  <2>1. answer("Thermometers") = <<>> /\ answer("Relays") = <<>> /\ answer("UniversalDevices") = <<>>
    BY <1>3, <1>9 DEF Kinds
  <2> QED
    BY <1>4, <1>5, <1>6, <1>9, <2>1 DEF answer
<1>10. CASE kindOf[d] = "UniversalDevices"
  <2>1. answer("Thermometers") = <<>> /\ answer("Relays") = <<>> /\ answer("MotionRelays") = <<>>
    BY <1>3, <1>10 DEF Kinds
  <2> QED
    BY <1>4, <1>5, <1>6, <1>10, <2>1 DEF answer
<1> QED
  BY <1>1, <1>7, <1>8, <1>9, <1>10 DEF Kinds

(* What is acknowledged and stored and not older than the clean-up is       *)
(* answered by an entry of its second or a newer one.                      *)
LEMMA StoredGivesAnswer ==
  ASSUME TypeInv, OwnKind, StoredInv, AcknowledgedInv
  PROVE  AcknowledgedIsAnswered
<1> SUFFICES ASSUME NEW d \in Devices, NEW seconds \in {0, 1}
             PROVE  LET answer == DeviceInfo(d, seconds)
                    IN  /\ newest[d] > 0 /\ TimeFromInt(Second(newest[d])) >= cleanup.limit
                             => answer # <<>> /\ Second(answer[1].time) >= Second(newest[d])
                        /\ \A i, j \in DOMAIN answer : i < j => answer[i].time > answer[j].time
  BY DEF AcknowledgedIsAnswered
<1> DEFINE answer == DeviceInfo(d, seconds)
<1>1. PICK k \in Kinds : k = kindOf[d]
  BY DEF TypeInv
<1>2. answer = Get(k, d, seconds) /\ seconds \in Nat
  BY <1>1, DeviceInfoIsOwn
<1> HIDE DEF answer
<1>3. /\ answer \in Seq(Mine(k, d))
      /\ Mine(k, d) # {} => /\ answer # <<>>
                            /\ \A e \in Mine(k, d) : answer[1].time >= e.time
      /\ \A i, j \in DOMAIN answer : i < j => answer[i].time > answer[j].time
  BY <1>2, GetIsSorted
<1>4. ASSUME newest[d] > 0, TimeFromInt(Second(newest[d])) >= cleanup.limit
      PROVE  answer # <<>> /\ Second(answer[1].time) >= Second(newest[d])
  <2>1. PICK r \in LastingRows(k) : r.id = d /\ r.second = Second(newest[d])
    BY <1>1, <1>4 DEF AcknowledgedInv, HasRow
  <2>2. PICK e \in cache[k] : SameSecond(r, e)
    BY <1>4, <2>1 DEF StoredInv, HasEntry, StoredRows, LastingRows
  <2>3. e \in Mine(k, d) /\ Second(e.time) = Second(newest[d])
    BY <2>1, <2>2 DEF Mine, SameSecond
  <2>4. answer # <<>> /\ answer[1] \in Mine(k, d) /\ answer[1].time >= e.time
    BY <1>3, <2>3
  <2>5. e.time \in Nat /\ answer[1].time \in Nat
    BY <2>3, <2>4, MineIsFinite DEF Times
  <2>6. Second(e.time) <= Second(answer[1].time)
    BY <2>4, <2>5, SecondMonotone
  <2> QED
    BY <2>3, <2>4, <2>5, <2>6, SecondBounds
<1> QED
  BY <1>3, <1>4 DEF answer
------------------------------------------------------------------------------
(***************************************************************************)
(* Type correctness, whatever fails.                                       *)
(***************************************************************************)
LEMMA TypeIsInvariant == Spec => []TypeInv
<1>1. Init => TypeInv
  BY InitType
<1>2. TypeInv /\ [Next]_measurementVars => TypeInv'
  BY NextType
<1> QED
  BY <1>1, <1>2, PTL DEF Spec

THEOREM TypeCorrect == Spec => []MeasurementsTypeOK
<1>1. TypeInv => MeasurementsTypeOK
  BY MeasurementsAssumption
     DEF TypeInv, StorageTypeOK, Tables, Caches, JobsOK, CleanupOK, Times, MeasurementsTypeOK
<1> QED
  BY <1>1, TypeIsInvariant, PTL

LEMMA OnTimeIsInvariant == Spec => []OnTime
<1>1. Init => OnTime
  BY InitOnTime
<1>2. TypeInv /\ OnTime /\ [Next]_measurementVars => OnTime'
  BY NextOnTime
<1> QED
  BY <1>1, <1>2, TypeIsInvariant, PTL DEF Spec

(***************************************************************************)
(* What a clean-up deleted for good never comes back, whatever statement   *)
(* fails and wherever the process stops: the rows of a late message are    *)
(* younger than the limit, a restart fills the caches from rows that are,  *)
(* and an interrupted clean-up left its own cache to be cleaned.           *)
(***************************************************************************)
THEOREM CleanedNeverReturns == Spec => []CleanedStaysGone
<1>1. Init => GoneInv
  BY InitGone
<1>2. TypeInv /\ OnTime /\ GoneInv /\ [Next]_measurementVars => GoneInv'
  BY NextGone
<1>3. GoneInv => CleanedStaysGone
  BY DEF GoneInv, CleanedStaysGone, StoredRows
<1> QED
  BY <1>1, <1>2, <1>3, TypeIsInvariant, OnTimeIsInvariant, PTL DEF Spec

(***************************************************************************)
(* Whatever SELECTs and writes fail, the server answers with nothing that  *)
(* its tables do not have, as long as no failing statement ends a          *)
(* transaction: then rows vanish of which the cache has the values.        *)
(***************************************************************************)
THEOREM AnswersAreStored == TransactionsLast => (Spec => []AnsweredIsStored)
<1> SUFFICES ASSUME TransactionsLast
             PROVE  Spec => []AnsweredIsStored
  OBVIOUS
<1>1. Init => AnsweredIsStored
  BY InitAnswered
<1>2. TypeInv /\ OnTime /\ AnsweredIsStored /\ [Next]_measurementVars => AnsweredIsStored'
  BY NextAnswered
<1> QED
  BY <1>1, <1>2, TypeIsInvariant, OnTimeIsInvariant, PTL DEF Spec

LEMMA StoredIsInvariant == FillsSucceed => (Spec => []StoredInv)
<1> SUFFICES ASSUME FillsSucceed
             PROVE  Spec => []StoredInv
  OBVIOUS
<1>1. Init => StoredInv
  BY InitStored
<1>2. TypeInv /\ OnTime /\ StoredInv /\ [Next]_measurementVars => StoredInv'
  BY NextStored
<1> QED
  BY <1>1, <1>2, TypeIsInvariant, OnTimeIsInvariant, PTL DEF Spec

(***************************************************************************)
(* Every stored value the clean-up has not reached is answered, though     *)
(* writes fail, transactions are lost with their connection and the        *)
(* process stops anywhere, as long as the SELECTs of a start succeed.      *)
(***************************************************************************)
THEOREM StoredIsFound == FillsSucceed => (Spec => []StoredIsAnswered)
<1> SUFFICES ASSUME FillsSucceed
             PROVE  Spec => []StoredIsAnswered
  OBVIOUS
<1>1. StoredInv => StoredIsAnswered
  BY DEF StoredInv, StoredIsAnswered, StoredRows, HasEntry
<1> QED
  BY <1>1, StoredIsInvariant, PTL

(***************************************************************************)
(* A device whose report was acknowledged is answered with it or a newer   *)
(* one until the clean-up reaches it, and every answer is ordered, newest  *)
(* first: under the same conditions.                                       *)
(***************************************************************************)
THEOREM AcknowledgedIsFound == FillsSucceed => (Spec => []AcknowledgedIsAnswered)
<1> SUFFICES ASSUME FillsSucceed
             PROVE  Spec => []AcknowledgedIsAnswered
  OBVIOUS
<1>1. Init => OwnKind /\ AcknowledgedInv
  BY InitOwnKind, InitAcknowledged
<1>2. TypeInv /\ OnTime /\ OwnKind /\ AcknowledgedInv /\ [Next]_measurementVars
        => OwnKind' /\ AcknowledgedInv'
  BY NextOwnKind, NextAcknowledged
<1>3. TypeInv /\ OwnKind /\ StoredInv /\ AcknowledgedInv => AcknowledgedIsAnswered
  BY StoredGivesAnswer
<1> QED
  BY <1>1, <1>2, <1>3, TypeIsInvariant, OnTimeIsInvariant, StoredIsInvariant, PTL DEF Spec
==============================================================================
