----------------------- MODULE DevicesControllerProofs -----------------------
(***************************************************************************)
(* Proofs about the registry of devices, for any number of threads,        *)
(* devices, names and contents.                                            *)
(***************************************************************************)
EXTENDS DevicesController, StorageProofs, FiniteSetTheorems

Tables == [devices : DeviceTable, attached : Attached]

(* The variables of the controllers, and the mutex that Remove keeps.       *)
CacheTypeOK ==
  /\ devicesCache \in DeviceTable
  /\ phantoms \in Nat
  /\ misread \subseteq Devices
  /\ fillFailed \in BOOLEAN

ControllersTypeOK ==
  /\ CacheTypeOK
  /\ attachedCache \in Attached
  /\ excused \in [Devices -> BOOLEAN]

TasksTypeOK ==
  /\ devicesMutex \in Threads \cup {NoThread}
  /\ task \in [Threads -> Tasks]
  /\ \A t \in Threads : (\E d \in Devices : Removing(t, d)) <=> devicesMutex = t

RegistryInv == StorageTypeOK(Tables) /\ ControllersTypeOK /\ TasksTypeOK

LEMMA RegistryTypeOKSplit == RegistryTypeOK <=> RegistryInv
BY DEF RegistryTypeOK, RegistryInv, ControllersTypeOK, CacheTypeOK, TasksTypeOK, StorageTypeOK,
   Tables

(* TimeToInt and TimeFromInt: a full second is read back as itself.         *)
LEMMA SecondType ==
  ASSUME NEW tick \in Nat
  PROVE  Second(tick) \in Nat
BY RegistryAssumption DEF Second

LEMMA SecondOfTime ==
  ASSUME NEW second \in Nat
  PROVE  TimeFromInt(second) \in Nat /\ Second(TimeFromInt(second)) = second
<1>1. TimeFromInt(second) \in Nat /\ TimeFromInt(second) = second * TPS
  BY RegistryAssumption DEF TimeFromInt
<1>2. Second(second * TPS) = second
  <2> DEFINE q == (second * TPS) \div TPS
  <2>1. q \in Nat /\ q * TPS <= second * TPS /\ second * TPS < q * TPS + TPS
    BY <1>1, RegistryAssumption
  <2>2. ~(q >= second + 1) /\ ~(second >= q + 1)
    BY <2>1, RegistryAssumption
  <2> QED
    BY <2>1, <2>2 DEF Second
<1> QED
  BY <1>1, <1>2

LEMMA AbsentIsNoDevice == Absent \notin Device
BY RegistryAssumption DEF Device

(* A device's row or an attached content that is written fits the tables.   *)
LEMMA WithDeviceType ==
  ASSUME StorageTypeOK(Tables), NEW c \in Connections, NEW d \in Devices,
         NEW row \in Device \cup {Absent}
  PROVE  WithDevice(c, d, row) \in Tables
<1>1. c.rows \in Tables
  BY ConnectionType
<1> QED
  BY <1>1 DEF WithDevice, Tables, DeviceTable

LEMMA WithAttachedType ==
  ASSUME StorageTypeOK(Tables), NEW c \in Connections, NEW k \in Kinds, NEW d \in Devices,
         NEW content \in Contents \cup {Absent}
  PROVE  WithAttached(c, k, d, content) \in Tables
<1>1. c.rows \in Tables
  BY ConnectionType
<1> QED
  BY <1>1 DEF WithAttached, Tables, Attached

LEMMA FilledWithType ==
  ASSUME NEW rows \in DeviceTable, FilledWith(rows)
  PROVE  CacheTypeOK'
<1>1. \A row \in Device : ReadBack(row) \in Device
  BY SecondOfTime DEF Device, ReadBack
<1>2. devicesCache' \in DeviceTable
  BY <1>1 DEF FilledWith, DeviceTable
<1>3. \A S \in SUBSET Devices : Cardinality(S) \in Nat
  BY RegistryAssumption, FS_Subset, FS_CardinalityType
<1>4. phantoms' \in Nat
  BY <1>3 DEF FilledWith
<1> QED
  BY <1>2, <1>4 DEF FilledWith, CacheTypeOK

LEMMA RefillType ==
  ASSUME StorageTypeOK(Tables), CacheTypeOK, RefillIfEmpty
  PROVE  StorageTypeOK(Tables)' /\ CacheTypeOK'
<1>1. CASE UNCHANGED <<cacheVars, storageVars>>
  BY <1>1 DEF StorageTypeOK, storageVars, cacheVars, CacheTypeOK
<1>2. CASE Fails("select") /\ fillFailed' = TRUE /\ UNCHANGED <<devicesCache, phantoms, misread>>
  BY <1>2, FailsType DEF CacheTypeOK
<1>3. ASSUME NEW c \in Connections, Leaves(c, c.rows), FilledWith(c.rows.devices)
      PROVE  StorageTypeOK(Tables)' /\ CacheTypeOK'
  <2>1. c.rows \in Tables
    BY ConnectionType
  <2>2. c.rows.devices \in DeviceTable
    BY <2>1 DEF Tables
  <2> QED
    BY <1>3, <2>1, <2>2, LeavesType, FilledWithType
<1> QED
  BY <1>1, <1>2, <1>3 DEF RefillIfEmpty, FillCache

(* What an UPDATE may set, ...                                              *)
Settable(field, value) ==
  \/ field = "name" /\ value \in Names
  \/ field = "group" /\ value \in Names \cup {NoName}
  \/ field = "stamp" /\ value \in Stamps

(* ... which keeps a device a device, and its row a row.                    *)
LEMMA WithFieldType ==
  ASSUME NEW device \in Device, NEW field, NEW value, Settable(field, value)
  PROVE  /\ [device EXCEPT ![field] = value] \in Device
         /\ [device EXCEPT ![field] = ColumnValue(field, value)] \in Device
<1>1. CASE field = "stamp"
  <2>1. value \in Nat /\ ColumnValue(field, value) \in Nat
    BY <1>1, SecondType, RegistryAssumption DEF Settable, ColumnValue
  <2> QED
    BY <1>1, <2>1 DEF Device
<1>2. CASE field # "stamp"
  BY <1>2 DEF Settable, ColumnValue, Device
<1> QED
  BY <1>1, <1>2

LEMMA WithColumnType ==
  ASSUME StorageTypeOK(Tables), NEW c \in Connections, NEW d \in Devices,
         NEW field, NEW value, Settable(field, value)
  PROVE  WithColumn(c, d, field, value) \in Tables
<1> DEFINE row == c.rows.devices[d]
<1>1. c.rows \in Tables
  BY ConnectionType
<1>2. row \in Device \cup {Absent}
  BY <1>1 DEF Tables, DeviceTable
<1> QED
  BY <1>2, WithFieldType, WithDeviceType DEF WithColumn

LEMMA UpdateDeviceType ==
  ASSUME StorageTypeOK(Tables), CacheTypeOK, NEW d \in Devices,
         NEW field, NEW value, Settable(field, value), UpdateDevice(d, field, value)
  PROVE  StorageTypeOK(Tables)' /\ CacheTypeOK'
<1>1. CASE UNCHANGED <<storageVars, cacheVars>>
  BY <1>1 DEF StorageTypeOK, storageVars, cacheVars, CacheTypeOK
<1>2. CASE Fails("write") /\ UNCHANGED cacheVars
  BY <1>2, FailsType DEF cacheVars, CacheTypeOK
<1>3. ASSUME devicesCache[d] # Absent, NEW c \in Connections,
             Leaves(c, WithColumn(c, d, field, value)),
             devicesCache' = [devicesCache EXCEPT ![d] = [@ EXCEPT ![field] = value]],
             misread' = IF field = "group" THEN misread \ {d} ELSE misread,
             UNCHANGED <<phantoms, fillFailed>>
      PROVE  StorageTypeOK(Tables)' /\ CacheTypeOK'
  <2>1. devicesCache[d] \in Device
    BY <1>3 DEF CacheTypeOK, DeviceTable
  <2>2. devicesCache' \in DeviceTable
    BY <1>3, <2>1, WithFieldType DEF CacheTypeOK, DeviceTable
  <2> QED
    BY <1>3, <2>2, WithColumnType, LeavesType DEF CacheTypeOK
<1> QED
  BY <1>1, <1>2, <1>3 DEF UpdateDevice
------------------------------------------------------------------------------
(* The steps of one thread and of the clients, on the storage and the       *)
(* caches.                                                                 *)
LEMMA AddedType ==
  ASSUME NEW t \in Threads, task[t] \in Tasks, Add(t)
  PROVE  /\ task[t].device \in Devices /\ task[t].stamp \in Stamps
         /\ [name |-> NoName, group |-> NoName, stamp |-> task[t].stamp] \in Device
         /\ [[name |-> NoName, group |-> NoName, stamp |-> task[t].stamp]
               EXCEPT !.stamp = Second(@)] \in Device
<1>1. task[t].device \in Devices /\ task[t].stamp \in Stamps
  BY DEF Add, Tasks, Idle
<1>2. task[t].stamp \in Nat /\ Second(task[t].stamp) \in Nat
  BY <1>1, SecondType, RegistryAssumption
<1> QED
  BY <1>1, <1>2 DEF Device

LEMMA ThreadStepType ==
  ASSUME RegistryInv, NEW t \in Threads, ThreadStep(t)
  PROVE  StorageTypeOK(Tables)' /\ ControllersTypeOK'
<1> USE DEF RegistryInv, ControllersTypeOK
<1>0. task[t] \in Tasks
  BY DEF TasksTypeOK
<1>1. CASE LookUp(t)
  BY <1>1, RefillType DEF LookUp
<1>2. CASE Add(t)
  <2> DEFINE d == task[t].device
             device == [name |-> NoName, group |-> NoName, stamp |-> task[t].stamp]
             row == [device EXCEPT !.stamp = Second(@)]
  <2>1. d \in Devices /\ device \in Device /\ row \in Device
    BY <1>0, <1>2, AddedType
  <2>2. UNCHANGED <<phantoms, misread, fillFailed, attachedCache, excused>>
    BY <1>2 DEF Add
  <2>3. CASE UNCHANGED <<storageVars, devicesCache>>
    BY <2>2, <2>3 DEF CacheTypeOK, StorageTypeOK, storageVars
  <2>4. CASE Fails("write") /\ UNCHANGED devicesCache
    BY <2>2, <2>4, FailsType DEF CacheTypeOK
  <2>5. ASSUME NEW c \in Connections, Leaves(c, WithDevice(c, d, row)),
               devicesCache' = [devicesCache EXCEPT ![d] = device]
        PROVE  StorageTypeOK(Tables)' /\ ControllersTypeOK'
    <3>1. WithDevice(c, d, row) \in Tables
      BY <2>1, WithDeviceType
    <3>2. devicesCache' \in DeviceTable
      BY <2>1, <2>5 DEF CacheTypeOK, DeviceTable
    <3> QED
      BY <2>2, <2>5, <3>1, <3>2, LeavesType DEF CacheTypeOK
  <2>6. ASSUME NEW c \in Connections, Leaves(c, c.rows), UNCHANGED devicesCache
        PROVE  StorageTypeOK(Tables)' /\ ControllersTypeOK'
    BY <2>2, <2>6, ConnectionType, LeavesType DEF CacheTypeOK
  <2> QED
    BY <1>2, <2>3, <2>4, <2>5, <2>6 DEF Add
<1>3. CASE LogRefusal(t)
  BY <1>3 DEF LogRefusal, StorageTypeOK, storageVars, cacheVars, CacheTypeOK
<1>4. CASE UpdateDeviceTimestamp(t)
  <2>1. task[t].device \in Devices /\ Settable("stamp", task[t].stamp)
    BY <1>0, <1>4 DEF UpdateDeviceTimestamp, Tasks, Idle, Settable
  <2> QED
    BY <1>4, <2>1, UpdateDeviceType DEF UpdateDeviceTimestamp
<1>5. ASSUME NEW k \in Kinds, RemoveAttached(k, task[t].device), task[t].device \in Devices,
             UNCHANGED cacheVars
      PROVE  StorageTypeOK(Tables)' /\ ControllersTypeOK'
  <2> USE DEF cacheVars, CacheTypeOK
  <2> DEFINE d == task[t].device
  <2>1. CASE UNCHANGED <<storageVars, attachedCache, excused>>
    BY <1>5, <2>1 DEF StorageTypeOK, storageVars
  <2>2. CASE Fails("write") /\ excused' = [excused EXCEPT ![d] = TRUE] /\ UNCHANGED attachedCache
    BY <1>5, <2>2, FailsType
  <2>3. ASSUME NEW c \in Connections, Leaves(c, WithAttached(c, k, d, Absent)),
               attachedCache' = [attachedCache EXCEPT ![k][d] = Absent], UNCHANGED excused
        PROVE  StorageTypeOK(Tables)' /\ ControllersTypeOK'
    <3>1. WithAttached(c, k, d, Absent) \in Tables
      BY <1>5, WithAttachedType
    <3>2. attachedCache' \in Attached
      BY <1>5, <2>3 DEF Attached
    <3> QED
      BY <1>5, <2>3, <3>1, <3>2, LeavesType
  <2> QED
    BY <1>5, <2>1, <2>2, <2>3 DEF RemoveAttached
<1>6. CASE RemoveSettings(t) \/ RemoveCommands(t)
  <2>1. task[t].device \in Devices
    BY <1>0, <1>6 DEF RemoveSettings, RemoveCommands, Tasks, Idle
  <2> QED
    BY <1>5, <1>6, <2>1 DEF RemoveSettings, RemoveCommands, Kinds
<1> QED
  BY <1>1, <1>2, <1>3, <1>4, <1>6 DEF ThreadStep

(* A task that moves to a step outside Remove, by a thread outside Remove.  *)
LEMMA TaskOutsideRemove ==
  ASSUME TasksTypeOK, NEW t \in Threads, NEW x \in Tasks,
         task[t].step \notin {"removeSettings", "removeCommands"},
         x.step \notin {"removeSettings", "removeCommands"},
         task' = [task EXCEPT ![t] = x], UNCHANGED devicesMutex
  PROVE  TasksTypeOK'
BY DEF TasksTypeOK, Removing

LEMMA ThreadStepTasks ==
  ASSUME TasksTypeOK, NEW t \in Threads, ThreadStep(t)
  PROVE  TasksTypeOK'
<1>0. task[t] \in Tasks
  BY DEF TasksTypeOK
<1>1. CASE LookUp(t)
  <2>1. \A s \in {"touch", "add"} :
          [task[t] EXCEPT !.step = s] \in Tasks /\ [task[t] EXCEPT !.step = s].step = s
    BY <1>0, <1>1 DEF LookUp, Tasks, Idle
  <2>2. PICK s \in {"touch", "add"} : task' = [task EXCEPT ![t] = [task[t] EXCEPT !.step = s]]
    BY <1>1 DEF LookUp
  <2> QED
    BY <1>1, <2>1, <2>2, TaskOutsideRemove DEF LookUp
<1>2. CASE Add(t) \/ LogRefusal(t) \/ UpdateDeviceTimestamp(t)
  <2>1. task[t].step \notin {"removeSettings", "removeCommands"}
    BY <1>2 DEF Add, LogRefusal, UpdateDeviceTimestamp
  <2>2. \E x \in {Idle, [step |-> "refused", device |-> task[t].device]} :
          task' = [task EXCEPT ![t] = x]
    BY <1>2 DEF Add, LogRefusal, UpdateDeviceTimestamp, Finish
  <2>3. UNCHANGED devicesMutex
    BY <1>2 DEF Add, LogRefusal, UpdateDeviceTimestamp
  <2>4. \A x \in {Idle, [step |-> "refused", device |-> task[t].device]} :
          x \in Tasks /\ x.step \notin {"removeSettings", "removeCommands"}
    BY <1>0, <1>2 DEF Add, LogRefusal, UpdateDeviceTimestamp, Tasks, Idle
  <2> QED
    BY <2>1, <2>2, <2>3, <2>4, TaskOutsideRemove
<1>3. CASE RemoveSettings(t)
  <2> DEFINE x == [task[t] EXCEPT !.step = "removeCommands"]
  <2>1. x \in Tasks /\ x.step = "removeCommands" /\ x.device = task[t].device
    BY <1>0, <1>3 DEF RemoveSettings, Tasks, Idle
  <2> QED
    BY <1>3, <2>1 DEF RemoveSettings, TasksTypeOK, Removing
<1>4. CASE RemoveCommands(t)
  <2>1. devicesMutex = t
    BY <1>0, <1>4 DEF RemoveCommands, TasksTypeOK, Removing, Tasks, Idle
  <2>2. Idle \in Tasks /\ Idle.step \notin {"removeSettings", "removeCommands"}
    BY DEF Idle, Tasks
  <2> QED
    BY <1>4, <2>1, <2>2, RegistryAssumption DEF RemoveCommands, Finish, TasksTypeOK, Removing
<1> QED
  BY <1>1, <1>2, <1>3, <1>4 DEF ThreadStep
------------------------------------------------------------------------------
LEMMA RemoveDeviceType ==
  ASSUME RegistryInv, NEW t \in Threads, NEW d \in Devices, RemoveDevice(t, d)
  PROVE  RegistryInv'
<1> USE DEF RegistryInv, ControllersTypeOK, CacheTypeOK
<1>1. CASE Fails("write") /\ UNCHANGED <<devicesCache, misread, devicesMutex, task, excused>>
  BY <1>1, FailsType DEF RemoveDevice, TasksTypeOK, Removing
<1>2. ASSUME NEW c \in Connections, Leaves(c, WithDevice(c, d, Absent)),
             Forget(d), KeepMutex(t),
             task' = [task EXCEPT ![t] = [step |-> "removeSettings", device |-> d]],
             excused' = [excused EXCEPT ![d] = FALSE]
      PROVE  RegistryInv'
  <2>1. StorageTypeOK(Tables)'
    BY <1>2, WithDeviceType, LeavesType
  <2>2. ControllersTypeOK'
    BY <1>2 DEF RemoveDevice, Forget, DeviceTable
  <2>3. [step |-> "removeSettings", device |-> d] \in Tasks
    BY DEF Tasks
  <2>4. TasksTypeOK'
    BY <1>2, <2>3, RegistryAssumption DEF RemoveDevice, KeepMutex, TasksTypeOK, Removing
  <2> QED
    BY <2>1, <2>2, <2>4
<1> QED
  BY <1>1, <1>2 DEF RemoveDevice

LEMMA RemovePhantomType ==
  ASSUME RegistryInv, RemovePhantom
  PROVE  RegistryInv'
<1>1. CASE Fails("write") /\ UNCHANGED phantoms
  BY <1>1, FailsType DEF RemovePhantom, RegistryInv, ControllersTypeOK, CacheTypeOK,
     TasksTypeOK, Removing
<1>2. ASSUME NEW c \in Connections, Leaves(c, c.rows), phantoms' = phantoms - 1
      PROVE  RegistryInv'
  <2>1. StorageTypeOK(Tables)'
    BY <1>2, ConnectionType, LeavesType DEF RegistryInv
  <2>2. ControllersTypeOK' /\ TasksTypeOK'
    BY <1>2 DEF RemovePhantom, RegistryInv, ControllersTypeOK, CacheTypeOK, TasksTypeOK, Removing
  <2> QED
    BY <2>1, <2>2 DEF RegistryInv
<1> QED
  BY <1>1, <1>2 DEF RemovePhantom

LEMMA AddOrUpdateAttachedType ==
  ASSUME RegistryInv, NEW k \in Kinds, NEW d \in Devices, NEW content \in Contents,
         AddOrUpdateAttached(k, d, content)
  PROVE  RegistryInv'
<1> USE DEF RegistryInv, ControllersTypeOK, CacheTypeOK, cacheVars
<1>1. TasksTypeOK'
  BY DEF AddOrUpdateAttached, TasksTypeOK, Removing
<1>2. CASE Fails("write") /\ UNCHANGED <<attachedCache, excused>>
  BY <1>1, <1>2, FailsType DEF AddOrUpdateAttached
<1>3. ASSUME NEW c \in Connections, Leaves(c, WithAttached(c, k, d, content)),
             attachedCache' = [attachedCache EXCEPT ![k][d] = content],
             excused' = [excused EXCEPT ![d] = @ \/ ~Registered(d)]
      PROVE  RegistryInv'
  <2>1. StorageTypeOK(Tables)'
    BY <1>3, WithAttachedType, LeavesType
  <2>2. attachedCache' \in Attached
    BY <1>3 DEF Attached
  <2>3. excused' \in [Devices -> BOOLEAN]
    BY <1>3 DEF Registered
  <2> QED
    BY <1>1, <2>1, <2>2, <2>3 DEF AddOrUpdateAttached
<1> QED
  BY <1>2, <1>3 DEF AddOrUpdateAttached

LEMMA RestartType ==
  ASSUME RegistryInv, Restart
  PROVE  RegistryInv'
<1> USE DEF RegistryInv, ControllersTypeOK
<1>1. StorageTypeOK(Tables)'
  BY DEF Restart, Reconnects, StorageTypeOK
<1>2. durable.devices \in DeviceTable /\ durable.attached \in Attached
  BY DEF StorageTypeOK, Tables
<1>3. attachedCache' \in Attached
  <2>1. \A k \in Kinds : Constructed(durable.attached[k]) \subseteq [Devices -> Contents \cup {Absent}]
    BY <1>2 DEF Constructed, Attached, NoDevices
  <2>2. PICK s \in Constructed(durable.attached["settings"]),
             c \in Constructed(durable.attached["commands"]) :
               attachedCache' = [settings |-> s, commands |-> c]
    BY DEF Restart
  <2>3. s \in [Devices -> Contents \cup {Absent}] /\ c \in [Devices -> Contents \cup {Absent}]
    BY <2>1, <2>2 DEF Kinds
  <2> QED
    BY <2>2, <2>3 DEF Attached, Kinds
<1>4. CacheTypeOK'
  <2>1. CASE FilledWith(durable.devices)
    BY <1>2, <2>1, FilledWithType
  <2>2. CASE devicesCache' = NoDevices /\ phantoms' = 0 /\ misread' = {} /\ fillFailed' = TRUE
    BY <2>2 DEF CacheTypeOK, NoDevices, DeviceTable
  <2> QED
    BY <2>1, <2>2 DEF Restart, DevicesConstructed
<1>5. excused' \in [Devices -> BOOLEAN]
  BY DEF Restart, StorageTypeOK
<1>6. TasksTypeOK'
  BY RegistryAssumption DEF Restart, TasksTypeOK, Removing, Tasks, Idle
<1> QED
  BY <1>1, <1>3, <1>4, <1>5, <1>6

(* What a client changes of a device.                                       *)
ClientUpdates(d) ==
  \/ \E name \in Names : UpdateDeviceName(d, name)
  \/ \E group \in Names \cup {NoName} : UpdateDeviceGroup(d, group)

LEMMA ClientUpdatesField ==
  ASSUME NEW d \in Devices, ClientUpdates(d)
  PROVE  \E field, value : Settable(field, value) /\ UpdateDevice(d, field, value)
BY DEF ClientUpdates, UpdateDeviceName, UpdateDeviceGroup, Settable

(***************************************************************************)
(* Every variable keeps its type whatever faults occur, and the mutex of   *)
(* the registry is held from the first to the last statement of a removal, *)
(* by the one thread that removes (DevicesController.cpp:128-148).         *)
(***************************************************************************)
THEOREM RegistryTypeCorrect == RegistrySpec => []RegistryTypeOK
<1>1. Init => RegistryInv
  <2>1. NoDevices \in DeviceTable /\ NothingAttached \in Attached
    BY DEF NoDevices, DeviceTable, NothingAttached, Attached
  <2>2. Idle \in Tasks /\ Idle.step \notin {"removeSettings", "removeCommands"}
    BY DEF Tasks, Idle
  <2>3. Init => TasksTypeOK
    BY <2>2, RegistryAssumption DEF Init, TasksTypeOK, Removing
  <2>4. [devices |-> NoDevices, attached |-> NothingAttached] \in Tables
    BY <2>1 DEF Tables
  <2>5. Init => StorageTypeOK(Tables)
    BY <2>4 DEF Init, StorageTypeOK
  <2>6. Init => CacheTypeOK
    <3>1. {} \subseteq Devices /\ 0 \in Nat /\ FALSE \in BOOLEAN
      OBVIOUS
    <3>2. Init => /\ devicesCache = NoDevices /\ phantoms = 0
                  /\ misread = {} /\ fillFailed = FALSE
      BY DEF Init
    <3> QED
      BY <2>1, <3>1, <3>2 DEF CacheTypeOK
  <2>7. Init => attachedCache \in Attached /\ excused \in [Devices -> BOOLEAN]
    BY <2>1 DEF Init
  <2> QED
    BY <2>3, <2>5, <2>6, <2>7 DEF RegistryInv, ControllersTypeOK
<1>2. RegistryInv /\ [Next]_vars => RegistryInv'
  <2> SUFFICES ASSUME RegistryInv, [Next]_vars PROVE RegistryInv'
    OBVIOUS
  <2>1. CASE ListDevices
    BY <2>1, RefillType DEF ListDevices, RegistryInv, ControllersTypeOK, TasksTypeOK, Removing
  <2>2. ASSUME NEW t \in Threads, ThreadStep(t) PROVE RegistryInv'
    BY <2>2, ThreadStepType, ThreadStepTasks DEF RegistryInv
  <2>3. ASSUME NEW t \in Threads, NEW d \in Devices, RemoveDevice(t, d) PROVE RegistryInv'
    BY <2>3, RemoveDeviceType
  <2>4. ASSUME NEW t \in Threads, NEW d \in Devices, NEW s \in Stamps,
               StartRegistration(t, d, s)
        PROVE  RegistryInv'
    <3> DEFINE x == [step |-> "get", device |-> d, stamp |-> s]
    <3>1. x \in Tasks /\ x.step \notin {"removeSettings", "removeCommands"}
      BY DEF Tasks
    <3>2. task[t].step \notin {"removeSettings", "removeCommands"}
      BY <2>4 DEF StartRegistration, Idle
    <3>3. task' = [task EXCEPT ![t] = x] /\ UNCHANGED devicesMutex
      BY <2>4 DEF StartRegistration
    <3>4. TasksTypeOK'
      BY <3>1, <3>2, <3>3, TaskOutsideRemove DEF RegistryInv
    <3> QED
      BY <2>4, <3>4 DEF StartRegistration, RegistryInv, StorageTypeOK, ControllersTypeOK,
         CacheTypeOK, cacheVars, storageVars
  <2>5. ASSUME NEW d \in Devices, ClientUpdates(d) PROVE RegistryInv'
    <3>1. PICK field, value : Settable(field, value) /\ UpdateDevice(d, field, value)
      BY <2>5, ClientUpdatesField
    <3> QED
      BY <2>5, <3>1, UpdateDeviceType DEF ClientUpdates, UpdateDeviceName, UpdateDeviceGroup,
         RegistryInv, ControllersTypeOK, TasksTypeOK, Removing
  <2>6. ASSUME NEW d \in Devices, NEW k \in Kinds, NEW content \in Contents,
               AddOrUpdateAttached(k, d, content)
        PROVE  RegistryInv'
    BY <2>6, AddOrUpdateAttachedType
  <2>7. CASE OtherTransaction
    BY <2>7, TransactionType DEF OtherTransaction, RegistryInv, ControllersTypeOK, CacheTypeOK,
       cacheVars, TasksTypeOK, Removing, registryVars
  <2>8. CASE Restart
    BY <2>8, RestartType
  <2>9. CASE UNCHANGED vars
    BY <2>9 DEF vars, registryVars, storageVars, RegistryInv, StorageTypeOK,
       ControllersTypeOK, CacheTypeOK, cacheVars, TasksTypeOK, Removing
  <2>10. CASE RemovePhantom
    BY <2>10, RemovePhantomType
  <2> QED
    BY <2>1, <2>2, <2>3, <2>4, <2>5, <2>6, <2>7, <2>8, <2>9, <2>10 DEF Next, ClientUpdates
<1> QED
  BY <1>1, <1>2, RegistryTypeOKSplit, PTL DEF RegistrySpec
------------------------------------------------------------------------------
(* Without lost reads a statement shows what it leaves.                     *)
LEMMA LeavesRows ==
  ASSUME NoLostReads, NEW c \in Connections, NEW rows, Leaves(c, rows)
  PROVE  c.rows = db /\ db' = rows
BY ReliableConnection DEF Leaves

(* A refill reads, and no more.                                             *)
LEMMA RefillReads ==
  ASSUME NoLostReads, RefillIfEmpty
  PROVE  db' = db
BY LeavesRows, ReliableConnection DEF RefillIfEmpty, FillCache, storageVars

(* A statement on devices, or one that fails, leaves what is attached.      *)
LEMMA WithDeviceRows ==
  ASSUME NoLostReads, db \in Tables, NEW c \in Connections, NEW d \in Devices, NEW row,
         Leaves(c, WithDevice(c, d, row))
  PROVE  db'.attached = db.attached /\ db'.devices = [db.devices EXCEPT ![d] = row]
BY LeavesRows DEF WithDevice, Tables

LEMMA UpdateDeviceRows ==
  ASSUME NoLostReads, db \in Tables, NEW d \in Devices, NEW field, NEW value,
         Settable(field, value), UpdateDevice(d, field, value)
  PROVE  /\ db'.attached = db.attached
         /\ \A e \in Devices : Registered(e) => Registered(e)'
<1>1. CASE UNCHANGED storageVars
  BY <1>1 DEF storageVars, Registered
<1>2. CASE Fails("write")
  BY <1>2, ReliableConnection DEF storageVars, Registered
<1>3. ASSUME NEW c \in Connections, Leaves(c, WithColumn(c, d, field, value))
      PROVE  /\ db'.attached = db.attached
             /\ \A e \in Devices : Registered(e) => Registered(e)'
  <2> DEFINE row == IF c.rows.devices[d] = Absent THEN Absent
                    ELSE [c.rows.devices[d] EXCEPT ![field] = ColumnValue(field, value)]
  <2>1. c.rows = db
    BY <1>3, LeavesRows
  <2>2. db'.attached = db.attached /\ db'.devices = [db.devices EXCEPT ![d] = row]
    BY <1>3, WithDeviceRows DEF WithColumn
  <2>3. db.devices \in DeviceTable
    BY DEF Tables
  <2>4. ASSUME db.devices[d] # Absent PROVE row # Absent
    <3>1. db.devices[d] \in Device
      BY <2>3, <2>4 DEF DeviceTable
    <3>2. [db.devices[d] EXCEPT ![field] = ColumnValue(field, value)] \in Device
      BY <3>1, WithFieldType
    <3> QED
      BY <2>1, <2>4, <3>2, AbsentIsNoDevice
  <2> QED
    BY <2>2, <2>3, <2>4 DEF Registered, DeviceTable
<1> QED
  BY <1>1, <1>2, <1>3 DEF UpdateDevice

LEMMA AddRows ==
  ASSUME NoLostReads, RegistryInv, NEW t \in Threads, Add(t)
  PROVE  /\ db'.attached = db.attached
         /\ \A e \in Devices : Registered(e) => Registered(e)'
<1> DEFINE d == task[t].device
           row == [[name |-> NoName, group |-> NoName, stamp |-> task[t].stamp]
                     EXCEPT !.stamp = Second(@)]
<1>1. task[t] \in Tasks /\ db \in Tables /\ db.devices \in DeviceTable
  BY DEF RegistryInv, TasksTypeOK, StorageTypeOK, Tables
<1>2. d \in Devices /\ row \in Device
  BY <1>1, AddedType
<1>3. CASE UNCHANGED storageVars
  BY <1>3 DEF storageVars, Registered
<1>4. CASE Fails("write")
  BY <1>4, ReliableConnection DEF storageVars, Registered
<1>5. ASSUME NEW c \in Connections, Leaves(c, WithDevice(c, d, row))
      PROVE  /\ db'.attached = db.attached
             /\ \A e \in Devices : Registered(e) => Registered(e)'
  <2> HIDE DEF d, row
  <2>1. db'.attached = db.attached /\ db'.devices = [db.devices EXCEPT ![d] = row]
    BY <1>1, <1>2, <1>5, WithDeviceRows
  <2> QED
    BY <1>1, <1>2, <2>1, AbsentIsNoDevice DEF Registered, DeviceTable
<1>6. ASSUME NEW c \in Connections, Leaves(c, c.rows)
      PROVE  db' = db
  BY <1>6, LeavesRows
<1> QED
  BY <1>3, <1>4, <1>5, <1>6 DEF Add, Registered

LEMMA RemoveAttachedCoherent ==
  ASSUME NoLostReads, db \in Tables, attachedCache = db.attached,
         NEW k \in Kinds, NEW d \in Devices, RemoveAttached(k, d)
  PROVE  attachedCache' = db'.attached
<1>1. CASE UNCHANGED <<storageVars, attachedCache, excused>>
  BY <1>1 DEF storageVars
<1>2. CASE Fails("write") /\ UNCHANGED attachedCache
  BY <1>2, ReliableConnection DEF storageVars
<1>3. ASSUME NEW c \in Connections, Leaves(c, WithAttached(c, k, d, Absent)),
             attachedCache' = [attachedCache EXCEPT ![k][d] = Absent]
      PROVE  attachedCache' = db'.attached
  BY <1>3, LeavesRows DEF WithAttached, Tables
<1> QED
  BY <1>1, <1>2, <1>3 DEF RemoveAttached

LEMMA RestartCoherent ==
  ASSUME NoLostReads, RegistryInv, Restart
  PROVE  AttachedCachesAreTables'
<1>1. \A rows : Constructed(rows) = {rows}
  BY DEF NoLostReads, Constructed
<1>2. attachedCache' = [settings |-> durable.attached["settings"],
                        commands |-> durable.attached["commands"]]
  BY <1>1 DEF Restart
<1>3. durable.attached \in Attached
  BY DEF RegistryInv, StorageTypeOK, Tables
<1>4. attachedCache' = durable.attached
  BY <1>2, <1>3 DEF Attached, Kinds
<1> QED
  BY <1>4 DEF Restart, Reconnects, AttachedCachesAreTables

LEMMA StepCoherent ==
  ASSUME NoLostReads, RegistryInv, AttachedCachesAreTables, [Next]_vars
  PROVE  AttachedCachesAreTables'
<1> USE DEF AttachedCachesAreTables
<1>0. db \in Tables
  BY DEF RegistryInv, StorageTypeOK
<1>1. CASE ListDevices \/ \E t \in Threads : LookUp(t)
  BY <1>1, RefillReads DEF ListDevices, LookUp
<1>2. ASSUME NEW t \in Threads, Add(t) PROVE AttachedCachesAreTables'
  BY <1>2, AddRows DEF Add
<1>3. ASSUME NEW t \in Threads, UpdateDeviceTimestamp(t) PROVE AttachedCachesAreTables'
  <2>1. task[t].device \in Devices /\ Settable("stamp", task[t].stamp)
    BY <1>3 DEF UpdateDeviceTimestamp, RegistryInv, TasksTypeOK, Tasks, Idle, Settable
  <2> QED
    BY <1>0, <1>3, <2>1, UpdateDeviceRows DEF UpdateDeviceTimestamp
<1>4. ASSUME NEW t \in Threads, RemoveSettings(t) \/ RemoveCommands(t)
      PROVE  AttachedCachesAreTables'
  <2>1. task[t].device \in Devices
    BY <1>4 DEF RemoveSettings, RemoveCommands, RegistryInv, TasksTypeOK, Tasks, Idle
  <2> QED
    BY <1>0, <1>4, <2>1, RemoveAttachedCoherent DEF RemoveSettings, RemoveCommands, Kinds
<1>5. ASSUME NEW t \in Threads, NEW d \in Devices, RemoveDevice(t, d)
      PROVE  AttachedCachesAreTables'
  BY <1>0, <1>5, WithDeviceRows, ReliableConnection DEF RemoveDevice, storageVars
<1>6. CASE RemovePhantom
  BY <1>6, LeavesRows, ReliableConnection DEF RemovePhantom, storageVars
<1>7. ASSUME NEW d \in Devices, ClientUpdates(d) PROVE AttachedCachesAreTables'
  <2>1. PICK field, value : Settable(field, value) /\ UpdateDevice(d, field, value)
    BY <1>7, ClientUpdatesField
  <2> QED
    BY <1>0, <1>7, <2>1, UpdateDeviceRows DEF ClientUpdates, UpdateDeviceName, UpdateDeviceGroup
<1>8. ASSUME NEW d \in Devices, NEW k \in Kinds, NEW content \in Contents,
             AddOrUpdateAttached(k, d, content)
      PROVE  AttachedCachesAreTables'
  <2>1. CASE Fails("write") /\ UNCHANGED <<attachedCache, excused>>
    BY <2>1, ReliableConnection DEF storageVars
  <2>2. ASSUME NEW c \in Connections, Leaves(c, WithAttached(c, k, d, content)),
               attachedCache' = [attachedCache EXCEPT ![k][d] = content]
        PROVE  AttachedCachesAreTables'
    BY <1>0, <2>2, LeavesRows DEF WithAttached, Tables
  <2> QED
    BY <1>8, <2>1, <2>2 DEF AddOrUpdateAttached
<1>9. CASE OtherTransaction
  BY <1>9, ReliableTransaction DEF OtherTransaction, registryVars
<1>10. CASE Restart
  BY <1>10, RestartCoherent
<1>11. ASSUME UNCHANGED <<storageVars, attachedCache>> PROVE AttachedCachesAreTables'
  BY <1>11 DEF storageVars
<1> QED
  BY <1>1, <1>2, <1>3, <1>4, <1>5, <1>6, <1>7, <1>8, <1>9, <1>10, <1>11
  DEF Next, ThreadStep, ClientUpdates, StartRegistration, LogRefusal, vars, registryVars

(***************************************************************************)
(* The caches of the settings and of the commands are their tables, while  *)
(* no SELECT fails and no transaction is lost with its connection: through *)
(* any races of stores and removals, and through restarts.                 *)
(***************************************************************************)
THEOREM AttachedCachesCorrect == NoLostReads => (RegistrySpec => []AttachedCachesAreTables)
<1> SUFFICES ASSUME NoLostReads PROVE RegistrySpec => []AttachedCachesAreTables
  OBVIOUS
<1>1. Init => AttachedCachesAreTables
  BY DEF Init, AttachedCachesAreTables
<1>2. RegistryInv /\ AttachedCachesAreTables /\ [Next]_vars => AttachedCachesAreTables'
  BY StepCoherent
<1> QED
  BY <1>1, <1>2, RegistryTypeCorrect, RegistryTypeOKSplit, PTL DEF RegistrySpec
------------------------------------------------------------------------------
(***************************************************************************)
(* OrphansExplained is not inductive: it does not say that the settings    *)
(* are gone when Remove comes to the commands, nor that the file holds     *)
(* what a restart will find.                                               *)
(***************************************************************************)
OrphansKnown ==
  \A d \in Devices, k \in Kinds :
    ~Registered(d) /\ db.attached[k][d] # Absent
      => \/ excused[d]
         \/ \E t \in Threads :
              Removing(t, d) /\ (k = "settings" => task[t].step = "removeSettings")

LEMMA StepNothingPending ==
  ASSUME NothingPending, [Next]_vars
  PROVE  NothingPending'
<1>1. CASE UNCHANGED storageVars
  BY <1>1 DEF storageVars, NothingPending
<1>2. CASE \E kind : Fails(kind)
  BY <1>2, FailsNothingPending
<1>3. CASE \E c \in Connections : \E rows : Leaves(c, rows)
  BY <1>3, LeavesNothingPending
<1>4. CASE OtherTransaction
  BY <1>4, TransactionNothingPending DEF OtherTransaction
<1>5. CASE Restart
  BY <1>5 DEF Restart, Reconnects, NothingPending
<1>6. CASE ListDevices \/ RemovePhantom \/ \E t \in Threads : LookUp(t)
  BY <1>1, <1>2, <1>3, <1>6 DEF ListDevices, LookUp, RemovePhantom, RefillIfEmpty, FillCache
<1>7. ASSUME NEW t \in Threads, ThreadStep(t), ~LookUp(t) PROVE NothingPending'
  <2>1. CASE Add(t)
    BY <1>1, <1>2, <1>3, <2>1 DEF Add
  <2>2. CASE LogRefusal(t)
    BY <1>1, <2>2 DEF LogRefusal
  <2>3. CASE UpdateDeviceTimestamp(t)
    BY <1>1, <1>2, <1>3, <2>3 DEF UpdateDeviceTimestamp, UpdateDevice
  <2>4. CASE RemoveSettings(t) \/ RemoveCommands(t)
    BY <1>1, <1>2, <1>3, <2>4 DEF RemoveSettings, RemoveCommands, RemoveAttached
  <2> QED
    BY <1>7, <2>1, <2>2, <2>3, <2>4 DEF ThreadStep
<1>8. ASSUME NEW t \in Threads, NEW d \in Devices,
             RemoveDevice(t, d) \/ \E s \in Stamps : StartRegistration(t, d, s)
      PROVE  NothingPending'
  BY <1>1, <1>2, <1>3, <1>8 DEF RemoveDevice, StartRegistration
<1>9. ASSUME NEW d \in Devices,
             ClientUpdates(d) \/ \E k \in Kinds, content \in Contents :
                                   AddOrUpdateAttached(k, d, content)
      PROVE  NothingPending'
  BY <1>1, <1>2, <1>3, <1>9 DEF ClientUpdates, UpdateDeviceName, UpdateDeviceGroup,
     UpdateDevice, AddOrUpdateAttached
<1> QED
  BY <1>1, <1>4, <1>5, <1>6, <1>7, <1>8, <1>9 DEF Next, vars, ClientUpdates

(* One thread at a time removes, and one device. *)
LEMMA RemovesAlone ==
  ASSUME TasksTypeOK, NEW t \in Threads, NEW d \in Devices, Removing(t, d),
         NEW u \in Threads, NEW e \in Devices, Removing(u, e)
  PROVE  t = u /\ d = e
BY DEF TasksTypeOK, Removing

(* A step that removes no device, nothing attached and ends no removal.     *)
LEMMA OrphansKept ==
  ASSUME OrphansKnown, db'.attached = db.attached, UNCHANGED excused,
         \A d \in Devices : Registered(d) => Registered(d)',
         \A t \in Threads, d \in Devices :
           Removing(t, d) => task'[t] = task[t]
  PROVE  OrphansKnown'
BY DEF OrphansKnown, Removing

(* Remove's call for the settings or the commands of d: what it was to      *)
(* remove is gone or excused, and the rest is as it was.                   *)
LEMMA RemoveAttachedLeaves ==
  ASSUME NoLostReads, db \in Tables, ControllersTypeOK, AttachedCachesAreTables,
         NEW k \in Kinds, NEW d \in Devices, RemoveAttached(k, d)
  PROVE  /\ db'.devices = db.devices
         /\ \A j \in Kinds, e \in Devices :
              db'.attached[j][e] # Absent => db.attached[j][e] # Absent
         /\ \A e \in Devices : excused[e] => excused'[e]
         /\ db'.attached[k][d] # Absent => excused'[d]
<1> USE DEF AttachedCachesAreTables
<1>1. CASE attachedCache[k][d] = Absent /\ UNCHANGED <<storageVars, attachedCache, excused>>
  BY <1>1 DEF storageVars
<1>2. CASE Fails("write") /\ excused' = [excused EXCEPT ![d] = TRUE]
  BY <1>2, ReliableConnection DEF storageVars, ControllersTypeOK
<1>3. ASSUME NEW c \in Connections, Leaves(c, WithAttached(c, k, d, Absent)),
             UNCHANGED excused
      PROVE  /\ db'.devices = db.devices
             /\ \A j \in Kinds, e \in Devices :
                  db'.attached[j][e] # Absent => db.attached[j][e] # Absent
             /\ db'.attached[k][d] = Absent
  BY <1>3, LeavesRows DEF WithAttached, Tables, Attached
<1> QED
  BY <1>1, <1>2, <1>3 DEF RemoveAttached

LEMMA RemoveSettingsOrphans ==
  ASSUME NoLostReads, RegistryInv, AttachedCachesAreTables, OrphansKnown,
         NEW t \in Threads, RemoveSettings(t)
  PROVE  OrphansKnown'
<1> DEFINE d == task[t].device
<1>1. task[t] \in Tasks /\ d \in Devices /\ Removing(t, d)
  BY DEF RegistryInv, TasksTypeOK, RemoveSettings, Tasks, Idle, Removing
<1>2. /\ db'.devices = db.devices
      /\ \A j \in Kinds, e \in Devices :
           db'.attached[j][e] # Absent => db.attached[j][e] # Absent
      /\ \A e \in Devices : excused[e] => excused'[e]
      /\ db'.attached["settings"][d] # Absent => excused'[d]
  BY <1>1, RemoveAttachedLeaves DEF RegistryInv, StorageTypeOK, RemoveSettings, Kinds
<1>3. task'[t].step = "removeCommands" /\ task'[t].device = d
  BY <1>1 DEF RemoveSettings, RegistryInv, TasksTypeOK, Tasks, Idle
<1>4. \A e \in Devices : e # d => \A u \in Threads : ~Removing(u, e)
  BY <1>1, RemovesAlone DEF RegistryInv
<1> QED
  <2> SUFFICES ASSUME NEW e \in Devices, NEW k \in Kinds,
                      ~Registered(e)', db'.attached[k][e] # Absent
               PROVE  \/ excused'[e]
                      \/ k = "commands" /\ Removing(t, e)'
    BY DEF OrphansKnown
  <2>1. CASE e = d
    BY <1>2, <1>3, <2>1 DEF Removing, Kinds
  <2>2. CASE e # d
    BY <1>2, <1>4, <2>2 DEF OrphansKnown, Registered
  <2> QED
    BY <2>1, <2>2

LEMMA RemoveCommandsOrphans ==
  ASSUME NoLostReads, RegistryInv, AttachedCachesAreTables, OrphansKnown,
         NEW t \in Threads, RemoveCommands(t)
  PROVE  OrphansKnown'
<1> DEFINE d == task[t].device
<1>1. task[t] \in Tasks /\ d \in Devices /\ Removing(t, d)
  BY DEF RegistryInv, TasksTypeOK, RemoveCommands, Tasks, Idle, Removing
<1>2. /\ db'.devices = db.devices
      /\ \A j \in Kinds, e \in Devices :
           db'.attached[j][e] # Absent => db.attached[j][e] # Absent
      /\ \A e \in Devices : excused[e] => excused'[e]
      /\ db'.attached["commands"][d] # Absent => excused'[d]
  BY <1>1, RemoveAttachedLeaves DEF RegistryInv, StorageTypeOK, RemoveCommands, Kinds
<1>3. \A e \in Devices : \A u \in Threads : Removing(u, e) => u = t /\ e = d
  BY <1>1, RemovesAlone DEF RegistryInv
<1>4. task[t].step # "removeSettings"
  BY DEF RemoveCommands
<1>5. \A e \in Devices, k \in Kinds :
        ~Registered(e) /\ db.attached[k][e] # Absent /\ (e # d \/ k = "settings") => excused[e]
  BY <1>3, <1>4 DEF OrphansKnown
<1> QED
  BY <1>1, <1>2, <1>5 DEF OrphansKnown, Registered, Kinds

LEMMA RemoveDeviceOrphans ==
  ASSUME NoLostReads, RegistryInv, OrphansKnown,
         NEW t \in Threads, NEW d \in Devices, RemoveDevice(t, d)
  PROVE  OrphansKnown'
<1>1. CASE Fails("write") /\ UNCHANGED <<task, excused>>
  <2>1. UNCHANGED storageVars
    BY <1>1, ReliableConnection
  <2> QED
    BY <1>1, <2>1 DEF OrphansKnown, Registered, Removing, storageVars
<1>2. ASSUME NEW c \in Connections, Leaves(c, WithDevice(c, d, Absent)),
             task' = [task EXCEPT ![t] = [step |-> "removeSettings", device |-> d]],
             excused' = [excused EXCEPT ![d] = FALSE]
      PROVE  OrphansKnown'
  <2>1. \A u \in Threads, e \in Devices : ~Removing(u, e)
    BY RegistryAssumption DEF RemoveDevice, RegistryInv, TasksTypeOK
  <2>2. db' = [db EXCEPT !.devices[d] = Absent]
    BY <1>2, LeavesRows DEF WithDevice
  <2>3. db'.attached = db.attached /\ \A e \in Devices : e # d => Registered(e)' = Registered(e)
    BY <2>2 DEF RegistryInv, StorageTypeOK, Tables, DeviceTable, Registered
  <2>4. Removing(t, d)' /\ task'[t].step = "removeSettings"
    BY <1>2 DEF RegistryInv, TasksTypeOK, Removing
  <2>5. \A e \in Devices : e # d => excused'[e] = excused[e]
    BY <1>2 DEF RegistryInv, ControllersTypeOK
  <2> QED
    BY <2>1, <2>3, <2>4, <2>5 DEF OrphansKnown
<1> QED
  BY <1>1, <1>2 DEF RemoveDevice

LEMMA AddOrUpdateAttachedOrphans ==
  ASSUME NoLostReads, RegistryInv, OrphansKnown, NEW k \in Kinds, NEW d \in Devices,
         NEW content \in Contents, AddOrUpdateAttached(k, d, content)
  PROVE  OrphansKnown'
<1>1. CASE Fails("write") /\ UNCHANGED excused
  <2>1. UNCHANGED storageVars
    BY <1>1, ReliableConnection
  <2> QED
    BY <1>1, <2>1 DEF AddOrUpdateAttached, OrphansKnown, Registered, Removing, storageVars
<1>2. ASSUME NEW c \in Connections, Leaves(c, WithAttached(c, k, d, content)),
             excused' = [excused EXCEPT ![d] = @ \/ ~Registered(d)]
      PROVE  OrphansKnown'
  <2>1. db' = [db EXCEPT !.attached[k][d] = content]
    BY <1>2, LeavesRows DEF WithAttached
  <2>2. /\ db'.devices = db.devices
        /\ \A j \in Kinds, e \in Devices : e # d => db'.attached[j][e] = db.attached[j][e]
    BY <2>1 DEF RegistryInv, StorageTypeOK, Tables, Attached
  <2>3. \A e \in Devices : excused[e] \/ (e = d /\ ~Registered(d)) => excused'[e]
    BY <1>2 DEF RegistryInv, ControllersTypeOK
  <2> QED
    BY <2>2, <2>3 DEF AddOrUpdateAttached, OrphansKnown, Registered, Removing
<1> QED
  BY <1>1, <1>2 DEF AddOrUpdateAttached

LEMMA RestartOrphans ==
  ASSUME RegistryInv, NothingPending, OrphansKnown, Restart
  PROVE  OrphansKnown'
<1>1. CASE txOpen
  BY <1>1 DEF Restart, OrphansKnown
<1>2. CASE ~txOpen
  <2>1. db' = db
    BY <1>2 DEF NothingPending, Restart, Reconnects
  <2>2. \A d \in Devices :
          excused[d] \/ (\E t \in Threads : Removing(t, d)) => excused'[d]
    BY DEF Restart
  <2> QED
    BY <2>1, <2>2 DEF OrphansKnown, Registered
<1> QED
  BY <1>1, <1>2

(***************************************************************************)
(* Remove leaves no settings and no commands behind without a reason that  *)
(* the code accepts: they were stored after the device had gone, a DELETE  *)
(* failed and its result was ignored, or the server stopped half-way or    *)
(* in a transaction.                                                       *)
(***************************************************************************)
THEOREM OrphansCorrect == NoLostReads => (RegistrySpec => []OrphansExplained)
<1> SUFFICES ASSUME NoLostReads PROVE RegistrySpec => []OrphansExplained
  OBVIOUS
<1>1. Init => NothingPending /\ OrphansKnown
  <2>1. Init => \A k \in Kinds, d \in Devices : db.attached[k][d] = Absent
    BY DEF Init, NothingAttached, NoDevices
  <2> QED
    BY <2>1 DEF Init, NothingPending, OrphansKnown
<1>2. /\ RegistryInv /\ AttachedCachesAreTables /\ NothingPending /\ OrphansKnown
      /\ [Next]_vars
      => NothingPending' /\ OrphansKnown'
  <2> SUFFICES ASSUME RegistryInv, AttachedCachesAreTables, NothingPending, OrphansKnown,
                      [Next]_vars
               PROVE  OrphansKnown'
    BY StepNothingPending
  <2>0. db \in Tables
    BY DEF RegistryInv, StorageTypeOK
  <2>1. ASSUME db' = db, UNCHANGED <<task, excused>> PROVE OrphansKnown'
    BY <2>1 DEF OrphansKnown, Registered, Removing
  <2>2. CASE ListDevices
    BY <2>1, <2>2, RefillReads DEF ListDevices
  <2>3. ASSUME NEW t \in Threads, LookUp(t) PROVE OrphansKnown'
    BY <2>3, RefillReads, OrphansKept DEF LookUp, Removing, Registered
  <2>4. ASSUME NEW t \in Threads, Add(t) PROVE OrphansKnown'
    <3>1. PICK x : task' = [task EXCEPT ![t] = x]
      BY <2>4 DEF Add, Finish
    <3>2. \A e \in Devices : ~Removing(t, e)
      BY <2>4 DEF Add, Removing
    <3>3. UNCHANGED excused /\ \A u \in Threads, e \in Devices : Removing(u, e) => task'[u] = task[u]
      BY <2>4, <3>1, <3>2 DEF Add, RegistryInv, TasksTypeOK
    <3> QED
      BY <2>4, <3>3, AddRows, OrphansKept
  <2>5. ASSUME NEW t \in Threads, LogRefusal(t) PROVE OrphansKnown'
    BY <2>5, OrphansKept DEF LogRefusal, Finish, Removing, Registered, storageVars
  <2>6. ASSUME NEW t \in Threads, UpdateDeviceTimestamp(t) PROVE OrphansKnown'
    <3>1. task[t].device \in Devices /\ Settable("stamp", task[t].stamp)
      BY <2>6 DEF UpdateDeviceTimestamp, RegistryInv, TasksTypeOK, Tasks, Idle, Settable
    <3>2. /\ \A e \in Devices : Registered(e) => Registered(e)'
          /\ db'.attached = db.attached
      BY <2>0, <2>6, <3>1, UpdateDeviceRows DEF UpdateDeviceTimestamp
    <3>3. UNCHANGED excused /\ \A u \in Threads, e \in Devices : Removing(u, e) => task'[u] = task[u]
      BY <2>6 DEF UpdateDeviceTimestamp, Finish, Removing
    <3> QED
      BY <3>2, <3>3, OrphansKept
  <2>7. ASSUME NEW t \in Threads, RemoveSettings(t) \/ RemoveCommands(t) PROVE OrphansKnown'
    BY <2>7, RemoveSettingsOrphans, RemoveCommandsOrphans
  <2>8. ASSUME NEW t \in Threads, NEW d \in Devices, RemoveDevice(t, d) PROVE OrphansKnown'
    BY <2>8, RemoveDeviceOrphans
  <2>9. ASSUME NEW t \in Threads, NEW d \in Devices, NEW s \in Stamps,
               StartRegistration(t, d, s)
        PROVE  OrphansKnown'
    BY <2>9, OrphansKept DEF StartRegistration, Idle, Removing, Registered, storageVars
  <2>10. ASSUME NEW d \in Devices, ClientUpdates(d) PROVE OrphansKnown'
    <3>1. PICK field, value : Settable(field, value) /\ UpdateDevice(d, field, value)
      BY <2>10, ClientUpdatesField
    <3>2. /\ \A e \in Devices : Registered(e) => Registered(e)'
          /\ db'.attached = db.attached
      BY <2>0, <3>1, UpdateDeviceRows
    <3> QED
      BY <2>10, <3>2, OrphansKept DEF ClientUpdates, UpdateDeviceName, UpdateDeviceGroup
  <2>11. ASSUME NEW d \in Devices, NEW k \in Kinds, NEW content \in Contents,
                AddOrUpdateAttached(k, d, content)
         PROVE  OrphansKnown'
    BY <2>11, AddOrUpdateAttachedOrphans
  <2>12. CASE OtherTransaction
    BY <2>1, <2>12, ReliableTransaction DEF OtherTransaction, registryVars
  <2>13. CASE Restart
    BY <2>13, RestartOrphans
  <2>14. CASE RemovePhantom
    BY <2>1, <2>14, LeavesRows, ReliableConnection DEF RemovePhantom, storageVars
  <2>15. CASE UNCHANGED vars
    BY <2>1, <2>15 DEF vars, storageVars, registryVars
  <2> QED
    BY <2>2, <2>3, <2>4, <2>5, <2>6, <2>7, <2>8, <2>9, <2>10, <2>11, <2>12, <2>13, <2>14, <2>15
    DEF Next, ThreadStep, ClientUpdates
<1>3. OrphansKnown => OrphansExplained
  BY DEF OrphansKnown, OrphansExplained
<1>4. RegistrySpec => []RegistryInv
  BY RegistryTypeCorrect, RegistryTypeOKSplit, PTL
<1>5. RegistrySpec => []AttachedCachesAreTables
  BY AttachedCachesCorrect
<1> QED
  BY <1>1, <1>2, <1>3, <1>4, <1>5, PTL DEF RegistrySpec
------------------------------------------------------------------------------
(* SELECTs may fail too, but no transaction is lost with its connection.    *)
NoLostTransactions == Faults \subseteq {"select", "write", "crash"}

LEMMA StatementsOnOneConnection ==
  ASSUME NoLostTransactions
  PROVE  /\ Connections = {[rows |-> db, tx |-> txOpen]}
         /\ \A k : Fails(k) => db' = db
         /\ \A c \in Connections : \A rows : Leaves(c, rows) => c.rows = db /\ db' = rows
         /\ \A ok \in BOOLEAN : Begin(ok) \/ Commit(ok) => db' = db
<1>1. Connections = {[rows |-> db, tx |-> txOpen]}
  BY DEF NoLostTransactions, Connections
<1>2. \A k : Fails(k) => db' = db
  BY DEF NoLostTransactions, Fails, storageVars
<1>3. \A c \in Connections : \A rows : Leaves(c, rows) => c.rows = db /\ db' = rows
  BY <1>1 DEF Leaves
<1>4. \A ok \in BOOLEAN : Begin(ok) \/ Commit(ok) => db' = db
  BY <1>1, <1>2 DEF Begin, Commit
<1> QED
  BY <1>1, <1>2, <1>3, <1>4

(* What a step does to the rows of the table and to the entries of the      *)
(* cache.  It leaves the rows alone, and the entries, or fills the cache    *)
(* from the rows; ...                                                      *)
RowsKept ==
  /\ db'.devices = db.devices
  /\ \/ UNCHANGED <<devicesCache, misread, fillFailed>>
     \/ FilledWith(db.devices)
     \/ "select" \in Faults /\ fillFailed' = TRUE /\ UNCHANGED <<devicesCache, misread>>

(* (An entry matches a row, of which it may lack the group.)                *)
Matches(entry, row, groupLost) ==
  /\ entry.name = row.name
  /\ Second(entry.stamp) = row.stamp
  /\ entry.group = IF groupLost THEN NoName ELSE row.group

(* ... or it gives one device, if it is not hidden, a row and an entry that *)
(* match, or takes both away.                                              *)
RowWritten(d, row, entry) ==
  /\ db'.devices = [db.devices EXCEPT ![d] = row]
  /\ devicesCache' = [devicesCache EXCEPT ![d] = entry]
  /\ db.devices[d] = Absent \/ devicesCache[d] # Absent
  /\ \A e \in Devices : e # d => (e \in misread' <=> e \in misread)
  /\ row = Absent <=> entry = Absent
  /\ entry # Absent => Matches(entry, row, d \in misread')
  /\ UNCHANGED fillFailed

CachedRowStep ==
  \/ RowsKept
  \/ \E d \in Devices : \E row, entry \in Device \cup {Absent} : RowWritten(d, row, entry)

EntriesMatch ==
  \A d \in Devices : devicesCache[d] # Absent =>
    Registered(d) /\ Matches(devicesCache[d], db.devices[d], d \in misread)

LEMMA CachedDevicesMatch == CachedDevicesStored <=> EntriesMatch
BY DEF CachedDevicesStored, EntriesMatch, Matches

LEMMA RefillRows ==
  ASSUME NoLostTransactions, RefillIfEmpty
  PROVE  RowsKept
<1> USE StatementsOnOneConnection
<1>1. CASE UNCHANGED <<cacheVars, storageVars>>
  BY <1>1 DEF RowsKept, storageVars, cacheVars
<1>2. CASE Fails("select") /\ fillFailed' = TRUE /\ UNCHANGED <<devicesCache, phantoms, misread>>
  BY <1>2 DEF RowsKept, Fails
<1>3. ASSUME NEW c \in Connections, FilledWith(c.rows.devices), Leaves(c, c.rows)
      PROVE  RowsKept
  <2>1. c.rows = db /\ db' = db
    BY <1>3
  <2>2. FilledWith(db.devices)
    BY <1>3, <2>1
  <2> QED
    BY <2>1, <2>2 DEF RowsKept
<1> QED
  BY <1>1, <1>2, <1>3 DEF RefillIfEmpty, FillCache

LEMMA UpdateDeviceRow ==
  ASSUME NoLostTransactions, RegistryInv, CachedDevicesStored, NEW d \in Devices,
         NEW field, NEW value, Settable(field, value), UpdateDevice(d, field, value)
  PROVE  CachedRowStep
<1> USE StatementsOnOneConnection
<1>1. CASE UNCHANGED <<storageVars, cacheVars>>
  BY <1>1 DEF CachedRowStep, RowsKept, storageVars, cacheVars
<1>2. CASE Fails("write") /\ UNCHANGED cacheVars
  BY <1>2 DEF CachedRowStep, RowsKept, cacheVars
<1>3. ASSUME devicesCache[d] # Absent, NEW c \in Connections,
             Leaves(c, WithColumn(c, d, field, value)),
             devicesCache' = [devicesCache EXCEPT ![d] = [@ EXCEPT ![field] = value]],
             misread' = IF field = "group" THEN misread \ {d} ELSE misread,
             UNCHANGED fillFailed
      PROVE  CachedRowStep
  <2> DEFINE row == [db.devices[d] EXCEPT ![field] = ColumnValue(field, value)]
             entry == [devicesCache[d] EXCEPT ![field] = value]
  <2>1. devicesCache \in DeviceTable /\ db.devices \in DeviceTable /\ db \in Tables
    BY DEF RegistryInv, ControllersTypeOK, CacheTypeOK, StorageTypeOK, Tables
  <2>2. db.devices[d] # Absent /\ Matches(devicesCache[d], db.devices[d], d \in misread)
    BY <1>3, CachedDevicesMatch DEF EntriesMatch, Registered
  <2>3. devicesCache[d] \in Device /\ db.devices[d] \in Device
    BY <1>3, <2>1, <2>2 DEF DeviceTable
  <2>4. row \in Device /\ entry \in Device
    BY <2>3, WithFieldType
  <2>5. Matches(entry, row, d \in misread')
    <3>1. CASE field = "stamp"
      BY <1>3, <2>2, <2>3, <3>1 DEF Matches, Device, ColumnValue
    <3>2. CASE field = "name"
      BY <1>3, <2>2, <2>3, <3>2 DEF Matches, Device, ColumnValue
    <3>3. CASE field = "group"
      BY <1>3, <2>2, <2>3, <3>3 DEF Matches, Device, ColumnValue
    <3> QED
      BY <3>1, <3>2, <3>3 DEF Settable
  <2>6. db' = [db EXCEPT !.devices[d] = row]
    BY <1>3, <2>2 DEF WithColumn, WithDevice
  <2>7. db'.devices = [db.devices EXCEPT ![d] = row]
    BY <2>1, <2>6 DEF Tables
  <2>8. devicesCache' = [devicesCache EXCEPT ![d] = entry]
    BY <1>3
  <2>9. \A e \in Devices : e # d => (e \in misread' <=> e \in misread)
    BY <1>3
  <2>10. RowWritten(d, row, entry)
    BY <1>3, <2>4, <2>5, <2>7, <2>8, <2>9, AbsentIsNoDevice DEF RowWritten
  <2> QED
    BY <2>4, <2>10 DEF CachedRowStep
<1> QED
  BY <1>1, <1>2, <1>3 DEF UpdateDevice

LEMMA AddRow ==
  ASSUME NoLostTransactions, RegistryInv, NEW t \in Threads, Add(t)
  PROVE  CachedRowStep
<1> USE StatementsOnOneConnection
<1> DEFINE d == task[t].device
           device == [name |-> NoName, group |-> NoName, stamp |-> task[t].stamp]
           row == [device EXCEPT !.stamp = Second(@)]
<1>0. task[t] \in Tasks
  BY DEF RegistryInv, TasksTypeOK
<1>1. d \in Devices /\ device \in Device /\ row \in Device
  BY <1>0, AddedType
<1>2. UNCHANGED <<misread, fillFailed>>
  BY DEF Add
<1>3. CASE UNCHANGED <<storageVars, devicesCache>>
  BY <1>2, <1>3 DEF CachedRowStep, RowsKept, storageVars
<1>4. CASE Fails("write") /\ UNCHANGED devicesCache
  BY <1>2, <1>4 DEF CachedRowStep, RowsKept
<1>5. ASSUME NEW c \in Connections, c.rows.devices[d] = Absent,
             Leaves(c, WithDevice(c, d, row)),
             devicesCache' = [devicesCache EXCEPT ![d] = device]
      PROVE  CachedRowStep
  <2>1. db.devices[d] = Absent /\ db' = [db EXCEPT !.devices[d] = row]
    BY <1>5 DEF WithDevice
  <2>2. db'.devices = [db.devices EXCEPT ![d] = row]
    BY <2>1 DEF RegistryInv, StorageTypeOK, Tables
  <2>3. Matches(device, row, d \in misread')
    BY DEF Matches
  <2>4. RowWritten(d, row, device)
    BY <1>1, <1>2, <1>5, <2>1, <2>2, <2>3, AbsentIsNoDevice DEF RowWritten
  <2> QED
    BY <1>1, <2>4 DEF CachedRowStep
<1>6. ASSUME NEW c \in Connections, Leaves(c, c.rows), UNCHANGED devicesCache
      PROVE  CachedRowStep
  BY <1>2, <1>6 DEF CachedRowStep, RowsKept
<1> QED
  BY <1>3, <1>4, <1>5, <1>6 DEF Add

LEMMA RemoveDeviceRow ==
  ASSUME NoLostTransactions, RegistryInv, NEW t \in Threads, NEW d \in Devices,
         RemoveDevice(t, d)
  PROVE  CachedRowStep
<1> USE StatementsOnOneConnection
<1>0. UNCHANGED fillFailed /\ devicesCache[d] # Absent
  BY DEF RemoveDevice
<1>1. CASE Fails("write") /\ UNCHANGED <<devicesCache, misread, devicesMutex, task, excused>>
  BY <1>0, <1>1 DEF CachedRowStep, RowsKept
<1>2. ASSUME NEW c \in Connections, Leaves(c, WithDevice(c, d, Absent)), Forget(d)
      PROVE  CachedRowStep
  <2>1. db' = [db EXCEPT !.devices[d] = Absent]
    BY <1>2 DEF WithDevice
  <2>2. db'.devices = [db.devices EXCEPT ![d] = Absent]
    BY <2>1 DEF RegistryInv, StorageTypeOK, Tables
  <2>3. RowWritten(d, Absent, Absent)
    BY <1>0, <1>2, <2>2 DEF RowWritten, Forget
  <2> QED
    BY <2>3 DEF CachedRowStep
<1> QED
  BY <1>1, <1>2 DEF RemoveDevice

(* The statements on the settings and the commands touch no device.         *)
LEMMA AttachedRows ==
  ASSUME NoLostTransactions, RegistryInv, NEW k \in Kinds, NEW d \in Devices,
         UNCHANGED cacheVars,
         \/ RemoveAttached(k, d)
         \/ \E content \in Contents : AddOrUpdateAttached(k, d, content)
  PROVE  CachedRowStep
<1> USE StatementsOnOneConnection DEF CachedRowStep, RowsKept, cacheVars
<1>1. CASE db' = db
  BY <1>1
<1>2. ASSUME NEW c \in Connections, NEW content, Leaves(c, WithAttached(c, k, d, content))
      PROVE  CachedRowStep
  <2>1. db' = [db EXCEPT !.attached[k][d] = content]
    BY <1>2 DEF WithAttached
  <2>2. db'.devices = db.devices
    BY <2>1 DEF RegistryInv, StorageTypeOK, Tables
  <2> QED
    BY <2>2
<1> QED
  BY <1>1, <1>2 DEF RemoveAttached, AddOrUpdateAttached, storageVars

LEMMA NextRows ==
  ASSUME NoLostTransactions, RegistryInv, CachedDevicesStored, [Next]_vars
  PROVE  CachedRowStep \/ Restart
<1>1. CASE ListDevices \/ \E t \in Threads : LookUp(t)
  BY <1>1, RefillRows DEF ListDevices, LookUp, CachedRowStep
<1>2. ASSUME NEW t \in Threads, LogRefusal(t) PROVE CachedRowStep
  BY <1>2 DEF LogRefusal, CachedRowStep, RowsKept, storageVars, cacheVars
<1>3. ASSUME NEW t \in Threads, UpdateDeviceTimestamp(t) PROVE CachedRowStep
  <2>1. task[t].device \in Devices /\ Settable("stamp", task[t].stamp)
    BY <1>3 DEF UpdateDeviceTimestamp, RegistryInv, TasksTypeOK, Tasks, Idle, Settable
  <2> QED
    BY <1>3, <2>1, UpdateDeviceRow DEF UpdateDeviceTimestamp
<1>4. ASSUME NEW t \in Threads, RemoveSettings(t) \/ RemoveCommands(t) PROVE CachedRowStep
  <2>1. task[t].device \in Devices
    BY <1>4 DEF RemoveSettings, RemoveCommands, RegistryInv, TasksTypeOK, Tasks, Idle
  <2>2. UNCHANGED cacheVars /\ \E k \in Kinds : RemoveAttached(k, task[t].device)
    BY <1>4 DEF RemoveSettings, RemoveCommands, Kinds
  <2> QED
    BY <2>1, <2>2, AttachedRows
<1>5. ASSUME NEW t \in Threads, NEW d \in Devices, NEW s \in Stamps,
             StartRegistration(t, d, s)
      PROVE  CachedRowStep
  BY <1>5 DEF StartRegistration, CachedRowStep, RowsKept, storageVars, cacheVars
<1>6. ASSUME NEW d \in Devices, ClientUpdates(d) PROVE CachedRowStep
  BY <1>6, ClientUpdatesField, UpdateDeviceRow
<1>7. ASSUME NEW d \in Devices, NEW k \in Kinds, NEW content \in Contents,
             AddOrUpdateAttached(k, d, content)
      PROVE  CachedRowStep
  <2>1. UNCHANGED cacheVars
    BY <1>7 DEF AddOrUpdateAttached
  <2> QED
    BY <1>7, <2>1, AttachedRows
<1>8. CASE OtherTransaction
  BY <1>8, StatementsOnOneConnection
  DEF OtherTransaction, registryVars, cacheVars, CachedRowStep, RowsKept
<1>9. CASE RemovePhantom
  BY <1>9, StatementsOnOneConnection DEF RemovePhantom, CachedRowStep, RowsKept
<1>10. CASE UNCHANGED vars
  BY <1>10 DEF vars, storageVars, registryVars, cacheVars, CachedRowStep, RowsKept
<1> QED
  BY <1>1, <1>2, <1>3, <1>4, <1>5, <1>6, <1>7, <1>8, <1>9, <1>10, AddRow, RemoveDeviceRow
  DEF Next, ThreadStep, ClientUpdates

(* A cache that has just been filled from the rows: its entries match, and  *)
(* it lacks no row that can be read.                                       *)
LEMMA FilledWithRows ==
  ASSUME NEW rows \in DeviceTable, FilledWith(rows)
  PROVE  \A d \in Devices :
           /\ devicesCache'[d] # Absent =>
                rows[d] # Absent /\ Matches(devicesCache'[d], rows[d], d \in misread')
           /\ rows[d] # Absent /\ devicesCache'[d] = Absent => ~Readable(rows[d])
<1> SUFFICES ASSUME NEW d \in Devices
             PROVE  /\ devicesCache'[d] # Absent =>
                         rows[d] # Absent /\ Matches(devicesCache'[d], rows[d], d \in misread')
                    /\ rows[d] # Absent /\ devicesCache'[d] = Absent => ~Readable(rows[d])
  OBVIOUS
<1>1. CASE rows[d] # Absent /\ Readable(rows[d])
  <2>1. rows[d] \in Device
    BY <1>1 DEF DeviceTable
  <2>2. devicesCache'[d] = ReadBack(rows[d])
    BY <1>1 DEF FilledWith
  <2>3. d \in misread' <=> ReadBack(rows[d]).group # rows[d].group
    BY <1>1 DEF FilledWith
  <2>4. Second(TimeFromInt(rows[d].stamp)) = rows[d].stamp
    BY <2>1, SecondOfTime DEF Device
  <2>5. ReadBack(rows[d]) \in Device
    BY <2>1, SecondOfTime DEF Device, ReadBack
  <2>6. Matches(ReadBack(rows[d]), rows[d], ReadBack(rows[d]).group # rows[d].group)
    BY <2>4 DEF Matches, ReadBack
  <2> QED
    BY <1>1, <2>2, <2>3, <2>5, <2>6, AbsentIsNoDevice
<1>2. CASE ~(rows[d] # Absent /\ Readable(rows[d]))
  BY <1>2 DEF FilledWith
<1> QED
  BY <1>1, <1>2

LEMMA NextCachedDevices ==
  ASSUME NoLostTransactions, RegistryInv, CachedDevicesStored, [Next]_vars
  PROVE  CachedDevicesStored'
<1> USE DEF EntriesMatch, Registered
<1> SUFFICES EntriesMatch'
  BY DEF CachedDevicesStored, Matches
<1> EntriesMatch
  BY CachedDevicesMatch
<1>0. /\ devicesCache \in DeviceTable
      /\ db.devices \in DeviceTable /\ durable.devices \in DeviceTable
  BY DEF RegistryInv, ControllersTypeOK, CacheTypeOK, StorageTypeOK, Tables
<1>1. ASSUME NEW rows \in DeviceTable, db'.devices = rows, FilledWith(rows)
      PROVE  EntriesMatch'
  BY <1>1, FilledWithRows
<1>2. CASE RowsKept
  BY <1>0, <1>1, <1>2 DEF RowsKept
<1>3. ASSUME NEW d \in Devices, NEW row \in Device \cup {Absent},
             NEW entry \in Device \cup {Absent}, RowWritten(d, row, entry)
      PROVE  EntriesMatch'
  <2> SUFFICES ASSUME NEW e \in Devices, devicesCache'[e] # Absent
               PROVE  /\ db'.devices[e] # Absent
                      /\ Matches(devicesCache'[e], db'.devices[e], e \in misread')
    OBVIOUS
  <2>1. CASE e = d
    BY <1>0, <1>3, <2>1 DEF RowWritten, DeviceTable
  <2>2. CASE e # d
    <3>1. devicesCache'[e] = devicesCache[e] /\ db'.devices[e] = db.devices[e]
      BY <1>0, <1>3, <2>2 DEF RowWritten, DeviceTable
    <3>2. e \in misread' <=> e \in misread
      BY <1>3, <2>2 DEF RowWritten
    <3> QED
      BY <3>1, <3>2 DEF Matches
  <2> QED
    BY <2>1, <2>2
<1>4. CASE Restart
  <2>1. db' = durable
    BY <1>4 DEF Restart, Reconnects
  <2>2. CASE FilledWith(durable.devices)
    BY <1>0, <1>1, <2>1, <2>2
  <2>3. CASE devicesCache' = NoDevices
    BY <2>3 DEF NoDevices
  <2> QED
    BY <1>4, <2>2, <2>3 DEF Restart, DevicesConstructed
<1> QED
  BY <1>2, <1>3, <1>4, NextRows DEF CachedRowStep

(***************************************************************************)
(* Whatever SELECTs and writes fail, a device that the cache has is a      *)
(* stored one and has the name and the second of its row, and its group    *)
(* unless a fill has lost it: a fill takes what can be read of the rows,   *)
(* and every UPDATE meets the row of the device it changes in the cache.   *)
(***************************************************************************)
THEOREM CachedDevicesCorrect ==
  NoLostTransactions => (RegistrySpec => []CachedDevicesStored)
<1> SUFFICES ASSUME NoLostTransactions PROVE RegistrySpec => []CachedDevicesStored
  OBVIOUS
<1>1. Init => CachedDevicesStored
  BY DEF Init, CachedDevicesStored, NoDevices
<1>2. RegistryInv /\ CachedDevicesStored /\ [Next]_vars => CachedDevicesStored'
  BY NextCachedDevices
<1>3. RegistrySpec => []RegistryInv
  BY RegistryTypeCorrect, RegistryTypeOKSplit, PTL
<1> QED
  BY <1>1, <1>2, <1>3, PTL DEF RegistrySpec

LEMMA NextHiddenDevices ==
  ASSUME NoLostTransactions, RegistryInv, CachedDevicesStored, HiddenDevicesExplained,
         [Next]_vars
  PROVE  HiddenDevicesExplained'
<1> USE DEF HiddenDevicesExplained, Registered
<1>0. /\ devicesCache \in DeviceTable
      /\ db.devices \in DeviceTable /\ durable.devices \in DeviceTable
  BY DEF RegistryInv, ControllersTypeOK, CacheTypeOK, StorageTypeOK, Tables
<1>1. ASSUME NEW rows \in DeviceTable, db'.devices = rows, FilledWith(rows)
      PROVE  HiddenDevicesExplained'
  BY <1>1, FilledWithRows DEF Readable
<1>2. CASE RowsKept
  <2>1. CASE FilledWith(db.devices)
    BY <1>0, <1>1, <1>2, <2>1 DEF RowsKept
  <2>2. CASE ~FilledWith(db.devices)
    BY <1>2, <2>2 DEF RowsKept, Readable
  <2> QED
    BY <2>1, <2>2
<1>3. ASSUME NEW d \in Devices, NEW row \in Device \cup {Absent},
             NEW entry \in Device \cup {Absent}, RowWritten(d, row, entry)
      PROVE  HiddenDevicesExplained'
  BY <1>0, <1>3 DEF RowWritten, DeviceTable, Readable
<1>4. CASE Restart
  <2>1. db' = durable
    BY <1>4 DEF Restart, Reconnects
  <2>2. CASE FilledWith(durable.devices)
    BY <1>0, <1>1, <2>1, <2>2
  <2>3. CASE fillFailed' = TRUE
    BY <2>3
  <2> QED
    BY <1>4, <2>2, <2>3 DEF Restart, DevicesConstructed
<1> QED
  BY <1>2, <1>3, <1>4, NextRows DEF CachedRowStep

(***************************************************************************)
(* A stored device is hidden by a SELECT that failed or by a row that      *)
(* cannot be read back, and by nothing else: no removal whose DELETE fails *)
(* and no race of registrations takes a stored device out of the cache.    *)
(***************************************************************************)
THEOREM HiddenDevicesCorrect ==
  NoLostTransactions => (RegistrySpec => []HiddenDevicesExplained)
<1> SUFFICES ASSUME NoLostTransactions PROVE RegistrySpec => []HiddenDevicesExplained
  OBVIOUS
<1>1. Init => HiddenDevicesExplained
  BY DEF Init, HiddenDevicesExplained, Registered, NoDevices
<1>2. /\ RegistryInv /\ CachedDevicesStored /\ HiddenDevicesExplained
      /\ [Next]_vars
      => HiddenDevicesExplained'
  BY NextHiddenDevices
<1>3. RegistrySpec => []RegistryInv
  BY RegistryTypeCorrect, RegistryTypeOKSplit, PTL
<1>4. RegistrySpec => []CachedDevicesStored
  BY CachedDevicesCorrect
<1> QED
  BY <1>1, <1>2, <1>3, <1>4, PTL DEF RegistrySpec
------------------------------------------------------------------------------
(* The device of a refused INSERT stays hidden while the refusal is logged: *)
(* its row cannot be read, and only a cached device is changed or removed. *)
RefusedHidden ==
  \A t \in Threads : task[t].step = "refused" =>
    LET d == task[t].device
    IN  Registered(d) /\ devicesCache[d] = Absent /\ ~Readable(db.devices[d])

(* The steps that do not start or end a refusal. *)
LEMMA RowStepKeepsRefused ==
  ASSUME RegistryInv, RefusedHidden, CachedRowStep,
         \A t \in Threads : task'[t].step = "refused" => task'[t] = task[t]
  PROVE  RefusedHidden'
<1> SUFFICES ASSUME NEW t \in Threads, task'[t].step = "refused"
             PROVE  LET d == task[t].device
                    IN  /\ db'.devices[d] # Absent /\ devicesCache'[d] = Absent
                        /\ ~Readable(db'.devices[d])
  BY DEF RefusedHidden, Registered, Readable
<1> DEFINE d == task[t].device
<1>0. /\ devicesCache \in DeviceTable /\ db.devices \in DeviceTable
      /\ task[t] \in Tasks /\ task[t].step = "refused"
  BY DEF RegistryInv, ControllersTypeOK, CacheTypeOK, StorageTypeOK, Tables, TasksTypeOK
<1>1. /\ d \in Devices
      /\ db.devices[d] # Absent /\ devicesCache[d] = Absent /\ ~Readable(db.devices[d])
  BY <1>0 DEF RefusedHidden, Registered, Tasks, Idle
<1>2. CASE RowsKept
  BY <1>1, <1>2 DEF RowsKept, FilledWith
<1>3. ASSUME NEW e \in Devices, NEW row, NEW entry, RowWritten(e, row, entry)
      PROVE  db'.devices[d] = db.devices[d] /\ devicesCache'[d] = devicesCache[d]
  <2>1. d # e
    BY <1>1, <1>3 DEF RowWritten
  <2> QED
    BY <1>0, <1>1, <1>3, <2>1 DEF RowWritten, DeviceTable
<1> QED
  BY <1>1, <1>2, <1>3 DEF CachedRowStep

LEMMA AddRefused ==
  ASSUME NoLostReads, RegistryInv, HiddenDevicesExplained, fillFailed = FALSE, RefusedHidden,
         NEW t \in Threads, Add(t)
  PROVE  RefusedHidden'
<1> DEFINE d == task[t].device
<1>0. task \in [Threads -> Tasks]
  BY DEF RegistryInv, TasksTypeOK
<1>1. NoLostTransactions
  BY DEF NoLostReads, NoLostTransactions
<1>2. d \in Devices
  BY <1>0 DEF Add, Tasks, Idle
<1>3. CASE Finish(t)
  BY <1>0, <1>1, <1>3, AddRow, RowStepKeepsRefused DEF Finish, Idle
<1>4. ASSUME ~AlreadyCached(d), NEW c \in Connections, c.rows.devices[d] # Absent,
             Leaves(c, c.rows), UNCHANGED devicesCache,
             task' = [task EXCEPT ![t] = [step |-> "refused", device |-> d]]
      PROVE  RefusedHidden'
  <2>1. db' = db /\ Registered(d) /\ devicesCache[d] = Absent
    BY <1>4, LeavesRows DEF Registered, AlreadyCached
  <2>2. ~Readable(db.devices[d])
    BY <1>2, <2>1 DEF HiddenDevicesExplained
  <2> QED
    BY <1>0, <1>4, <2>1, <2>2 DEF RefusedHidden, Registered, Readable
<1> QED
  BY <1>3, <1>4 DEF Add

LEMMA NextRefused ==
  ASSUME NoLostReads, RegistryInv, CachedDevicesStored, HiddenDevicesExplained,
         fillFailed = FALSE, RefusedHidden, [Next]_vars
  PROVE  RefusedHidden'
<1>0. NoLostTransactions /\ task \in [Threads -> Tasks]
  BY DEF NoLostReads, NoLostTransactions, RegistryInv, TasksTypeOK
<1>1. ASSUME NEW t \in Threads, Add(t) PROVE RefusedHidden'
  BY <1>1, AddRefused
<1>2. CASE Restart
  BY <1>2 DEF Restart, RefusedHidden, Idle
<1>3. ASSUME ~Restart, \A t \in Threads : task'[t].step = "refused" => task'[t] = task[t]
      PROVE  RefusedHidden'
  BY <1>0, <1>3, NextRows, RowStepKeepsRefused
<1>4. ASSUME NEW t \in Threads, NEW x, task' = [task EXCEPT ![t] = x], x.step # "refused", ~Restart
      PROVE  RefusedHidden'
  BY <1>0, <1>3, <1>4
<1>5. ASSUME NEW t \in Threads, ThreadStep(t), ~Add(t), ~Restart PROVE RefusedHidden'
  <2>1. PICK x : x.step # "refused" /\ task' = [task EXCEPT ![t] = x]
    <3>1. task[t] \in Tasks
      BY <1>0
    <3>2. CASE LookUp(t)
      <4>1. \A s \in {"touch", "add"} : [task[t] EXCEPT !.step = s].step = s
        BY <3>1, <3>2 DEF LookUp, Tasks, Idle
      <4>2. PICK s \in {"touch", "add"} :
              task' = [task EXCEPT ![t] = [task[t] EXCEPT !.step = s]]
        BY <3>2 DEF LookUp
      <4> QED
        BY <4>1, <4>2
    <3>3. CASE RemoveSettings(t)
      <4>1. [task[t] EXCEPT !.step = "removeCommands"].step = "removeCommands"
        BY <3>1, <3>3 DEF RemoveSettings, Tasks, Idle
      <4> QED
        BY <3>3, <4>1 DEF RemoveSettings
    <3>4. CASE LogRefusal(t) \/ UpdateDeviceTimestamp(t) \/ RemoveCommands(t)
      BY <3>4 DEF LogRefusal, UpdateDeviceTimestamp, RemoveCommands, Finish, Idle
    <3> QED
      BY <1>5, <3>2, <3>3, <3>4 DEF ThreadStep
  <2> QED
    BY <1>4, <1>5, <2>1
<1>6. ASSUME NEW t \in Threads, NEW d \in Devices, ~Restart,
             RemoveDevice(t, d) \/ \E s \in Stamps : StartRegistration(t, d, s)
      PROVE  RefusedHidden'
  <2>1. CASE UNCHANGED task
    BY <1>3, <1>6, <2>1
  <2>2. CASE task' = [task EXCEPT ![t] = [step |-> "removeSettings", device |-> d]]
    <3>1. [step |-> "removeSettings", device |-> d].step # "refused"
      OBVIOUS
    <3> QED
      BY <1>4, <1>6, <2>2, <3>1
  <2>3. ASSUME NEW s \in Stamps,
               task' = [task EXCEPT ![t] = [step |-> "get", device |-> d, stamp |-> s]]
        PROVE  RefusedHidden'
    <3>1. [step |-> "get", device |-> d, stamp |-> s].step # "refused"
      OBVIOUS
    <3> QED
      BY <1>4, <1>6, <2>3, <3>1
  <2> QED
    BY <1>6, <2>1, <2>2, <2>3 DEF RemoveDevice, StartRegistration
<1>7. CASE UNCHANGED task /\ ~Restart
  BY <1>3, <1>7
<1> QED
  BY <1>1, <1>2, <1>5, <1>6, <1>7 DEF Next, ListDevices, RemovePhantom, UpdateDeviceName,
     UpdateDeviceGroup, AddOrUpdateAttached, OtherTransaction, registryVars, vars

LEMMA NoFillFails ==
  ASSUME NoLostReads, RegistryInv, CachedDevicesStored, fillFailed = FALSE, [Next]_vars
  PROVE  fillFailed' = FALSE
<1>1. NoLostTransactions /\ "select" \notin Faults
  BY DEF NoLostReads, NoLostTransactions
<1>2. CASE Restart
  BY <1>1, <1>2 DEF Restart, DevicesConstructed, FilledWith
<1>3. CASE CachedRowStep
  BY <1>1, <1>3 DEF CachedRowStep, RowsKept, RowWritten, FilledWith
<1> QED
  BY <1>1, <1>2, <1>3, NextRows

(***************************************************************************)
(* However many messages of an unknown device are processed at once, one   *)
(* of them is inserted and the others find it.  While no SELECT fails the  *)
(* INSERT is refused only for a device whose row cannot be read back.      *)
(***************************************************************************)
THEOREM NoRefusedInsertCorrect == NoLostReads => (RegistrySpec => []NoRefusedInsert)
<1> SUFFICES ASSUME NoLostReads PROVE RegistrySpec => []NoRefusedInsert
  OBVIOUS
<1>0. NoLostTransactions
  BY DEF NoLostReads, NoLostTransactions
<1>1. Init => fillFailed = FALSE /\ RefusedHidden
  BY DEF Init, RefusedHidden, Idle
<1>2. /\ RegistryInv /\ CachedDevicesStored /\ HiddenDevicesExplained
      /\ (fillFailed = FALSE) /\ RefusedHidden
      /\ [Next]_vars
      => (fillFailed = FALSE)' /\ RefusedHidden'
  BY NextRefused, NoFillFails
<1>3. RegistrySpec => []RegistryInv
  BY RegistryTypeCorrect, RegistryTypeOKSplit, PTL
<1>4. RegistrySpec => []CachedDevicesStored /\ []HiddenDevicesExplained
  BY <1>0, CachedDevicesCorrect, HiddenDevicesCorrect
<1>5. RefusedHidden => NoRefusedInsert
  BY DEF RefusedHidden, NoRefusedInsert
<1> QED
  BY <1>1, <1>2, <1>3, <1>4, <1>5, PTL DEF RegistrySpec
==============================================================================
