-------------------------- MODULE DevicesController --------------------------
(***************************************************************************)
(* controllers/DevicesController.cpp: the registry of devices, and the     *)
(* settings and commands it removes with a device.                         *)
(*                                                                         *)
(* Each method holds the controller's mutex over one statement and the     *)
(* change of the cache that follows it, so it is one action here.  Two     *)
(* things take several: Remove, which keeps the mutex while it calls the   *)
(* settings and the commands controller, and a registration, which calls   *)
(* Get and then, in another critical section, what the answer suggests.    *)
(*                                                                         *)
(* Row and cached entry of a device differ: the row has whole seconds, and *)
(* it is read back by looking a column's name up among names and values    *)
(* alike, so that a name or a group can hide a later column.               *)
(***************************************************************************)
EXTENDS Naturals, FiniteSets, Storage

CONSTANTS
  Threads,    \* threads of the server
  Devices,    \* ids of devices
  Names,      \* what a client may set: a name or a group
  NoName,     \* the empty text a device is registered with
  Stamps,     \* times of messages, in ticks of the clock
  TPS,        \* ticks of the clock in a second
  Contents,   \* settings or commands of a device
  Absent,     \* no row, no entry
  NoThread    \* nobody holds the mutex

ASSUME RegistryAssumption ==
  /\ NoThread \notin Threads
  /\ IsFiniteSet(Devices)
  /\ NoName \notin Names \cup {"grp", "timestamp"}
  /\ Stamps \subseteq Nat
  /\ TPS \in Nat \ {0}
  /\ Absent \notin Contents
  /\ Absent \notin [name : Names \cup {NoName}, group : Names \cup {NoName}, stamp : Nat]

(* A device, as the cache has it, and its row, which has the same fields    *)
(* and counts its stamp in seconds.                                        *)
Device == [name : Names \cup {NoName}, group : Names \cup {NoName}, stamp : Nat]
DeviceTable == [Devices -> Device \cup {Absent}]
NoDevices == [d \in Devices |-> Absent]

(* SettingsController and CommandsController keep a table with a cache      *)
(* each, by the id of the device, and share their code.                    *)
Kinds == {"settings", "commands"}
Attached == [Kinds -> [Devices -> Contents \cup {Absent}]]
NothingAttached == [k \in Kinds |-> NoDevices]

VARIABLES
  devicesCache,    \* DevicesController::_cache, its entries of stored devices
  phantoms,        \* how many entries it has beside them, under random ids
  devicesMutex,    \* the thread in the middle of Remove, if there is one
  attachedCache,   \* SettingsController::_cache and CommandsController::_cache
  task,            \* what each thread is doing
  excused,         \* history: a device's settings or commands may outlive it
  misread,         \* history: the cached devices that were read without their group
  fillFailed       \* history: the last SELECT for the cache of devices failed

cacheVars == <<devicesCache, phantoms, misread, fillFailed>>
registryVars == <<cacheVars, devicesMutex, attachedCache, task, excused>>

Idle == [step |-> "idle"]

Tasks ==
  {Idle}
    \cup [step : {"get", "add", "touch"}, device : Devices, stamp : Stamps]
    \cup [step : {"removeSettings", "removeCommands", "refused"}, device : Devices]

Registered(d) == db.devices[d] # Absent

(* Thread t has removed device d, and not all that is attached to it.       *)
Removing(t, d) ==
  /\ task[t].step \in {"removeSettings", "removeCommands"}
  /\ task[t].device = d

(* A device's row, or the content another controller has for it, changed.   *)
WithDevice(c, d, row) == [c.rows EXCEPT !.devices[d] = row]
WithAttached(c, k, d, content) == [c.rows EXCEPT !.attached[k][d] = content]

-----------------------------------------------------------------------------
(* TimeHelper::TimeToInt and TimeFromInt. *)
Second(tick) == tick \div TPS
TimeFromInt(second) == second * TPS

(* FromDbStrings of a device.  The columns are id, type, name, grp and      *)
(* timestamp: a name "grp" is found where the column's name was meant, and *)
(* leaves the device without its group ...                                 *)
ReadBack(row) ==
  [name  |-> row.name,
   group |-> IF row.name = "grp" THEN NoName ELSE row.group,
   stamp |-> TimeFromInt(row.stamp)]

(* ... and a name or a group "timestamp" leaves it without its time, and    *)
(* what is read is a device with a random id, of no known type.            *)
Readable(row) == "timestamp" \notin {row.name, row.group}

(* The cache is filled when it is empty, and only then. *)
FilledWith(rows) ==
  LET read == {d \in Devices : rows[d] # Absent /\ Readable(rows[d])}
  IN  /\ devicesCache' = [d \in Devices |-> IF d \in read THEN ReadBack(rows[d]) ELSE Absent]
      /\ phantoms' = Cardinality({d \in Devices : rows[d] # Absent} \ read)
      /\ misread' = {d \in read : ReadBack(rows[d]).group # rows[d].group}
      /\ fillFailed' = FALSE

FillCache ==
  \/ \E c \in Connections : FilledWith(c.rows.devices) /\ Leaves(c, c.rows)
  \/ Fails("select") /\ fillFailed' = TRUE /\ UNCHANGED <<devicesCache, phantoms, misread>>

(* List and Get fill a cache that is empty: a phantom is an entry, too. *)
RefillIfEmpty ==
  IF devicesCache = NoDevices /\ phantoms = 0
  THEN FillCache
  ELSE UNCHANGED <<cacheVars, storageVars>>

(* List, and Get for a client. *)
ListDevices ==
  /\ devicesMutex = NoThread
  /\ RefillIfEmpty
  /\ UNCHANGED <<devicesMutex, attachedCache, task, excused>>

(* DeviceRegistrationProcessor: a message of device d was received at s. *)
StartRegistration(t, d, s) ==
  /\ task[t] = Idle
  /\ task' = [task EXCEPT ![t] = [step |-> "get", device |-> d, stamp |-> s]]
  /\ UNCHANGED <<storageVars, cacheVars, devicesMutex, attachedCache, excused>>

(* Get, and the choice of the processor. *)
LookUp(t) ==
  /\ task[t].step = "get"
  /\ devicesMutex = NoThread
  /\ RefillIfEmpty
  /\ task' = [task EXCEPT ![t].step =
       IF devicesCache'[task[t].device] # Absent THEN "touch" ELSE "add"]
  /\ UNCHANGED <<devicesMutex, attachedCache, excused>>

Finish(t) == task' = [task EXCEPT ![t] = Idle]

(* Mutant: Add relies on the processor's Get.                               *)
NeverCached(d) == FALSE

(* Add looks again under the lock: another thread may have been faster.     *)
AlreadyCached(d) == devicesCache[d] # Absent

(* Add.  The row has an id, a type and the second; the device has neither a *)
(* name nor a group.  The INSERT is refused if the table has the device    *)
(* and the cache does not.                                                 *)
Add(t) ==
  LET d == task[t].device
      device == [name |-> NoName, group |-> NoName, stamp |-> task[t].stamp]
      row == [device EXCEPT !.stamp = Second(@)]
  IN  /\ task[t].step = "add"
      /\ devicesMutex = NoThread
      /\ \/ /\ AlreadyCached(d)
            /\ Finish(t)
            /\ UNCHANGED <<storageVars, devicesCache>>
         \/ /\ ~AlreadyCached(d)
            /\ \E c \in Connections :
                 IF c.rows.devices[d] = Absent
                 THEN /\ Leaves(c, WithDevice(c, d, row))
                      /\ devicesCache' = [devicesCache EXCEPT ![d] = device]
                      /\ Finish(t)
                 ELSE /\ Leaves(c, c.rows)
                      /\ task' = [task EXCEPT ![t] = [step |-> "refused", device |-> d]]
                      /\ UNCHANGED devicesCache
         \/ /\ ~AlreadyCached(d)
            /\ Fails("write")
            /\ Finish(t)
            /\ UNCHANGED devicesCache
      /\ UNCHANGED <<phantoms, misread, fillFailed, devicesMutex, attachedCache, excused>>

(* The refused INSERT is logged and nothing else happens. *)
LogRefusal(t) ==
  /\ task[t].step = "refused"
  /\ Finish(t)
  /\ UNCHANGED <<storageVars, cacheVars, devicesMutex, attachedCache, excused>>

(* What the UPDATE writes for a field of the device. *)
ColumnValue(field, value) == IF field = "stamp" THEN Second(value) ELSE value

(* A row with one column changed; an UPDATE of a missing row succeeds. *)
WithColumn(c, d, field, value) ==
  LET row == c.rows.devices[d]
  IN  WithDevice(c, d, IF row = Absent THEN Absent
                       ELSE [row EXCEPT ![field] = ColumnValue(field, value)])

(* Mutant: the cache is changed before the table is.                        *)
UpdateDeviceCacheFirst(d, field, value) ==
  /\ devicesCache[d] # Absent
  /\ devicesCache' = [devicesCache EXCEPT ![d] = [@ EXCEPT ![field] = value]]
  /\ Fails("write") \/ \E c \in Connections : Leaves(c, WithColumn(c, d, field, value))
  /\ UNCHANGED <<phantoms, misread, fillFailed>>

(* UPDATE of one column, and of the same field of the cached device.  A     *)
(* group that was not read is known again once it is set.                  *)
UpdateDevice(d, field, value) ==
  \/ /\ devicesCache[d] = Absent
     /\ UNCHANGED <<storageVars, cacheVars>>
  \/ /\ devicesCache[d] # Absent
     /\ \E c \in Connections : Leaves(c, WithColumn(c, d, field, value))
     /\ devicesCache' = [devicesCache EXCEPT ![d] = [@ EXCEPT ![field] = value]]
     /\ misread' = IF field = "group" THEN misread \ {d} ELSE misread
     /\ UNCHANGED <<phantoms, fillFailed>>
  \/ /\ devicesCache[d] # Absent
     /\ Fails("write")
     /\ UNCHANGED cacheVars

UpdateDeviceTimestamp(t) ==
  /\ task[t].step = "touch"
  /\ devicesMutex = NoThread
  /\ UpdateDevice(task[t].device, "stamp", task[t].stamp)
  /\ Finish(t)
  /\ UNCHANGED <<devicesMutex, attachedCache, excused>>

(* The service refuses an empty name ... *)
UpdateDeviceName(d, name) ==
  /\ devicesMutex = NoThread
  /\ UpdateDevice(d, "name", name)
  /\ UNCHANGED <<devicesMutex, attachedCache, task, excused>>

(* ... and takes an empty group. *)
UpdateDeviceGroup(d, group) ==
  /\ devicesMutex = NoThread
  /\ UpdateDevice(d, "group", group)
  /\ UNCHANGED <<devicesMutex, attachedCache, task, excused>>

-----------------------------------------------------------------------------
(* AddOrUpdate of the settings and of the commands controller, whether the  *)
(* device is registered or not.                                            *)
AddOrUpdateAttached(k, d, content) ==
  /\ \/ /\ \E c \in Connections : Leaves(c, WithAttached(c, k, d, content))
        /\ attachedCache' = [attachedCache EXCEPT ![k][d] = content]
        /\ excused' = [excused EXCEPT ![d] = @ \/ ~Registered(d)]
     \/ Fails("write") /\ UNCHANGED <<attachedCache, excused>>
  /\ UNCHANGED <<cacheVars, devicesMutex, task>>

(* Mutant: the settings and the commands are removed without the mutex.     *)
ReleaseMutex(t) == UNCHANGED devicesMutex

(* The lock_guard of Remove spans the calls of the other controllers.       *)
KeepMutex(t) == devicesMutex' = t

(* The entry of a device leaves the cache. *)
Forget(d) ==
  /\ devicesCache' = [devicesCache EXCEPT ![d] = Absent]
  /\ misread' = misread \ {d}

(* Mutant: the device leaves the cache whether the DELETE fails or not.     *)
RemoveDeviceAnyway(t, d) ==
  /\ task[t] = Idle
  /\ devicesMutex = NoThread
  /\ devicesCache[d] # Absent
  /\ Fails("write") \/ \E c \in Connections : Leaves(c, WithDevice(c, d, Absent))
  /\ Forget(d)
  /\ KeepMutex(t)
  /\ task' = [task EXCEPT ![t] = [step |-> "removeSettings", device |-> d]]
  /\ excused' = [excused EXCEPT ![d] = FALSE]
  /\ UNCHANGED <<phantoms, fillFailed, attachedCache>>

(* DevicesController::Remove: the device goes first ... *)
RemoveDevice(t, d) ==
  /\ task[t] = Idle
  /\ devicesMutex = NoThread
  /\ devicesCache[d] # Absent
  /\ \/ /\ \E c \in Connections : Leaves(c, WithDevice(c, d, Absent))
        /\ Forget(d)
        /\ KeepMutex(t)
        /\ task' = [task EXCEPT ![t] = [step |-> "removeSettings", device |-> d]]
        /\ excused' = [excused EXCEPT ![d] = FALSE]
     \/ /\ Fails("write")
        /\ UNCHANGED <<devicesCache, misread, devicesMutex, task, excused>>
  /\ UNCHANGED <<phantoms, fillFailed, attachedCache>>

(* A client may remove a phantom of the list: the DELETE meets no row, and  *)
(* nothing is attached to a random id.                                     *)
RemovePhantom ==
  /\ devicesMutex = NoThread
  /\ phantoms > 0
  /\ \/ (\E c \in Connections : Leaves(c, c.rows)) /\ phantoms' = phantoms - 1
     \/ Fails("write") /\ UNCHANGED phantoms
  /\ UNCHANGED <<devicesCache, misread, fillFailed, devicesMutex, attachedCache, task, excused>>

(* Mutant: a device without cached content is the end of the removal.       *)
RemoveAttachedFromCache(k, d) ==
  /\ attachedCache' = [attachedCache EXCEPT ![k][d] = Absent]
  /\ UNCHANGED <<storageVars, excused>>

(* ... and what the two controllers answer is not looked at. *)
RemoveAttached(k, d) ==
  \/ /\ attachedCache[k][d] = Absent
     /\ UNCHANGED <<storageVars, attachedCache, excused>>
  \/ /\ attachedCache[k][d] # Absent
     /\ \E c \in Connections : Leaves(c, WithAttached(c, k, d, Absent))
     /\ attachedCache' = [attachedCache EXCEPT ![k][d] = Absent]
     /\ UNCHANGED excused
  \/ /\ attachedCache[k][d] # Absent
     /\ Fails("write")
     /\ excused' = [excused EXCEPT ![d] = TRUE]
     /\ UNCHANGED attachedCache

RemoveSettings(t) ==
  /\ task[t].step = "removeSettings"
  /\ RemoveAttached("settings", task[t].device)
  /\ task' = [task EXCEPT ![t].step = "removeCommands"]
  /\ UNCHANGED <<cacheVars, devicesMutex>>

(* Mutant: only the settings are removed with the device.                   *)
ForgetCommands(t) ==
  /\ task[t].step = "removeCommands"
  /\ devicesMutex' = NoThread
  /\ Finish(t)
  /\ UNCHANGED <<storageVars, cacheVars, attachedCache, excused>>

RemoveCommands(t) ==
  /\ task[t].step = "removeCommands"
  /\ RemoveAttached("commands", task[t].device)
  /\ devicesMutex' = NoThread
  /\ Finish(t)
  /\ UNCHANGED cacheVars

(* The constructors of the three controllers fill the caches, if they can.  *)
DevicesConstructed ==
  \/ FilledWith(durable.devices)
  \/ /\ "select" \in Faults
     /\ devicesCache' = NoDevices
     /\ phantoms' = 0
     /\ misread' = {}
     /\ fillFailed' = TRUE

Constructed(rows) == {rows} \cup {NoDevices : f \in Faults \cap {"select"}}

Restart ==
  /\ "crash" \in Faults
  /\ Reconnects
  /\ DevicesConstructed
  /\ \E s \in Constructed(durable.attached["settings"]),
        c \in Constructed(durable.attached["commands"]) :
       attachedCache' = [settings |-> s, commands |-> c]
  /\ devicesMutex' = NoThread
  /\ task' = [t \in Threads |-> Idle]
  /\ excused' = [d \in Devices |->
       excused[d] \/ txOpen \/ \E t \in Threads : Removing(t, d)]

(* Transactions of the scenarios controller on the same connection. *)
OtherTransaction ==
  /\ \E ok \in BOOLEAN : Begin(ok) \/ Commit(ok)
  /\ UNCHANGED registryVars

Init ==
  /\ db = [devices |-> NoDevices, attached |-> NothingAttached]
  /\ durable = db
  /\ txOpen = FALSE
  /\ devicesCache = NoDevices
  /\ phantoms = 0
  /\ misread = {}
  /\ fillFailed = FALSE
  /\ devicesMutex = NoThread
  /\ attachedCache = NothingAttached
  /\ task = [t \in Threads |-> Idle]
  /\ excused = [d \in Devices |-> FALSE]

ThreadStep(t) ==
  \/ LookUp(t) \/ Add(t) \/ LogRefusal(t) \/ UpdateDeviceTimestamp(t)
  \/ RemoveSettings(t) \/ RemoveCommands(t)

Next ==
  \/ ListDevices
  \/ RemovePhantom
  \/ \E t \in Threads :
       \/ ThreadStep(t)
       \/ \E d \in Devices : RemoveDevice(t, d) \/ \E s \in Stamps : StartRegistration(t, d, s)
  \/ \E d \in Devices :
       \/ \E name \in Names : UpdateDeviceName(d, name)
       \/ \E group \in Names \cup {NoName} : UpdateDeviceGroup(d, group)
       \/ \E k \in Kinds, content \in Contents : AddOrUpdateAttached(k, d, content)
  \/ OtherTransaction
  \/ Restart

vars == <<storageVars, registryVars>>

RegistrySpec == Init /\ [][Next]_vars

-----------------------------------------------------------------------------
(* Every variable keeps its type, and the mutex is held exactly while its   *)
(* holder is in the middle of Remove.                                      *)
RegistryTypeOK ==
  /\ {db, durable} \subseteq [devices : DeviceTable, attached : Attached]
  /\ txOpen \in BOOLEAN
  /\ devicesCache \in DeviceTable
  /\ phantoms \in Nat
  /\ misread \subseteq Devices
  /\ fillFailed \in BOOLEAN
  /\ attachedCache \in Attached
  /\ devicesMutex \in Threads \cup {NoThread}
  /\ task \in [Threads -> Tasks]
  /\ excused \in [Devices -> BOOLEAN]
  /\ \A t \in Threads :
       (\E d \in Devices : Removing(t, d)) <=> devicesMutex = t

(* Without failing SELECTs and lost transactions, the caches of settings    *)
(* and commands are their tables between any two steps: they change with   *)
(* their rows, each under a mutex of its own, with and without the         *)
(* devices' mutex (SettingsController.cpp:43-44 and 63-64).                *)
AttachedCachesAreTables == attachedCache = db.attached

(* Remove takes the settings and the commands of a device away with it.     *)
(* What is left behind by a removal that is over was stored after the       *)
(* device had gone, or survives because a DELETE failed (its result is      *)
(* ignored) or the server stopped half-way or in a transaction.            *)
OrphansExplained ==
  \A d \in Devices :
    (~Registered(d) /\ \E k \in Kinds : db.attached[k][d] # Absent)
      => excused[d] \/ \E t \in Threads : Removing(t, d)

(* Two messages of a device nobody knows may be registered at the same      *)
(* time, and no INSERT ever meets the row of another: one is refused, time *)
(* after time, only for a device whose stored row cannot be read back,     *)
(* which no Get finds (DevicesController.cpp:32, DatabaseMarshaling.cpp:33). *)
NoRefusedInsert ==
  \A t \in Threads : task[t].step = "refused" =>
    Registered(task[t].device) /\ ~Readable(db.devices[task[t].device])

(* Whatever SELECTs and writes fail, a device the cache has is a stored     *)
(* one, with the name and the second of its row and with its group, unless *)
(* the group was lost when the cache was filled: then it has none until    *)
(* one is set (DevicesController.cpp:82-84, DatabaseMarshaling.cpp:30-37). *)
CachedDevicesStored ==
  \A d \in Devices : devicesCache[d] # Absent =>
    LET row == db.devices[d]
        device == devicesCache[d]
    IN  /\ Registered(d)
        /\ device.name = row.name
        /\ Second(device.stamp) = row.stamp
        /\ device.group = IF d \in misread THEN NoName ELSE row.group

(* A stored device is missing in the cache only because the last SELECT     *)
(* for the cache failed or because its row cannot be read back.  Nothing   *)
(* else hides one: no removal whose DELETE failed, no refused registration *)
(* and no race (DevicesController.cpp:63-64 and 151-161).                  *)
HiddenDevicesExplained ==
  \A d \in Devices :
    Registered(d) /\ devicesCache[d] = Absent => fillFailed \/ ~Readable(db.devices[d])
=============================================================================
