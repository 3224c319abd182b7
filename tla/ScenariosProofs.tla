--------------------------- MODULE ScenariosProofs ---------------------------
(***************************************************************************)
(* Proofs about the events controller, and about the scenarios and the     *)
(* handlers of their requests, which call it: for any number of threads,   *)
(* events and scenarios, types and mutexes, that each cache is its table,  *)
(* what an activation and a leaked transaction do to the file, and that    *)
(* activations are atomic to a reader of the file.                         *)
(***************************************************************************)
EXTENDS Scenarios, StorageProofs

(* The events controller by itself.                                         *)

(* A thread's call moves to another step of its method.                     *)
LEMMA GotoCall ==
  ASSUME NEW t \in Threads, NEW s \in Steps,
         call \in [Threads -> Calls], call[t] # NoCall, Goto(t, s)
  PROVE  /\ call' \in [Threads -> Calls]
         /\ call'[t].step = s
         /\ \A u \in Threads : u # t => call'[u] = call[u]
<1>1. [call[t] EXCEPT !.step = s] \in Calls
  BY DEF Calls, NoCall, Steps
<1>2. [call[t] EXCEPT !.step = s].step = s
  BY DEF Calls, NoCall
<1> QED
  BY <1>1, <1>2 DEF Goto

(* A call that is under way is not NoCall.                                  *)
LEMMA StepCall ==
  ASSUME NEW t \in Threads, call[t].step \in Steps
  PROVE  call[t] # NoCall
BY DEF Steps, NoCall

(***************************************************************************)
(* T is a type of the tables with a field for Events.  The lemmas hold for *)
(* every such type: for the component by itself, whose only table is       *)
(* Events, and for the server, which has others beside it.                 *)
(***************************************************************************)
HoldsEvents(T) ==
  /\ \A r \in T : r.events \in EventTable
  /\ \A r \in T, id \in EventIds, ev \in Event \cup {Absent} :
       [r EXCEPT !.events[id] = ev] \in T

EventsTypeOK(T) ==
  /\ StorageTypeOK(T)
  /\ eventsCache \in EventTable
  /\ eventsMutex \in Threads \cup {NoThread}
  /\ call \in [Threads -> Calls]
  /\ listed \in [Threads -> SUBSET EventIds]

LEMMA WithEventType ==
  ASSUME NEW T, HoldsEvents(T), StorageTypeOK(T), NEW c \in Connections, NEW id \in EventIds,
         NEW ev \in Event \cup {Absent}
  PROVE  WithEvent(c, id, ev) \in T
<1>1. c.rows \in T
  BY ConnectionType
<1> QED
  BY <1>1 DEF WithEvent, HoldsEvents

LEMMA FillCacheType ==
  ASSUME NEW T, HoldsEvents(T), StorageTypeOK(T), eventsCache \in EventTable, FillCache
  PROVE  StorageTypeOK(T)' /\ eventsCache' \in EventTable
<1>1. CASE \E c \in Connections : eventsCache' = c.rows.events /\ Leaves(c, c.rows)
  BY <1>1, ConnectionType, LeavesType DEF HoldsEvents
<1>2. CASE Fails("select") /\ UNCHANGED eventsCache
  BY <1>2, FailsType
<1> QED
  BY <1>1, <1>2 DEF FillCache
------------------------------------------------------------------------------
LEMMA UpdateImplType ==
  ASSUME NEW T, HoldsEvents(T), StorageTypeOK(T), eventsCache \in EventTable, NEW t \in Threads,
         NEW id \in EventIds, NEW ev \in Event, UpdateImpl(t, id, ev)
  PROVE  /\ StorageTypeOK(T)'
         /\ eventsCache' \in EventTable
         /\ Unlock(t, "ok") \/ Unlock(t, "failed")
<1>1. CASE Fails("write") /\ Unlock(t, "failed") /\ UNCHANGED eventsCache
  BY <1>1, FailsType
<1>2. ASSUME NEW c \in Connections,
             Leaves(c, IF c.rows.events[id] = Absent THEN c.rows ELSE WithEvent(c, id, ev)),
             eventsCache' = [eventsCache EXCEPT ![id] = ev],
             Unlock(t, "ok")
      PROVE  StorageTypeOK(T)' /\ eventsCache' \in EventTable
  <2>1. c.rows \in T /\ WithEvent(c, id, ev) \in T
    BY ConnectionType, WithEventType
  <2>2. eventsCache' \in EventTable
    BY <1>2 DEF EventTable
  <2> QED
    BY <1>2, <2>1, <2>2, LeavesType
<1> QED
  BY <1>1, <1>2 DEF UpdateImpl
------------------------------------------------------------------------------
(* Every step of a method keeps the types.                                  *)
LEMMA EventsStepType ==
  ASSUME NEW T, HoldsEvents(T), EventsTypeOK(T), NEW t \in Threads, EventsStep(t)
  PROVE  EventsTypeOK(T)'
<1> USE DEF EventsTypeOK
<1>c. ASSUME UNCHANGED storageVars PROVE StorageTypeOK(T)'
  BY <1>c DEF StorageTypeOK, storageVars
<1>d. ASSUME NEW s \in Steps, Unlock(t, s), call[t] # NoCall
      PROVE  eventsMutex' \in Threads \cup {NoThread} /\ call' \in [Threads -> Calls]
  BY <1>d, GotoCall DEF Unlock
<1>e. "ok" \in Steps /\ "failed" \in Steps /\ "locked" \in Steps /\ "refill" \in Steps
  BY DEF Steps
<1>1. CASE EnterEvents(t)
  <2>1. call[t] # NoCall
    BY <1>1 DEF EnterEvents, NoCall
  <2>2. CASE FillCache
    BY <1>1, <1>e, <2>1, <2>2, FillCacheType, GotoCall DEF EnterEvents
  <2>3. CASE UNCHANGED <<eventsCache, storageVars>>
    BY <1>1, <1>c, <1>e, <2>1, <2>3, GotoCall DEF EnterEvents
  <2> QED
    BY <1>1, <2>2, <2>3 DEF EnterEvents
<1>2. CASE ListEvents(t)
  <2>1. call[t] # NoCall
    BY <1>2 DEF ListEvents, InMethod, NoCall
  <2> QED
    BY <1>2, <1>c, <1>d, <1>e, <2>1 DEF ListEvents, Ids
<1>3. CASE AddEvent(t)
  <2>1. /\ call[t] # NoCall
        /\ call[t].id \in EventIds
        /\ call[t].event \in Event
    BY <1>3 DEF AddEvent, InMethod, NoCall, Calls
  <2>2. CASE Fails("write") /\ Unlock(t, "failed") /\ UNCHANGED <<eventsCache, listed>>
    BY <2>1, <2>2, <1>d, <1>e, FailsType
  <2>3. ASSUME NEW c \in Connections,
               Leaves(c, WithEvent(c, call[t].id, call[t].event)),
               eventsCache' = IF eventsCache[call[t].id] = Absent
                                THEN [eventsCache EXCEPT ![call[t].id] = call[t].event]
                                ELSE eventsCache,
               Unlock(t, "ok"), UNCHANGED listed
        PROVE  EventsTypeOK(T)'
    <3>1. StorageTypeOK(T)'
      BY <2>1, <2>3, WithEventType, LeavesType
    <3>2. eventsCache' \in EventTable
      BY <2>1, <2>3 DEF EventTable
    <3> QED
      BY <2>1, <2>3, <3>1, <3>2, <1>d, <1>e
  <2>4. ASSUME NEW c \in Connections, Leaves(c, c.rows), Unlock(t, "failed"),
               UNCHANGED <<eventsCache, listed>>
        PROVE  EventsTypeOK(T)'
    BY <2>1, <2>4, <1>d, <1>e, ConnectionType, LeavesType
  <2> QED
    BY <1>3, <2>2, <2>3, <2>4 DEF AddEvent
<1>4. CASE UpdateEvent(t)
  <2>1. /\ call[t] # NoCall
        /\ call[t].id \in EventIds
        /\ call[t].event \in Event
    BY <1>4 DEF UpdateEvent, InMethod, NoCall, Calls
  <2>2. CASE NotFound(t)
    BY <1>4, <2>1, <2>2, <1>c, <1>d, <1>e DEF NotFound, UpdateEvent
  <2>3. CASE UpdateImpl(t, call[t].id, call[t].event)
    BY <1>4, <2>1, <2>3, <1>d, <1>e, UpdateImplType DEF UpdateEvent
  <2> QED
    BY <1>4, <2>2, <2>3 DEF UpdateEvent
<1>5. CASE SetActivity(t)
  <2>1. /\ call[t] # NoCall
        /\ call[t].id \in EventIds
        /\ call[t].active \in BOOLEAN
    BY <1>5 DEF SetActivity, InMethod, NoCall, Calls
  <2>2. CASE NotFound(t)
    BY <1>5, <2>1, <2>2, <1>c, <1>d, <1>e DEF NotFound, SetActivity
  <2>3. CASE /\ eventsCache[call[t].id] # Absent
             /\ UpdateImpl(t, call[t].id, [eventsCache[call[t].id] EXCEPT !.active = call[t].active])
    <3>1. eventsCache[call[t].id] \in Event
      BY <2>1, <2>3 DEF EventTable
    <3>2. [eventsCache[call[t].id] EXCEPT !.active = call[t].active] \in Event
      BY <2>1, <3>1 DEF Event
    <3> QED
      BY <1>5, <2>1, <2>3, <3>2, <1>d, <1>e, UpdateImplType DEF SetActivity
  <2> QED
    BY <1>5, <2>2, <2>3 DEF SetActivity
<1>6. CASE DeleteEvent(t)
  <2>1. call[t] # NoCall /\ call[t].id \in EventIds
    BY <1>6 DEF DeleteEvent, InMethod, NoCall, Calls
  <2>2. CASE NotFound(t)
    BY <1>6, <2>1, <2>2, <1>c, <1>d, <1>e DEF NotFound, DeleteEvent
  <2>3. ASSUME NEW c \in Connections, Leaves(c, WithEvent(c, call[t].id, Absent)),
               Goto(t, "refill"), UNCHANGED <<eventsCache, eventsMutex>>
        PROVE  EventsTypeOK(T)'
    BY <1>6, <2>1, <2>3, <1>e, WithEventType, LeavesType, GotoCall DEF DeleteEvent
  <2>4. CASE Fails("write") /\ Unlock(t, "failed") /\ UNCHANGED eventsCache
    BY <1>6, <2>1, <2>4, <1>d, <1>e, FailsType DEF DeleteEvent
  <2> QED
    BY <1>6, <2>2, <2>3, <2>4 DEF DeleteEvent
<1>7. CASE RefillAfterDelete(t)
  <2>1. call[t] # NoCall
    BY <1>7 DEF RefillAfterDelete, NoCall
  <2> QED
    BY <1>7, <2>1, <1>d, <1>e, FillCacheType DEF RefillAfterDelete
<1> QED
  BY <1>1, <1>2, <1>3, <1>4, <1>5, <1>6, <1>7 DEF EventsStep
------------------------------------------------------------------------------
(***************************************************************************)
(* Every step of a method takes the free mutex, gives it up, or keeps it   *)
(* for the second statement of Delete.                                     *)
(***************************************************************************)
LEMMA EventsStepShape ==
  ASSUME NEW t \in Threads, EventsStep(t)
  PROVE  \/ /\ call[t].step = "waiting"
            /\ eventsMutex = NoThread
            /\ eventsMutex' = t
            /\ Goto(t, "locked")
         \/ /\ call[t].step \in {"locked", "refill"}
            /\ eventsMutex' = NoThread
            /\ Goto(t, "ok") \/ Goto(t, "failed")
         \/ /\ call[t].step = "locked"
            /\ eventsMutex' = eventsMutex
            /\ Goto(t, "refill")
BY DEF EventsStep, EnterEvents, ListEvents, AddEvent, UpdateEvent, UpdateImpl,
       SetActivity, DeleteEvent, RefillAfterDelete, NotFound, InMethod, Unlock

(* No step of a method lets two threads in, or leaves with the mutex.       *)
LEMMA EventsStepMutex ==
  ASSUME call \in [Threads -> Calls], EventsMutexHeld, NEW t \in Threads, EventsStep(t)
  PROVE  EventsMutexHeld'
<1> USE ThreadsAssumption DEF EventsMutexHeld
<1>1. CASE /\ call[t].step = "waiting"
           /\ eventsMutex = NoThread
           /\ eventsMutex' = t
           /\ Goto(t, "locked")
  <2>1. /\ call'[t].step = "locked"
        /\ \A u \in Threads : u # t => call'[u] = call[u]
    BY <1>1, GotoCall, StepCall DEF Steps
  <2> QED
    BY <1>1, <2>1
<1>2. CASE /\ call[t].step \in {"locked", "refill"}
           /\ eventsMutex' = NoThread
           /\ Goto(t, "ok") \/ Goto(t, "failed")
  <2>1. /\ call'[t].step \in {"ok", "failed"}
        /\ \A u \in Threads : u # t => call'[u] = call[u]
    BY <1>2, GotoCall, StepCall DEF Steps
  <2> QED
    BY <1>2, <2>1
<1>3. CASE /\ call[t].step = "locked"
           /\ eventsMutex' = eventsMutex
           /\ Goto(t, "refill")
  <2>1. /\ call'[t].step = "refill"
        /\ \A u \in Threads : u # t => call'[u] = call[u]
    BY <1>3, GotoCall, StepCall DEF Steps
  <2> QED
    BY <1>3, <2>1
<1> QED
  BY <1>1, <1>2, <1>3, EventsStepShape
------------------------------------------------------------------------------
(***************************************************************************)
(* The strengthening of EventsCacheIsTable: the cache is the table, the    *)
(* mutex held or not, except between the two statements of Delete.         *)
(***************************************************************************)
CacheCoherent ==
  (\A t \in Threads : call[t].step # "refill") => eventsCache = db.events

LEMMA FillCacheCoherent ==
  ASSUME NoLostReads, FillCache
  PROVE  eventsCache' = db'.events /\ db' = db
<1>1. PICK c \in Connections : eventsCache' = c.rows.events /\ Leaves(c, c.rows)
  BY ReliableConnection DEF FillCache
<1>2. c = [rows |-> db, tx |-> txOpen]
  BY ReliableConnection
<1> QED
  BY <1>1, <1>2 DEF Leaves

(* A row written through the table and through the cache alike.             *)
LEMMA WithEventRow ==
  ASSUME NEW T, HoldsEvents(T), db \in T, NEW id \in EventIds,
         NEW ev \in Event \cup {Absent}
  PROVE  WithEvent([rows |-> db, tx |-> txOpen], id, ev).events
           = [db.events EXCEPT ![id] = ev]
BY DEF WithEvent, HoldsEvents

LEMMA UpdateImplCoherent ==
  ASSUME NEW T, HoldsEvents(T), StorageTypeOK(T), NoLostReads,
         eventsCache = db.events, NEW t \in Threads,
         NEW id \in EventIds, NEW ev \in Event, eventsCache[id] # Absent,
         UpdateImpl(t, id, ev)
  PROVE  eventsCache' = db'.events
<1>1. CASE Fails("write") /\ UNCHANGED eventsCache
  BY <1>1, ReliableConnection DEF storageVars
<1>2. ASSUME NEW c \in Connections,
             Leaves(c, IF c.rows.events[id] = Absent THEN c.rows ELSE WithEvent(c, id, ev)),
             eventsCache' = [eventsCache EXCEPT ![id] = ev]
      PROVE  eventsCache' = db'.events
  <2>1. c = [rows |-> db, tx |-> txOpen]
    BY ReliableConnection
  <2>2. db' = WithEvent(c, id, ev)
    BY <1>2, <2>1 DEF Leaves
  <2> QED
    BY <1>2, <2>1, <2>2, WithEventRow DEF StorageTypeOK
<1> QED
  BY <1>1, <1>2 DEF UpdateImpl

(* A thread in "refill" holds the mutex, so when one runs a step of a       *)
(* method no other is between the statements of Delete.                    *)
LEMMA NobodyElseRefills ==
  ASSUME EventsMutexHeld, NEW t \in Threads, EventsStep(t), call[t].step # "refill"
  PROVE  \A u \in Threads : call[u].step # "refill"
<1>1. eventsMutex \in {NoThread, t}
  BY EventsStepShape DEF EventsMutexHeld
<1> QED
  BY <1>1, ThreadsAssumption DEF EventsMutexHeld

LEMMA EventsStepCoherent ==
  ASSUME NEW T, HoldsEvents(T), EventsTypeOK(T), EventsMutexHeld, NoLostReads,
         CacheCoherent, NEW t \in Threads, EventsStep(t)
  PROVE  CacheCoherent'
<1> USE DEF EventsTypeOK
<1>1. CASE RefillAfterDelete(t)
  BY <1>1, FillCacheCoherent DEF RefillAfterDelete, CacheCoherent
<1>2. CASE ~RefillAfterDelete(t)
  <2>1. eventsCache = db.events
    <3>1. call[t].step # "refill"
      BY <1>2, StepCall DEF EventsStep, EnterEvents, ListEvents, AddEvent, UpdateEvent,
         SetActivity, DeleteEvent, RefillAfterDelete, InMethod
    <3> QED
      BY <3>1, NobodyElseRefills DEF CacheCoherent
  <2>2. SUFFICES \/ eventsCache' = db'.events
                 \/ \E u \in Threads : call'[u].step = "refill"
    BY DEF CacheCoherent
  <2>3. UNCHANGED <<eventsCache, storageVars>> => eventsCache' = db'.events
    BY <2>1 DEF storageVars
  <2>4. CASE EnterEvents(t)
    BY <2>3, <2>4, FillCacheCoherent DEF EnterEvents
  <2>5. CASE ListEvents(t)
    BY <2>3, <2>5 DEF ListEvents
  <2>6. CASE AddEvent(t)
    <3>1. call[t].id \in EventIds /\ call[t].event \in Event
      BY <2>6, StepCall DEF AddEvent, InMethod, Calls, NoCall
    <3>2. CASE Fails("write") /\ UNCHANGED eventsCache
      BY <2>3, <3>2, ReliableConnection
    <3>3. ASSUME NEW c \in Connections, c.rows.events[call[t].id] = Absent,
                 Leaves(c, WithEvent(c, call[t].id, call[t].event)),
                 eventsCache' = IF eventsCache[call[t].id] = Absent
                                  THEN [eventsCache EXCEPT ![call[t].id] = call[t].event]
                                  ELSE eventsCache
          PROVE  eventsCache' = db'.events
      <4>1. c = [rows |-> db, tx |-> txOpen]
        BY ReliableConnection
      <4>2. db' = WithEvent(c, call[t].id, call[t].event)
        BY <3>3 DEF Leaves
      <4> QED
        BY <2>1, <3>1, <3>3, <4>1, <4>2, WithEventRow DEF StorageTypeOK
    <3>4. ASSUME NEW c \in Connections, Leaves(c, c.rows), UNCHANGED eventsCache
          PROVE  eventsCache' = db'.events
      BY <2>1, <3>4, ReliableConnection DEF Leaves
    <3> QED
      BY <2>6, <3>2, <3>3, <3>4 DEF AddEvent
  <2>7. CASE UpdateEvent(t)
    <3>1. call[t].id \in EventIds /\ call[t].event \in Event
      BY <2>7 DEF UpdateEvent, InMethod, Calls, NoCall
    <3> QED
      BY <2>1, <2>3, <2>7, <3>1, UpdateImplCoherent DEF UpdateEvent, NotFound
  <2>8. CASE SetActivity(t)
    <3>1. call[t].id \in EventIds /\ call[t].active \in BOOLEAN
      BY <2>8 DEF SetActivity, InMethod, Calls, NoCall
    <3>2. ASSUME eventsCache[call[t].id] # Absent
          PROVE  [eventsCache[call[t].id] EXCEPT !.active = call[t].active] \in Event
      <4>1. eventsCache[call[t].id] \in Event
        BY <3>1, <3>2 DEF EventTable
      <4> QED
        BY <3>1, <4>1 DEF Event
    <3> QED
      BY <2>1, <2>3, <2>8, <3>1, <3>2, UpdateImplCoherent DEF SetActivity, NotFound
  <2>9. CASE DeleteEvent(t)
    <3>1. CASE NotFound(t)
      BY <2>3, <3>1 DEF NotFound
    <3>2. CASE Fails("write") /\ UNCHANGED eventsCache
      BY <2>3, <3>2, ReliableConnection
    <3>3. CASE Goto(t, "refill")
      <4>1. call[t] # NoCall
        BY <2>9 DEF DeleteEvent, InMethod, NoCall
      <4> QED
        BY <3>3, <4>1, GotoCall DEF Steps
    <3> QED
      BY <2>9, <3>1, <3>2, <3>3 DEF DeleteEvent
  <2> QED
    BY <1>2, <2>4, <2>5, <2>6, <2>7, <2>8, <2>9 DEF EventsStep
<1> QED
  BY <1>1, <1>2
------------------------------------------------------------------------------
Tables == [events : EventTable]

LEMMA TablesHoldEvents == HoldsEvents(Tables)
BY DEF HoldsEvents, Tables, EventTable

LEMMA TypeOKSplit == TypeOK <=> EventsTypeOK(Tables)
BY DEF TypeOK, EventsTypeOK, StorageTypeOK, Tables

LEMMA NewCallsAreCalls == NewCalls \subseteq Calls
BY DEF NewCalls, Calls, Steps, ListCall, AddCall, UpdateCall, SetActivityCall, DeleteCall

(***************************************************************************)
(* The variables of the controller keep their types, whatever faults       *)
(* occur: EventsController.cpp never leaves a call half described or a     *)
(* cache entry that is not an event.                                       *)
(***************************************************************************)
THEOREM TypeCorrect == Spec => []TypeOK
<1>1. Init => TypeOK
  <2>1. NoEvents \in EventTable
    BY DEF NoEvents, EventTable
  <2>2. NoCall \in Calls
    BY DEF Calls
  <2>3. [events |-> NoEvents] \in [events : EventTable]
    BY <2>1
  <2>4. [t \in Threads |-> NoCall] \in [Threads -> Calls]
    BY <2>2
  <2> QED
    BY <2>1, <2>3, <2>4 DEF Init, TypeOK
<1>2. TypeOK /\ [Next]_vars => TypeOK'
  <2> SUFFICES ASSUME TypeOK, [Next]_vars PROVE TypeOK'
    OBVIOUS
  <2>1. ASSUME NEW t \in Threads, Invoke(t) PROVE TypeOK'
    BY <2>1, NewCallsAreCalls DEF TypeOK, Invoke, storageVars
  <2>2. ASSUME NEW t \in Threads, EventsStep(t) PROVE TypeOK'
    <3>1. EventsTypeOK(Tables)'
      BY <2>2, TypeOKSplit, TablesHoldEvents, EventsStepType
    <3> QED
      BY <3>1 DEF TypeOK, EventsTypeOK, StorageTypeOK, Tables
  <2>3. ASSUME NEW t \in Threads, Return(t) PROVE TypeOK'
    BY <2>3 DEF TypeOK, Return, Calls, storageVars
  <2>4. CASE OtherTransaction
    <3>1. StorageTypeOK(Tables)'
      BY <2>4, TypeOKSplit, TransactionType DEF OtherTransaction, EventsTypeOK
    <3> QED
      BY <2>4, <3>1 DEF TypeOK, StorageTypeOK, Tables, OtherTransaction, eventsVars
  <2>5. CASE Restart
    BY <2>5 DEF TypeOK, Restart, Reconnects, ConstructEvents, Calls, NoEvents, EventTable
  <2>6. CASE UNCHANGED vars
    BY <2>6 DEF TypeOK, vars, storageVars, eventsVars
  <2> QED
    BY <2>1, <2>2, <2>3, <2>4, <2>5, <2>6 DEF Next
<1> QED
  BY <1>1, <1>2, PTL DEF Spec

(***************************************************************************)
(* std::mutex does its work: exactly the thread inside a method holds it,  *)
(* through every early return and both statements of Delete.               *)
(***************************************************************************)
THEOREM MutexCorrect == Spec => []EventsMutexHeld
<1>1. Init => EventsMutexHeld
  BY ThreadsAssumption DEF Init, EventsMutexHeld, NoCall
<1>2. TypeOK /\ EventsMutexHeld /\ [Next]_vars => EventsMutexHeld'
  <2> SUFFICES ASSUME TypeOK, EventsMutexHeld, [Next]_vars PROVE EventsMutexHeld'
    OBVIOUS
  <2> USE DEF EventsMutexHeld
  <2>1. ASSUME NEW t \in Threads, Invoke(t) PROVE EventsMutexHeld'
    <3>1. \A c \in NewCalls : c.step = "waiting"
      BY DEF NewCalls, ListCall, AddCall, UpdateCall, SetActivityCall, DeleteCall
    <3> QED
      BY <2>1, <3>1 DEF TypeOK, Invoke, NoCall
  <2>2. ASSUME NEW t \in Threads, EventsStep(t) PROVE EventsMutexHeld'
    BY <2>2, EventsStepMutex DEF TypeOK
  <2>3. ASSUME NEW t \in Threads, Return(t) PROVE EventsMutexHeld'
    BY <2>3 DEF TypeOK, Return, NoCall
  <2>4. CASE OtherTransaction
    BY <2>4 DEF OtherTransaction, eventsVars
  <2>5. CASE Restart
    BY <2>5, ThreadsAssumption DEF Restart, ConstructEvents, NoCall
  <2>6. CASE UNCHANGED vars
    BY <2>6 DEF vars, eventsVars
  <2> QED
    BY <2>1, <2>2, <2>3, <2>4, <2>5, <2>6 DEF Next
<1> QED
  BY <1>1, <1>2, TypeCorrect, PTL DEF Spec

(***************************************************************************)
(* The cache never drifts from the table while no SELECT fails and no      *)
(* transaction is lost with its connection: not by a failing write, not by *)
(* another thread's BEGIN or COMMIT, not by a restart, and not by any      *)
(* interleaving of the methods.                                            *)
(***************************************************************************)
THEOREM CacheCorrect == NoLostReads => (Spec => []EventsCacheIsTable)
<1> SUFFICES ASSUME NoLostReads PROVE Spec => []EventsCacheIsTable
  OBVIOUS
<1>1. Init => CacheCoherent
  BY DEF Init, CacheCoherent
<1>2. TypeOK /\ EventsMutexHeld /\ CacheCoherent /\ [Next]_vars => CacheCoherent'
  <2> SUFFICES ASSUME TypeOK, EventsMutexHeld, CacheCoherent, [Next]_vars
               PROVE  CacheCoherent'
    OBVIOUS
  <2>1. ASSUME NEW t \in Threads, Invoke(t) PROVE CacheCoherent'
    <3>1. call[t].step # "refill"
      BY <2>1 DEF Invoke, NoCall
    <3>2. \A u \in Threads : u # t => call'[u] = call[u]
      BY <2>1 DEF Invoke, TypeOK
    <3> QED
      BY <2>1, <3>1, <3>2 DEF Invoke, CacheCoherent, storageVars
  <2>2. ASSUME NEW t \in Threads, EventsStep(t) PROVE CacheCoherent'
    BY <2>2, TypeOKSplit, TablesHoldEvents, EventsStepCoherent
  <2>3. ASSUME NEW t \in Threads, Return(t) PROVE CacheCoherent'
    <3>1. call[t].step # "refill"
      BY <2>3 DEF Return
    <3>2. \A u \in Threads : u # t => call'[u] = call[u]
      BY <2>3 DEF Return, TypeOK
    <3> QED
      BY <2>3, <3>1, <3>2 DEF Return, CacheCoherent, storageVars
  <2>4. CASE OtherTransaction
    <3>1. db' = db
      BY <2>4, ReliableTransaction DEF OtherTransaction
    <3> QED
      BY <2>4, <3>1 DEF OtherTransaction, CacheCoherent, eventsVars
  <2>5. CASE Restart
    BY <2>5 DEF NoLostReads, Restart, Reconnects, ConstructEvents, CacheCoherent
  <2>6. CASE UNCHANGED vars
    BY <2>6 DEF CacheCoherent, vars, storageVars, eventsVars
  <2> QED
    BY <2>1, <2>2, <2>3, <2>4, <2>5, <2>6 DEF Next
<1>3. EventsMutexHeld /\ CacheCoherent => EventsCacheIsTable
  BY ThreadsAssumption DEF EventsMutexHeld, CacheCoherent, EventsCacheIsTable
<1> QED
  BY <1>1, <1>2, <1>3, TypeCorrect, MutexCorrect, PTL DEF Spec
------------------------------------------------------------------------------
(* The scenarios and the handlers.                                          *)

ServerTables == [events : EventTable, scenarios : ScenarioTable]

(* Where a handler holds the scenarios' mutex, waits for a method of the    *)
(* events controller, or has a scenario to work on.                        *)
Holding == {"inserting", "lookup", "cleanActivate", "begin", "apply", "setting"}
Waiting == {"event", "clean", "cleanActivate", "setting"}
Working == PCs \ {"idle", "ok", "failed", "event"}

HandlersAgree ==
  \A t \in Threads :
    /\ call[t] # NoCall <=> pc[t] \in Waiting
    /\ pc[t] \in Working => job[t] \in Job

ServerInv == ServerTypeOK /\ EventsMutexHeld /\ ScenariosMutexHeld /\ HandlersAgree

LEMMA ServerTablesHoldEvents == HoldsEvents(ServerTables)
BY DEF HoldsEvents, ServerTables, EventTable, ScenarioTable

LEMMA ServerTypeSplit ==
  ServerTypeOK <=> /\ EventsTypeOK(ServerTables)
                   /\ scenariosCache \in ScenarioTable
                   /\ scenariosMutex \in Threads \cup {NoThread}
                   /\ pc \in [Threads -> PCs]
                   /\ job \in [Threads -> Job \cup {NoJob}]
BY DEF ServerTypeOK, EventsTypeOK, StorageTypeOK, ServerTables

(***************************************************************************)
(* A step of a handler of thread t: its place, its job and its call move   *)
(* on together, and the scenarios' mutex is taken or freed as the new      *)
(* place says.                                                             *)
(***************************************************************************)
LEMMA HandlerStep ==
  ASSUME ServerInv, NEW t \in Threads, NEW to \in PCs, NEW j \in Job \cup {NoJob}, NEW c \in Calls,
         pc' = [pc EXCEPT ![t] = to],
         job' = [job EXCEPT ![t] = j], to \in Working => j \in Job,
         call' = [call EXCEPT ![t] = c], c # NoCall <=> to \in Waiting,
         call[t].step \notin {"locked", "refill"}, c.step \notin {"locked", "refill"},
         listed' \in [Threads -> SUBSET EventIds],
         UNCHANGED <<eventsCache, eventsMutex>>,
         StorageTypeOK(ServerTables)', scenariosCache' \in ScenarioTable,
         to \in Holding => pc[t] \in Holding \/ scenariosMutex = NoThread,
         scenariosMutex' = IF to \in Holding THEN t
                           ELSE IF pc[t] \in Holding THEN NoThread ELSE scenariosMutex
  PROVE  ServerInv'
<1> USE DEF ServerInv
<1>1. /\ pc'[t] = to /\ job'[t] = j /\ call'[t] = c
      /\ \A u \in Threads : u # t => pc'[u] = pc[u] /\ job'[u] = job[u] /\ call'[u] = call[u]
  BY DEF ServerTypeOK
<1>2. ServerTypeOK'
  <2>1. EventsTypeOK(ServerTables)'
    BY ServerTypeSplit DEF EventsTypeOK
  <2>2. /\ scenariosMutex' \in Threads \cup {NoThread}
        /\ pc' \in [Threads -> PCs]
        /\ job' \in [Threads -> Job \cup {NoJob}]
    BY DEF ServerTypeOK
  <2> QED
    BY <2>1, <2>2 DEF ServerTypeOK, EventsTypeOK, StorageTypeOK, ServerTables
<1>3. EventsMutexHeld'
  BY <1>1 DEF EventsMutexHeld
<1>4. ScenariosMutexHeld'
  BY <1>1, ThreadsAssumption DEF ScenariosMutexHeld, Holding
<1>5. HandlersAgree'
  BY <1>1 DEF HandlersAgree
<1> QED
  BY <1>2, <1>3, <1>4, <1>5

(* The two ways the mutex of the scenarios goes through a step.             *)
MutexFollows(t, to) ==
  /\ to \in Holding => pc[t] \in Holding \/ scenariosMutex = NoThread
  /\ scenariosMutex' = IF to \in Holding THEN t
                       ELSE IF pc[t] \in Holding THEN NoThread ELSE scenariosMutex

(* A step that has nothing to do with the events controller.                *)
LEMMA QuietStep ==
  ASSUME ServerInv, NEW t \in Threads, NEW to \in PCs \ Waiting, pc[t] \notin Waiting,
         pc' = [pc EXCEPT ![t] = to],
         NEW j \in Job \cup {NoJob}, job' = [job EXCEPT ![t] = j], to \in Working => j \in Job,
         UNCHANGED eventsVars,
         StorageTypeOK(ServerTables)', scenariosCache' \in ScenarioTable, MutexFollows(t, to)
  PROVE  ServerInv'
<1>1. call[t] = NoCall
  BY DEF ServerInv, HandlersAgree
<1>2. call[t].step = "none" /\ call[t] \in Calls /\ call' = [call EXCEPT ![t] = call[t]]
  BY <1>1 DEF ServerInv, ServerTypeOK, NoCall, eventsVars
<1>3. listed' \in [Threads -> SUBSET EventIds] /\ UNCHANGED <<eventsCache, eventsMutex>>
  BY DEF ServerInv, ServerTypeOK, eventsVars
<1> QED
  BY <1>1, <1>2, <1>3, HandlerStep DEF MutexFollows

(* A step that calls the events controller, and one that comes back.        *)
LEMMA CallingStep ==
  ASSUME ServerInv, NEW t \in Threads, NEW to \in PCs \cap Waiting, pc[t] \notin Waiting,
         pc' = [pc EXCEPT ![t] = to],
         NEW j \in Job \cup {NoJob}, job' = [job EXCEPT ![t] = j], to \in Working => j \in Job,
         NEW c \in NewCalls, Calls2Events(t, c),
         UNCHANGED <<storageVars, eventsCache, eventsMutex, listed, scenariosCache>>,
         MutexFollows(t, to)
  PROVE  ServerInv'
<1>1. call[t].step = "none"
  BY DEF ServerInv, HandlersAgree, NoCall
<1>2. c \in Calls /\ c.step = "waiting" /\ c # NoCall
  BY NewCallsAreCalls DEF NewCalls, ListCall, AddCall, UpdateCall, SetActivityCall, DeleteCall, NoCall
<1>3. /\ StorageTypeOK(ServerTables)' /\ scenariosCache' \in ScenarioTable
      /\ listed' \in [Threads -> SUBSET EventIds]
  BY ServerTypeSplit DEF ServerInv, EventsTypeOK, StorageTypeOK, storageVars
<1> QED
  BY <1>1, <1>2, <1>3, HandlerStep DEF MutexFollows, Calls2Events

LEMMA ReturningStep ==
  ASSUME ServerInv, NEW t \in Threads, NEW to \in PCs \ Waiting,
         call[t].step \in {"ok", "failed"},
         pc' = [pc EXCEPT ![t] = to],
         NEW j \in Job \cup {NoJob}, job' = [job EXCEPT ![t] = j], to \in Working => j \in Job,
         BackFromEvents(t), UNCHANGED <<storageVars, scenariosCache>>, MutexFollows(t, to)
  PROVE  ServerInv'
<1>1. NoCall \in Calls /\ NoCall.step = "none"
  BY DEF Calls, NoCall
<1>2. /\ StorageTypeOK(ServerTables)' /\ scenariosCache' \in ScenarioTable
      /\ listed' \in [Threads -> SUBSET EventIds]
  BY ServerTypeSplit DEF ServerInv, EventsTypeOK, StorageTypeOK, storageVars, BackFromEvents
<1> QED
  BY <1>1, <1>2, HandlerStep DEF MutexFollows, BackFromEvents

(* The statements of the scenarios controller leave tables and cache typed. *)
LEMMA FillIfEmptyType ==
  ASSUME ServerTypeOK, FillIfEmpty
  PROVE  StorageTypeOK(ServerTables)' /\ scenariosCache' \in ScenarioTable
<1>1. StorageTypeOK(ServerTables) /\ scenariosCache \in ScenarioTable
  BY ServerTypeSplit DEF EventsTypeOK
<1>2. CASE UNCHANGED <<scenariosCache, storageVars>>
  BY <1>1, <1>2 DEF StorageTypeOK, storageVars
<1>3. CASE Fails("select") /\ UNCHANGED scenariosCache
  BY <1>1, <1>3, FailsType
<1>4. ASSUME NEW c \in Connections, Leaves(c, c.rows),
             scenariosCache' =
               [s \in ScenarioIds |->
                  IF scenariosCache[s] = Absent THEN c.rows.scenarios[s] ELSE scenariosCache[s]]
      PROVE  StorageTypeOK(ServerTables)' /\ scenariosCache' \in ScenarioTable
  <2>1. c.rows \in ServerTables
    BY <1>1, ConnectionType
  <2>2. StorageTypeOK(ServerTables)'
    BY <1>1, <1>4, <2>1, LeavesType
  <2>3. c.rows.scenarios \in ScenarioTable
    BY <2>1 DEF ServerTables
  <2> QED
    BY <1>1, <1>4, <2>2, <2>3 DEF ScenarioTable
<1> QED
  BY <1>2, <1>3, <1>4 DEF FillIfEmpty, FillScenariosCache

LEMMA ScenarioRowType ==
  ASSUME NEW rows \in ServerTables, NEW id \in ScenarioIds, NEW s \in Scenario \cup {Absent}
  PROVE  [rows EXCEPT !.scenarios[id] = s] \in ServerTables
BY DEF ServerTables, ScenarioTable
------------------------------------------------------------------------------
LEMMA NewRequestInv ==
  ASSUME ServerInv, NEW t \in Threads, NewRequest(t)
  PROVE  ServerInv'
<1>1. Idle(t) /\ pc[t] \notin Waiting /\ pc[t] \notin Holding
  BY DEF NewRequest, EventRequest, ListScenarios, PostScenario, PutScenario, StoreRequest,
     RemoveRequest, ActivateRequest, Idle, Waiting, Holding
<1>2. pc \in [Threads -> PCs] /\ job \in [Threads -> Job \cup {NoJob}]
  BY DEF ServerInv, ServerTypeOK
<1>3. \A id \in ScenarioIds, s \in Scenario : JobOf(id, s) \in Job
  BY DEF JobOf, Job, Scenario
<1>4. [activate |-> {}, deactivate |-> {}] \in Scenario
  BY DEF Scenario
<1>5. CASE EventRequest(t)
  <2>1. PICK c \in NewCalls : Calls2Events(t, c)
    BY <1>5 DEF EventRequest, EventCalls, NewCalls
  <2>2. /\ pc' = [pc EXCEPT ![t] = "event"]
        /\ job' = [job EXCEPT ![t] = job[t]] /\ job[t] \in Job \cup {NoJob}
        /\ UNCHANGED <<storageVars, eventsCache, eventsMutex, listed, scenariosCache, scenariosMutex>>
    BY <1>2, <1>5 DEF EventRequest
  <2>3. MutexFollows(t, "event")
    BY <1>1, <2>2 DEF MutexFollows, Holding
  <2>4. "event" \in PCs \cap Waiting /\ "event" \notin Working
    BY DEF PCs, Waiting, Working
  <2> QED
    BY <1>1, <2>1, <2>2, <2>3, <2>4, CallingStep
<1>6. CASE ListScenarios(t)
  <2>1. /\ pc' = [pc EXCEPT ![t] = "ok"]
        /\ job' = [job EXCEPT ![t] = job[t]] /\ job[t] \in Job \cup {NoJob}
        /\ UNCHANGED <<eventsVars, scenariosMutex>>
    BY <1>2, <1>6 DEF ListScenarios
  <2>2. StorageTypeOK(ServerTables)' /\ scenariosCache' \in ScenarioTable
    BY <1>6, FillIfEmptyType DEF ListScenarios, ServerInv
  <2>3. MutexFollows(t, "ok")
    BY <1>1, <2>1 DEF MutexFollows, Holding
  <2>4. "ok" \in PCs \ Waiting /\ "ok" \notin Working
    BY DEF PCs, Waiting, Working
  <2> QED
    BY <1>1, <2>1, <2>2, <2>3, <2>4, QuietStep
<1>7. ASSUME NEW kind, StoreRequest(t, kind)
      PROVE  ServerInv'
  <2>1. PICK id \in ScenarioIds, s \in Contents : job' = [job EXCEPT ![t] = JobOf(id, s)]
    BY <1>7 DEF StoreRequest
  <2>2. JobOf(id, s) \in Job
    BY <1>3, ScenariosAssumption
  <2>3. /\ pc' = [pc EXCEPT ![t] = "clean"] /\ Calls2Events(t, ListCall)
        /\ UNCHANGED <<storageVars, eventsCache, eventsMutex, listed, scenariosCache, scenariosMutex>>
    BY <1>7 DEF StoreRequest
  <2>4. MutexFollows(t, "clean")
    BY <1>1, <2>3 DEF MutexFollows, Holding
  <2>5. "clean" \in PCs \cap Waiting /\ ListCall \in NewCalls
    BY DEF PCs, Waiting, NewCalls
  <2> QED
    BY <1>1, <2>1, <2>2, <2>3, <2>4, <2>5, CallingStep
<1>8. ASSUME NEW to \in {"remove", "activate"}, pc' = [pc EXCEPT ![t] = to],
             NEW id \in ScenarioIds,
             job' = [job EXCEPT ![t] = JobOf(id, [activate |-> {}, deactivate |-> {}])],
             UNCHANGED <<storageVars, eventsVars, scenariosCache, scenariosMutex>>
      PROVE  ServerInv'
  <2>1. MutexFollows(t, to)
    BY <1>1, <1>8 DEF MutexFollows, Holding
  <2>2. to \in PCs \ Waiting
    BY DEF PCs, Waiting
  <2>3. StorageTypeOK(ServerTables)' /\ scenariosCache' \in ScenarioTable
    BY <1>8, ServerTypeSplit DEF ServerInv, EventsTypeOK, StorageTypeOK, storageVars
  <2> QED
    BY <1>1, <1>3, <1>4, <1>8, <2>1, <2>2, <2>3, QuietStep
<1> QED
  BY <1>5, <1>6, <1>7, <1>8 DEF NewRequest, PostScenario, PutScenario, RemoveRequest, ActivateRequest

LEMMA ServeInv ==
  ASSUME ServerInv, NEW t \in Threads, Serve(t)
  PROVE  ServerInv'
<1>1. /\ pc \in [Threads -> PCs] /\ job \in [Threads -> Job \cup {NoJob}]
      /\ call \in [Threads -> Calls] /\ listed \in [Threads -> SUBSET EventIds]
      /\ scenariosCache \in ScenarioTable
      /\ StorageTypeOK(ServerTables)
  BY ServerTypeSplit DEF ServerInv, ServerTypeOK, EventsTypeOK
<1>2. /\ job' = job => job' = [job EXCEPT ![t] = job[t]]
      /\ job[t] \in Job \cup {NoJob}
      /\ pc[t] \in Working => job[t] \in Job
      /\ NoJob \in Job \cup {NoJob}
  BY <1>1 DEF ServerInv, HandlersAgree
<1>3. ASSUME UNCHANGED <<storageVars, scenariosCache>>
      PROVE  StorageTypeOK(ServerTables)' /\ scenariosCache' \in ScenarioTable
  BY <1>1, <1>3 DEF StorageTypeOK, storageVars
<1>4. ASSUME job[t] \in Job
      PROVE  /\ job[t].id \in ScenarioIds
             /\ job[t].activate \in SUBSET EventIds /\ job[t].deactivate \in SUBSET EventIds
             /\ ContentOf(job[t]) \in Scenario
             /\ Cleaned(t) \in Job
  BY <1>1, <1>4 DEF Job, ContentOf, Scenario, Cleaned
<1>5. \A from, answer : Reply(t, from, answer) =>
        pc[t] = from /\ pc' = [pc EXCEPT ![t] = answer] /\ job' = [job EXCEPT ![t] = NoJob]
  BY DEF Reply, Moves
<1>6. \A to \in {"ok", "failed"} : to \in PCs \ Waiting /\ to \notin Working /\ to \notin Holding
  BY DEF PCs, Waiting, Working, Holding
<1> USE DEF Moves
<1>e. CASE EventsStep(t) /\ UNCHANGED scenariosVars
  <2>1. EventsTypeOK(ServerTables)'
    BY <1>e, ServerTypeSplit, ServerTablesHoldEvents, EventsStepType DEF ServerInv
  <2>2. ServerTypeOK'
    BY <1>1, <1>e, <2>1 DEF ServerInv, ServerTypeOK, EventsTypeOK, StorageTypeOK, ServerTables, scenariosVars
  <2>3. EventsMutexHeld'
    BY <1>1, <1>e, EventsStepMutex DEF ServerInv
  <2>4. call[t] # NoCall /\ call'[t] # NoCall /\ \A u \in Threads : u # t => call'[u] = call[u]
    <3>1. call[t].step \in Steps
      BY <1>e, EventsStepShape DEF Steps
    <3>2. PICK s \in Steps : Goto(t, s)
      BY <1>e, EventsStepShape DEF Steps
    <3> QED
      BY <1>1, <3>1, <3>2, StepCall, GotoCall DEF Steps, NoCall
  <2>5. ScenariosMutexHeld' /\ HandlersAgree'
    BY <1>e, <2>4 DEF ServerInv, ScenariosMutexHeld, HandlersAgree, scenariosVars
  <2> QED
    BY <2>2, <2>3, <2>5 DEF ServerInv
<1>7. CASE EventReply(t)
  <2>1. MutexFollows(t, call[t].step)
    BY <1>5, <1>6, <1>7 DEF EventReply, MutexFollows, Holding
  <2> QED
    BY <1>2, <1>5, <1>6, <1>7, <2>1, ReturningStep DEF EventReply
<1>8. CASE ScenarioCleaned(t)
  <2>1. pc[t] \in Working /\ "insert" \in PCs \ Waiting /\ MutexFollows(t, "insert")
    BY <1>8 DEF ScenarioCleaned, Working, PCs, Waiting, MutexFollows, Holding
  <2> QED
    BY <1>2, <1>4, <1>8, <2>1, ReturningStep DEF ScenarioCleaned
<1>9. CASE EnterAdd(t)
  <2>1. /\ pc[t] \in Working /\ pc[t] \notin Waiting
        /\ "inserting" \in PCs \ Waiting /\ MutexFollows(t, "inserting")
    BY <1>9 DEF EnterAdd, Working, PCs, Waiting, MutexFollows, Holding
  <2>2. StorageTypeOK(ServerTables)' /\ scenariosCache' \in ScenarioTable
    BY <1>9, FillIfEmptyType DEF EnterAdd, ServerInv
  <2> QED
    BY <1>2, <1>9, <2>1, <2>2, QuietStep DEF EnterAdd
<1>10. CASE InsertScenario(t)
  <2> DEFINE s == ContentOf(job[t])
  <2>1. /\ pc[t] \in Working /\ pc[t] \notin Waiting /\ pc[t] \in Holding
        /\ scenariosMutex' = NoThread
    BY <1>10 DEF InsertScenario, Working, PCs, Waiting, Holding
  <2>2. job[t].id \in ScenarioIds /\ s \in Scenario
    BY <1>2, <1>4, <2>1
  <2> HIDE DEF s
  <2>3. PICK answer \in {"ok", "failed"} : Reply(t, "inserting", answer)
    BY <1>10 DEF InsertScenario
  <2>4. StorageTypeOK(ServerTables)' /\ scenariosCache' \in ScenarioTable
    <3>1. CASE Fails("write") /\ UNCHANGED scenariosCache
      BY <1>1, <3>1, FailsType
    <3>2. ASSUME NEW c \in Connections, Leaves(c, c.rows), UNCHANGED scenariosCache
          PROVE  StorageTypeOK(ServerTables)' /\ scenariosCache' \in ScenarioTable
      BY <1>1, <3>2, ConnectionType, LeavesType
    <3>3. ASSUME NEW c \in Connections,
                 Leaves(c, [c.rows EXCEPT !.scenarios[job[t].id] = s]),
                 scenariosCache' \in {scenariosCache, [scenariosCache EXCEPT ![job[t].id] = s]}
          PROVE  StorageTypeOK(ServerTables)' /\ scenariosCache' \in ScenarioTable
      <4>1. [c.rows EXCEPT !.scenarios[job[t].id] = s] \in ServerTables
        BY <1>1, <2>2, ConnectionType, ScenarioRowType
      <4>2. StorageTypeOK(ServerTables)'
        BY <1>1, <3>3, <4>1, LeavesType
      <4> QED
        BY <1>1, <2>2, <3>3, <4>2 DEF ScenarioTable
    <3> QED
      BY <1>10, <3>1, <3>2, <3>3 DEF InsertScenario, s
  <2>5. MutexFollows(t, answer)
    BY <1>6, <2>1 DEF MutexFollows
  <2> QED
    BY <1>2, <1>5, <1>6, <1>10, <2>1, <2>3, <2>4, <2>5, QuietStep DEF InsertScenario
<1>11. CASE RemoveScenario(t)
  <2>1. /\ pc[t] \in Working /\ pc[t] \notin Waiting /\ pc[t] \notin Holding
        /\ scenariosMutex' = scenariosMutex
    BY <1>11 DEF RemoveScenario, Working, PCs, Waiting, Holding
  <2>2. job[t].id \in ScenarioIds
    BY <1>2, <1>4, <2>1
  <2>3. PICK answer \in {"ok", "failed"} : Reply(t, "remove", answer)
    BY <1>11 DEF RemoveScenario
  <2>4. StorageTypeOK(ServerTables)' /\ scenariosCache' \in ScenarioTable
    <3>1. CASE Fails("write") /\ UNCHANGED scenariosCache
      BY <1>1, <3>1, FailsType
    <3>2. ASSUME NEW c \in Connections,
                 Leaves(c, [c.rows EXCEPT !.scenarios[job[t].id] = Absent]),
                 scenariosCache' = [scenariosCache EXCEPT ![job[t].id] = Absent]
          PROVE  StorageTypeOK(ServerTables)' /\ scenariosCache' \in ScenarioTable
      <4>1. [c.rows EXCEPT !.scenarios[job[t].id] = Absent] \in ServerTables
        BY <1>1, <2>2, ConnectionType, ScenarioRowType
      <4>2. StorageTypeOK(ServerTables)'
        BY <1>1, <3>2, <4>1, LeavesType
      <4> QED
        BY <1>1, <2>2, <3>2, <4>2 DEF ScenarioTable
    <3> QED
      BY <1>11, <3>1, <3>2 DEF RemoveScenario
  <2>5. MutexFollows(t, answer)
    BY <1>6, <2>1 DEF MutexFollows
  <2> QED
    BY <1>2, <1>5, <1>6, <1>11, <2>1, <2>3, <2>4, <2>5, QuietStep DEF RemoveScenario
<1>12. CASE EnterActivate(t)
  <2>1. /\ pc[t] \in Working /\ pc[t] \notin Waiting
        /\ "lookup" \in PCs \ Waiting /\ MutexFollows(t, "lookup")
    BY <1>12 DEF EnterActivate, Working, PCs, Waiting, MutexFollows, Holding
  <2>2. StorageTypeOK(ServerTables)' /\ scenariosCache' \in ScenarioTable
    BY <1>12, FillIfEmptyType DEF EnterActivate, ServerInv
  <2> QED
    BY <1>2, <1>12, <2>1, <2>2, QuietStep DEF EnterActivate
<1>13. ScenariosMutexHeld => (pc[t] \in Holding => scenariosMutex = t)
  BY DEF ScenariosMutexHeld, Holding
<1>14. CASE ScenarioFound(t)
  <2>1. /\ pc[t] \in Working /\ pc[t] \notin Waiting /\ pc[t] \in Holding
        /\ "cleanActivate" \in PCs \cap Waiting /\ "cleanActivate" \in Holding
        /\ ListCall \in NewCalls
    BY <1>14 DEF ScenarioFound, Working, PCs, Waiting, Holding, NewCalls
  <2>2. MutexFollows(t, "cleanActivate")
    BY <1>13, <1>14, <2>1 DEF ScenarioFound, MutexFollows, ServerInv
  <2>3. JobOf(job[t].id, scenariosCache[job[t].id]) \in Job
    <3>1. job[t].id \in ScenarioIds
      BY <1>2, <1>4, <2>1
    <3>2. scenariosCache[job[t].id] \in Scenario
      BY <1>1, <1>14, <3>1 DEF ScenarioFound, ScenarioTable
    <3> QED
      BY <3>1, <3>2 DEF JobOf, Job, Scenario
  <2>4. job' = [job EXCEPT ![t] = JobOf(job[t].id, scenariosCache[job[t].id])]
    BY <1>1, <1>14 DEF ScenarioFound
  <2> QED
    BY <1>14, <2>1, <2>2, <2>3, <2>4, CallingStep DEF ScenarioFound
<1>15. CASE ScenarioNotFound(t)
  <2>1. pc[t] \notin Waiting /\ MutexFollows(t, "failed")
    BY <1>5, <1>6, <1>15 DEF ScenarioNotFound, Waiting, MutexFollows, Holding
  <2> QED
    BY <1>2, <1>3, <1>5, <1>6, <1>15, <2>1, QuietStep DEF ScenarioNotFound
<1>16. CASE ActivationCleaned(t)
  <2>1. /\ pc[t] \in Working /\ pc[t] \in Holding
        /\ "begin" \in PCs \ Waiting /\ "begin" \in Holding
    BY <1>16 DEF ActivationCleaned, Working, PCs, Waiting, Holding
  <2>2. MutexFollows(t, "begin")
    BY <1>13, <1>16, <2>1 DEF ActivationCleaned, MutexFollows, ServerInv
  <2> QED
    BY <1>2, <1>4, <1>16, <2>1, <2>2, ReturningStep DEF ActivationCleaned
<1>17. CASE BeginActivation(t)
  <2>1. pc[t] = "begin" /\ pc[t] \notin Waiting /\ pc[t] \in Holding /\ pc[t] \in Working
    BY <1>17 DEF BeginActivation, Reply, Waiting, Holding, Working, PCs
  <2>2. StorageTypeOK(ServerTables)' /\ scenariosCache' \in ScenarioTable
    BY <1>1, <1>17, TransactionType DEF BeginActivation
  <2>3. CASE Moves(t, "begin", "apply") /\ UNCHANGED <<job, scenariosMutex>>
    <3>1. "apply" \in PCs \ Waiting /\ "apply" \in Holding
      BY DEF PCs, Waiting, Holding
    <3>2. MutexFollows(t, "apply")
      BY <1>13, <2>1, <2>3, <3>1 DEF MutexFollows, ServerInv
    <3> QED
      BY <1>2, <1>17, <2>1, <2>2, <2>3, <3>1, <3>2, QuietStep DEF BeginActivation
  <2>4. CASE Reply(t, "begin", "failed") /\ scenariosMutex' = NoThread
    <3>1. MutexFollows(t, "failed")
      BY <1>6, <2>1, <2>4 DEF MutexFollows
    <3> QED
      BY <1>2, <1>5, <1>6, <1>17, <2>1, <2>2, <2>4, <3>1, QuietStep DEF BeginActivation
  <2> QED
    BY <1>17, <2>3, <2>4 DEF BeginActivation
<1>18. CASE NextActivity(t)
  <2>1. /\ pc[t] \in Working /\ pc[t] \notin Waiting /\ pc[t] \in Holding
        /\ "setting" \in PCs \cap Waiting /\ "setting" \in Holding
    BY <1>18 DEF NextActivity, Working, PCs, Waiting, Holding
  <2>2. MutexFollows(t, "setting")
    BY <1>13, <1>18, <2>1 DEF NextActivity, MutexFollows, ServerInv
  <2>3. job[t] \in Job /\ job[t].activate \in SUBSET EventIds /\ job[t].deactivate \in SUBSET EventIds
    BY <1>2, <1>4, <2>1
  <2>4. PICK c \in NewCalls : Calls2Events(t, c)
    <3>1. \A id \in EventIds, b \in BOOLEAN : SetActivityCall(id, b) \in NewCalls
      BY DEF NewCalls
    <3>2. \E id \in EventIds, b \in BOOLEAN : Calls2Events(t, SetActivityCall(id, b))
      BY <1>18, <2>3 DEF NextActivity
    <3> QED
      BY <3>1, <3>2
  <2>5. PICK j \in Job : job' = [job EXCEPT ![t] = j]
    <3>1. \A id : [job[t] EXCEPT !.activate = @ \ {id}] \in Job
                  /\ [job[t] EXCEPT !.deactivate = @ \ {id}] \in Job
      BY <2>3 DEF Job
    <3> QED
      BY <1>1, <1>18, <3>1 DEF NextActivity
  <2> QED
    BY <1>18, <2>1, <2>2, <2>4, <2>5, CallingStep DEF NextActivity
<1>19. CASE ActivitySet(t)
  <2>1. /\ pc[t] \in Working /\ pc[t] \in Holding
        /\ "apply" \in PCs \ Waiting /\ "apply" \in Holding
    BY <1>19 DEF ActivitySet, Working, PCs, Waiting, Holding
  <2>2. MutexFollows(t, "apply")
    BY <1>13, <1>19, <2>1 DEF ActivitySet, MutexFollows, ServerInv
  <2> QED
    BY <1>2, <1>19, <2>1, <2>2, ReturningStep DEF ActivitySet
<1>20. CASE ActivityNotSet(t)
  <2>1. MutexFollows(t, "failed")
    BY <1>5, <1>6, <1>20 DEF ActivityNotSet, MutexFollows, Holding
  <2> QED
    BY <1>2, <1>5, <1>6, <1>20, <2>1, ReturningStep DEF ActivityNotSet
<1>21. CASE CommitActivation(t)
  <2>1. pc[t] \notin Waiting /\ pc[t] \in Holding
    BY <1>21 DEF CommitActivation, Waiting, Holding
  <2>2. StorageTypeOK(ServerTables)' /\ scenariosCache' \in ScenarioTable
    BY <1>1, <1>21, TransactionType DEF CommitActivation
  <2>3. PICK answer \in {"ok", "failed"} : Reply(t, "apply", answer)
    BY <1>21 DEF CommitActivation
  <2>4. MutexFollows(t, answer)
    BY <1>6, <1>21, <2>1 DEF CommitActivation, MutexFollows
  <2> QED
    BY <1>2, <1>5, <1>6, <1>21, <2>1, <2>2, <2>3, <2>4, QuietStep DEF CommitActivation
<1> QED
  BY <1>e, <1>7, <1>8, <1>9, <1>10, <1>11, <1>12, <1>14, <1>15, <1>16, <1>17, <1>18, <1>19,
     <1>20, <1>21 DEF Serve
------------------------------------------------------------------------------
LEMMA ServerInitInv == ServerInit => ServerInv
<1> SUFFICES ASSUME ServerInit PROVE ServerInv
  OBVIOUS
<1>1. PICK rows \in InitialEvents, stored \in InitialScenarios :
        db = [events |-> rows, scenarios |-> stored]
  BY DEF ServerInit
<1>2. rows \in EventTable /\ stored \in ScenarioTable
  BY ScenariosAssumption
<1>3. ServerTypeOK
  <2>1. NoCall \in Calls
    BY DEF Calls
  <2>2. call \in [Threads -> Calls] /\ listed \in [Threads -> SUBSET EventIds]
    BY <2>1 DEF ServerInit
  <2> QED
    BY <1>1, <1>2, <2>2 DEF ServerInit, ServerTypeOK, PCs
<1>4. EventsMutexHeld /\ ScenariosMutexHeld /\ HandlersAgree
  BY ThreadsAssumption DEF ServerInit, EventsMutexHeld, ScenariosMutexHeld, HandlersAgree, NoCall,
     Waiting, Working
<1> QED
  BY <1>3, <1>4 DEF ServerInv

LEMMA RestartServerInv ==
  ASSUME ServerInv, RestartServer
  PROVE  ServerInv'
<1>1. ServerTypeOK'
  <2>1. NoCall \in Calls /\ NoEvents \in EventTable /\ NoScenarios \in ScenarioTable
    BY DEF Calls, NoEvents, EventTable, NoScenarios, ScenarioTable
  <2>2. durable \in [events : EventTable, scenarios : ScenarioTable]
    BY DEF ServerInv, ServerTypeOK
  <2>3. call' \in [Threads -> Calls] /\ listed' \in [Threads -> SUBSET EventIds]
    BY <2>1 DEF RestartServer, Restart, ConstructEvents
  <2>4. eventsCache' \in EventTable /\ scenariosCache' \in ScenarioTable
    BY <2>1, <2>2 DEF RestartServer, Restart, ConstructEvents
  <2> QED
    BY <2>2, <2>3, <2>4 DEF RestartServer, Restart, ConstructEvents, Reconnects, ServerTypeOK, PCs
<1>2. EventsMutexHeld' /\ ScenariosMutexHeld' /\ HandlersAgree'
  BY ThreadsAssumption DEF RestartServer, Restart, ConstructEvents, EventsMutexHeld,
     ScenariosMutexHeld, HandlersAgree, NoCall, Waiting, Working
<1> QED
  BY <1>1, <1>2 DEF ServerInv

LEMMA ServerInvariant == ServerSpec => []ServerInv
<1>1. ServerInv /\ [ServerNext]_serverVars => ServerInv'
  <2> SUFFICES ASSUME ServerInv, [ServerNext]_serverVars
               PROVE  ServerInv'
    OBVIOUS
  <2>1. CASE UNCHANGED serverVars
    BY <2>1 DEF ServerInv, ServerTypeOK, EventsMutexHeld, ScenariosMutexHeld, HandlersAgree,
       serverVars, vars, storageVars, eventsVars, scenariosVars
  <2> QED
    BY <2>1, NewRequestInv, ServeInv, RestartServerInv DEF ServerNext
<1> QED
  BY <1>1, ServerInitInv, PTL DEF ServerSpec

(***************************************************************************)
(* The server keeps its types through every handler, failure and restart.  *)
(***************************************************************************)
THEOREM ServerTypeCorrect == ServerSpec => []ServerTypeOK
<1>1. ServerInv => ServerTypeOK
  BY DEF ServerInv
<1> QED
  BY <1>1, ServerInvariant, PTL

(***************************************************************************)
(* The events' mutex in the whole server: a handler that comes back from   *)
(* the events controller, or is cut short by a restart, never keeps it.    *)
(***************************************************************************)
THEOREM ServerEventsMutexCorrect == ServerSpec => []EventsMutexHeld
<1>1. ServerInv => EventsMutexHeld
  BY DEF ServerInv
<1> QED
  BY <1>1, ServerInvariant, PTL

(***************************************************************************)
(* The scenarios' mutex is held through an activation and all its calls,   *)
(* by no two threads, and is free after every early return: the scenario   *)
(* not found, BEGIN refused, an activity not set.                          *)
(***************************************************************************)
THEOREM ScenariosMutexCorrect == ServerSpec => []ScenariosMutexHeld
<1>1. ServerInv => ScenariosMutexHeld
  BY DEF ServerInv
<1> QED
  BY <1>1, ServerInvariant, PTL
------------------------------------------------------------------------------
(* A thread moves no other thread's handler.                                *)
LEMMA PlaceMoves ==
  ASSUME ServerInv, NEW u \in Threads, NewRequest(u) \/ Serve(u)
  PROVE  \A t \in Threads : t # u => pc'[t] = pc[t]
<1>1. pc \in [Threads -> PCs]
  BY DEF ServerInv, ServerTypeOK
<1>2. \A from, to : Moves(u, from, to) \/ Reply(u, from, to) => pc' = [pc EXCEPT ![u] = to]
  BY DEF Moves, Reply
<1>3. CASE NewRequest(u)
  <2>1. \E to : pc' = [pc EXCEPT ![u] = to]
    BY <1>3 DEF NewRequest, EventRequest, ListScenarios, PostScenario, PutScenario, StoreRequest,
       RemoveRequest, ActivateRequest
  <2> QED
    BY <1>1, <2>1
<1>4. CASE EventsStep(u) /\ UNCHANGED scenariosVars
  BY <1>4 DEF scenariosVars
<1>5. CASE Serve(u) /\ ~(EventsStep(u) /\ UNCHANGED scenariosVars)
  <2>1. \E to : pc' = [pc EXCEPT ![u] = to]
    BY <1>2, <1>5 DEF Serve, EventReply, ScenarioCleaned, EnterAdd, InsertScenario, RemoveScenario,
       EnterActivate, ScenarioFound, ScenarioNotFound, ActivationCleaned, BeginActivation,
       NextActivity, ActivitySet, ActivityNotSet, CommitActivation
  <2> QED
    BY <1>1, <2>1
<1> QED
  BY <1>3, <1>4, <1>5

(* The only step from "apply" to a good answer is a COMMIT that succeeds.   *)
LEMMA GoodAnswerCommits ==
  ASSUME ServerInv, NEW u \in Threads, NewRequest(u) \/ Serve(u),
         NEW t \in Threads, pc[t] = "apply", pc'[t] = "ok"
  PROVE  Commit(TRUE)
<1>1. pc \in [Threads -> PCs]
  BY DEF ServerInv, ServerTypeOK
<1>2. u = t
  BY PlaceMoves
<1>3. CommitActivation(t)
  <2>1. ~NewRequest(t)
    BY DEF NewRequest, EventRequest, ListScenarios, PostScenario, PutScenario, StoreRequest,
       RemoveRequest, ActivateRequest, Idle
  <2>2. ~NextActivity(t)
    BY <1>1 DEF NextActivity, Moves
  <2> QED
    BY <1>2, <2>1, <2>2 DEF Serve, scenariosVars, EventReply, ScenarioCleaned, EnterAdd,
       InsertScenario, RemoveScenario, EnterActivate, ScenarioFound, ScenarioNotFound,
       ActivationCleaned, BeginActivation, ActivitySet, ActivityNotSet, Moves, Reply
<1> QED
  BY <1>1, <1>3 DEF CommitActivation, Reply, Moves

(***************************************************************************)
(* An activation that is answered OK is in the file as a whole, on the     *)
(* connection that began it: had that been reopened or rolled back         *)
(* meanwhile, the COMMIT would have failed (ScenariosController.cpp:127-    *)
(* 151).  This holds with every fault the connection has.                  *)
(***************************************************************************)
THEOREM AnsweredIsDurable == ServerSpec => ActivationDurable
<1>1. ASSUME ServerInv, [ServerNext]_serverVars, NEW t \in Threads, pc[t] = "apply", pc'[t] = "ok"
      PROVE  durable' = db /\ db' = db
  <2>1. Commit(TRUE)
    BY <1>1, GoodAnswerCommits DEF ServerNext, RestartServer, serverVars, scenariosVars
  <2>2. PICK c \in Connections :
          c.tx = TRUE /\ db' = c.rows /\ durable' = IF c.tx THEN c.rows ELSE durable
    BY <2>1 DEF Commit
  <2>3. c = [rows |-> db, tx |-> txOpen] \/ c = [rows |-> durable, tx |-> FALSE]
    BY DEF Connections
  <2> QED
    BY <2>2, <2>3
<1>2. ServerInv /\ [ServerNext]_serverVars
        => [\A t \in Threads : pc[t] = "apply" /\ pc'[t] = "ok" => durable' = db /\ db' = db]_serverVars
  BY <1>1
<1> QED
  BY <1>2, ServerInvariant, PTL DEF ServerSpec, ActivationDurable
------------------------------------------------------------------------------
(* What one step of a thread may do to the connection.                      *)
LEMMA StatementShape ==
  ASSUME NEW t \in Threads, NewRequest(t) \/ Serve(t)
  PROVE  \/ UNCHANGED storageVars
         \/ \E c \in Connections : \E rows : Leaves(c, rows)
         \/ \E k : Fails(k)
         \/ BeginActivation(t)
         \/ CommitActivation(t)
<1>1. EventsStep(t) => \/ UNCHANGED storageVars
                       \/ \E c \in Connections : \E rows : Leaves(c, rows)
                       \/ \E k : Fails(k)
  BY DEF EventsStep, EnterEvents, FillCache, ListEvents, AddEvent, UpdateEvent, UpdateImpl,
     SetActivity, DeleteEvent, RefillAfterDelete, NotFound
<1>2. FillIfEmpty => \/ UNCHANGED storageVars
                     \/ \E c \in Connections : \E rows : Leaves(c, rows)
                     \/ \E k : Fails(k)
  BY DEF FillIfEmpty, FillScenariosCache
<1>3. CASE NewRequest(t)
  BY <1>2, <1>3 DEF NewRequest, EventRequest, ListScenarios, PostScenario, PutScenario,
     StoreRequest, RemoveRequest, ActivateRequest, storageVars
<1>4. CASE Serve(t)
  BY <1>1, <1>2, <1>4 DEF Serve, EventReply, ScenarioCleaned, EnterAdd, InsertScenario,
     RemoveScenario, EnterActivate, ScenarioFound, ScenarioNotFound, ActivationCleaned,
     NextActivity, ActivitySet, ActivityNotSet, storageVars
<1> QED
  BY <1>3, <1>4

(* A transaction begins for a thread with a BEGIN that succeeds.            *)
LEMMA TransactionBegins ==
  ASSUME ServerInv, NEW u \in Threads, NewRequest(u) \/ Serve(u),
         NEW t \in Threads, ~InTransaction(t), InTransaction(t)'
  PROVE  Begin(TRUE)
<1>1. pc \in [Threads -> PCs]
  BY DEF ServerInv, ServerTypeOK
<1>2. /\ pc[t] \notin {"apply", "setting"}
      /\ pc'[t] \in {"apply", "setting"}
  BY DEF InTransaction
<1>3. u = t
  BY <1>2, PlaceMoves
<1>4. BeginActivation(t)
  <2>1. ~NewRequest(t)
    BY <1>1, <1>2 DEF NewRequest, EventRequest, ListScenarios, PostScenario, PutScenario,
       StoreRequest, RemoveRequest, ActivateRequest
  <2>2. /\ ~EventReply(t) /\ ~InsertScenario(t) /\ ~RemoveScenario(t) /\ ~CommitActivation(t)
        /\ ~ActivitySet(t) /\ ~NextActivity(t)
    BY <1>1, <1>2 DEF EventReply, InsertScenario, RemoveScenario, CommitActivation, ActivitySet,
       NextActivity, Moves, Reply
  <2> QED
    BY <1>1, <1>2, <1>3, <2>1, <2>2 DEF Moves, Reply, Serve, scenariosVars, ScenarioCleaned, EnterAdd,
       EnterActivate, ScenarioFound, ScenarioNotFound, ActivationCleaned, ActivityNotSet
<1> QED
  BY <1>1, <1>2, <1>4 DEF BeginActivation, Reply, Moves

(***************************************************************************)
(* Once an activation has returned in the middle of its transaction, what  *)
(* anyone writes stays out of the file while that transaction is open, and *)
(* a new activation only begins when it has gone, on tables without those  *)
(* writes.  So nothing but the loss of the connection ends it, and what    *)
(* was answered OK meanwhile is lost with it.                              *)
(***************************************************************************)
THEOREM LeakedWritesLost == ServerSpec => LeakedWritesAreLost
<1>1. ASSUME ServerInv, [ServerNext]_serverVars, Leaked, ~RestartServer, txOpen'
      PROVE  durable' = durable
  <2>1. CASE UNCHANGED serverVars
    BY <2>1 DEF serverVars, vars, storageVars
  <2>2. ASSUME NEW t \in Threads, NewRequest(t) \/ Serve(t)
        PROVE  durable' = durable
    <3>1. ASSUME NEW c \in Connections, NEW rows, Leaves(c, rows)
          PROVE  durable' = durable
      BY <1>1, <3>1 DEF Leaves
    <3>2. ASSUME NEW k, Fails(k)
          PROVE  durable' = durable
      BY <3>2 DEF Fails, storageVars
    <3>3. CASE BeginActivation(t)
      BY <3>2, <3>3 DEF BeginActivation, Begin
    <3>4. ~CommitActivation(t)
      BY <1>1 DEF CommitActivation, Leaked, InTransaction
    <3> QED
      BY <2>2, <3>1, <3>2, <3>3, <3>4, StatementShape DEF storageVars
  <2> QED
    BY <1>1, <2>1, <2>2 DEF ServerNext
<1>2. ASSUME ServerInv, [ServerNext]_serverVars, Leaked, ~RestartServer,
             NEW t \in Threads, InTransaction(t)'
      PROVE  db' = durable'
  <2>1. ~InTransaction(t) /\ txOpen
    BY <1>2 DEF Leaked
  <2>2. Begin(TRUE)
    BY <1>2, <2>1, TransactionBegins DEF ServerNext, InTransaction, serverVars, scenariosVars
  <2>3. PICK c \in Connections : TRUE = ~c.tx /\ db' = c.rows /\ durable' = durable
    BY <2>2 DEF Begin
  <2>4. c = [rows |-> db, tx |-> txOpen] \/ c = [rows |-> durable, tx |-> FALSE]
    BY DEF Connections
  <2> QED
    BY <2>1, <2>3, <2>4
<1>3. ASSUME ServerInv, [ServerNext]_serverVars, Leaked, ~RestartServer
      PROVE  /\ txOpen' => durable' = durable
             /\ (\E t \in Threads : InTransaction(t))' => db' = durable'
  BY <1>1, <1>2, <1>3
<1> QED
  BY <1>3, ServerInvariant, PTL DEF ServerSpec, LeakedWritesAreLost
------------------------------------------------------------------------------
ScenariosCoherent == scenariosCache = db.scenarios

LEMMA FillIfEmptyCoherent ==
  ASSUME NoLostReads, ServerTypeOK, ScenariosCoherent, FillIfEmpty
  PROVE  ScenariosCoherent'
<1>1. CASE UNCHANGED <<scenariosCache, storageVars>>
  BY <1>1 DEF ScenariosCoherent, storageVars
<1>2. ASSUME NEW c \in Connections, Leaves(c, c.rows), scenariosCache = NoScenarios,
             scenariosCache' =
               [s \in ScenarioIds |->
                  IF scenariosCache[s] = Absent THEN c.rows.scenarios[s] ELSE scenariosCache[s]]
      PROVE  ScenariosCoherent'
  <2>1. c.rows = db /\ db' = db
    BY <1>2, ReliableConnection DEF Leaves
  <2>2. scenariosCache' = [s \in ScenarioIds |-> db.scenarios[s]]
    BY <1>2, <2>1 DEF NoScenarios
  <2>3. db.scenarios \in ScenarioTable
    BY DEF ServerTypeOK
  <2> QED
    BY <2>1, <2>2, <2>3 DEF ScenariosCoherent, ScenarioTable
<1> QED
  BY <1>1, <1>2, ReliableConnection DEF FillIfEmpty, FillScenariosCache

(* The events controller leaves the table of scenarios alone.               *)
LEMMA EventsStepScenarios ==
  ASSUME NoLostReads, NEW t \in Threads, EventsStep(t), db \in ServerTables
  PROVE  db'.scenarios = db.scenarios
<1>1. \A c \in Connections : c.rows = db
  BY ReliableConnection
<1>2. \A c \in Connections : Leaves(c, c.rows) => db' = db
  BY <1>1 DEF Leaves
<1>3. \A c \in Connections : \A id, ev :
        Leaves(c, WithEvent(c, id, ev)) => db'.scenarios = db.scenarios
  BY <1>1 DEF Leaves, WithEvent, ServerTables
<1>4. \A k : Fails(k) => db' = db
  BY ReliableConnection DEF storageVars
<1>5. FillCache => db' = db
  BY <1>2, <1>4 DEF FillCache
<1>6. \A id, ev : UpdateImpl(t, id, ev) => db'.scenarios = db.scenarios
  <2>1. ASSUME NEW id, NEW ev, NEW c \in Connections,
               Leaves(c, IF c.rows.events[id] = Absent THEN c.rows ELSE WithEvent(c, id, ev))
        PROVE  db'.scenarios = db.scenarios
    <3>1. CASE c.rows.events[id] = Absent
      BY <1>2, <2>1, <3>1
    <3>2. CASE c.rows.events[id] # Absent
      BY <1>3, <2>1, <3>2
    <3> QED
      BY <3>1, <3>2
  <2> QED
    BY <1>4, <2>1 DEF UpdateImpl
<1>7. CASE EnterEvents(t) \/ ListEvents(t) \/ RefillAfterDelete(t)
  BY <1>5, <1>7 DEF EnterEvents, ListEvents, RefillAfterDelete, storageVars
<1>8. CASE AddEvent(t)
  BY <1>2, <1>3, <1>4, <1>8 DEF AddEvent
<1>9. CASE UpdateEvent(t) \/ SetActivity(t)
  BY <1>6, <1>9 DEF UpdateEvent, SetActivity, NotFound, storageVars
<1>10. CASE DeleteEvent(t)
  BY <1>3, <1>4, <1>10 DEF DeleteEvent, NotFound, storageVars
<1> QED
  BY <1>7, <1>8, <1>9, <1>10 DEF EventsStep

LEMMA ServeCoherent ==
  ASSUME NoLostReads, ServerInv, ScenariosCoherent, NEW t \in Threads, NewRequest(t) \/ Serve(t)
  PROVE  ScenariosCoherent'
<1>1. ServerTypeOK /\ db \in ServerTables
  BY DEF ServerInv, ServerTypeOK, ServerTables
<1>2. UNCHANGED <<storageVars, scenariosCache>> => ScenariosCoherent'
  BY DEF ScenariosCoherent, storageVars
<1>3. \A c \in Connections : c.rows = db
  BY ReliableConnection
<1>4. Fails("write") => db' = db
  BY ReliableConnection DEF storageVars
<1>5. CASE InsertScenario(t)
  <2> DEFINE s == ContentOf(job[t])
             id == job[t].id
  <2>1. CASE Fails("write") /\ UNCHANGED scenariosCache
    BY <1>4, <2>1 DEF ScenariosCoherent
  <2>2. ASSUME NEW c \in Connections, Leaves(c, c.rows), UNCHANGED scenariosCache
        PROVE  ScenariosCoherent'
    BY <1>3, <2>2 DEF ScenariosCoherent, Leaves
  <2>3. ASSUME NEW c \in Connections, c.rows.scenarios[id] = Absent,
               Leaves(c, [c.rows EXCEPT !.scenarios[id] = s]),
               scenariosCache' = IF scenariosCache[id] = Absent
                                   THEN [scenariosCache EXCEPT ![id] = s] ELSE scenariosCache
        PROVE  ScenariosCoherent'
    <3>1. scenariosCache' = [db.scenarios EXCEPT ![id] = s]
      BY <1>3, <2>3 DEF ScenariosCoherent
    <3>2. db' = [db EXCEPT !.scenarios[id] = s]
      BY <1>3, <2>3 DEF Leaves
    <3> QED
      BY <1>1, <3>1, <3>2 DEF ScenariosCoherent, ServerTables
  <2> QED
    BY <1>5, <2>1, <2>2, <2>3 DEF InsertScenario
<1>6. CASE RemoveScenario(t)
  <2>1. CASE Fails("write") /\ UNCHANGED scenariosCache
    BY <1>4, <2>1 DEF ScenariosCoherent
  <2>2. ASSUME NEW c \in Connections, Leaves(c, [c.rows EXCEPT !.scenarios[job[t].id] = Absent]),
               scenariosCache' = [scenariosCache EXCEPT ![job[t].id] = Absent]
        PROVE  ScenariosCoherent'
    <3>1. db' = [db EXCEPT !.scenarios[job[t].id] = Absent]
      BY <1>3, <2>2 DEF Leaves
    <3> QED
      BY <1>1, <2>2, <3>1 DEF ScenariosCoherent, ServerTables
  <2> QED
    BY <1>6, <2>1, <2>2 DEF RemoveScenario
<1>7. CASE BeginActivation(t) \/ CommitActivation(t)
  BY <1>7, ReliableTransaction DEF BeginActivation, CommitActivation, ScenariosCoherent
<1>8. CASE EventsStep(t) /\ UNCHANGED scenariosVars
  BY <1>1, <1>8, EventsStepScenarios DEF ScenariosCoherent, scenariosVars
<1>9. CASE FillIfEmpty
  BY <1>1, <1>9, FillIfEmptyCoherent
<1>10. CASE NewRequest(t)
  BY <1>2, <1>9, <1>10 DEF NewRequest, EventRequest, ListScenarios, PostScenario, PutScenario,
     StoreRequest, RemoveRequest, ActivateRequest
<1>11. CASE Serve(t)
  BY <1>2, <1>5, <1>6, <1>7, <1>8, <1>9, <1>11 DEF Serve, EventReply, ScenarioCleaned, EnterAdd,
     EnterActivate, ScenarioFound, ScenarioNotFound, ActivationCleaned, NextActivity, ActivitySet,
     ActivityNotSet
<1> QED
  BY <1>10, <1>11

(***************************************************************************)
(* The cache of scenarios is their table, through every activation that    *)
(* stops half-way and every transaction left open, while no SELECT fails   *)
(* and no transaction is lost with its connection: the cache and the table *)
(* change together, and nothing of an activation touches either.           *)
(***************************************************************************)
THEOREM ScenariosCacheCorrect == NoLostReads => (ServerSpec => []ScenariosCacheIsTable)
<1> SUFFICES ASSUME NoLostReads PROVE ServerSpec => []ScenariosCacheIsTable
  OBVIOUS
<1>1. ServerInit => ScenariosCoherent
  BY DEF ServerInit, ScenariosCoherent
<1>2. ServerInv /\ ScenariosCoherent /\ [ServerNext]_serverVars => ScenariosCoherent'
  <2> SUFFICES ASSUME ServerInv, ScenariosCoherent, [ServerNext]_serverVars
               PROVE  ScenariosCoherent'
    OBVIOUS
  <2>1. CASE UNCHANGED serverVars
    BY <2>1 DEF ScenariosCoherent, serverVars, vars, storageVars, scenariosVars
  <2>2. CASE RestartServer
    BY <2>2 DEF NoLostReads, RestartServer, Restart, Reconnects, ScenariosCoherent
  <2> QED
    BY <2>1, <2>2, ServeCoherent DEF ServerNext
<1>3. ScenariosCoherent => ScenariosCacheIsTable
  BY DEF ScenariosCoherent, ScenariosCacheIsTable
<1> QED
  BY <1>1, <1>2, <1>3, ServerInvariant, PTL DEF ServerSpec
------------------------------------------------------------------------------
(***************************************************************************)
(* Proof that the server implements AtomicScenarios, for any number of     *)
(* threads, events and scenarios, any contents of the tables and any       *)
(* failing write or crash, when no client edits events: whoever reads the  *)
(* file sees a scenario applied as a whole or not at all.                  *)
(*                                                                         *)
(* The argument: what an activation has done and what it has still to do   *)
(* come, at each moment, to the whole activation of the scenario.          *)
(***************************************************************************)
(* An edit made during an activation joins its transaction.                 *)
NoEdits == Requests \cap {"addEvent", "updateEvent", "deleteEvent"} = {}

On(ev) == [ev EXCEPT !.active = TRUE]
Off(ev) == [ev EXCEPT !.active = FALSE]

(* A table of events after those of on are activated, then those of off     *)
(* are deactivated.                                                        *)
Applied(table, on, off) ==
  [e \in EventIds |->
     IF table[e] = Absent THEN Absent
     ELSE IF e \in off THEN Off(table[e])
     ELSE IF e \in on THEN On(table[e])
     ELSE table[e]]

(* The event whose activity a thread is about to set to b, and all of them. *)
Setting(t, b) ==
  IF pc[t] = "setting" /\ call[t].step # "ok" /\ call[t].active = b THEN {call[t].id} ELSE {}

ToActivate(t) == job[t].activate \cup Setting(t, TRUE)
ToDeactivate(t) == job[t].deactivate \cup Setting(t, FALSE)

(* The transaction of thread t has only to go on as it does.                *)
Applies(t) ==
  LET s == durable.scenarios[job[t].id]
  IN  /\ txOpen
      /\ durable.scenarios = db.scenarios
      /\ s # Absent
      /\ ToActivate(t) \cup ToDeactivate(t) \subseteq Ids(db.events)
      /\ Setting(t, FALSE) # {} => job[t].activate = {}
      /\ Applied(db.events, ToActivate(t), ToDeactivate(t))
           = Applied(durable.events, s.activate, s.deactivate)

(* The scenario of an activation is the stored one, first as it is and then *)
(* without the events that do not exist.                                   *)
Activates(t) ==
  LET s == db.scenarios[job[t].id]
  IN  /\ pc[t] = "cleanActivate" =>
           /\ s # Absent
           /\ job[t].activate = s.activate /\ job[t].deactivate = s.deactivate
      /\ pc[t] = "begin" =>
           /\ s # Absent
           /\ job[t].activate = s.activate \cap Ids(db.events)
           /\ job[t].deactivate = s.deactivate \cap Ids(db.events)
      /\ InTransaction(t) => Applies(t)

(* Without edits, handlers list events and set their activity.              *)
CallFits(t) ==
  /\ IF pc[t] = "setting" THEN call[t].op = "setActivity" ELSE call[t].op \in {"none", "list"}
  /\ call[t].step # "refill"
  /\ call[t].op = "list" /\ call[t].step = "ok" => listed[t] = Ids(db.events)

EventsCoherent == eventsCache = db.events

SameIds == Ids(db.events) = Ids(durable.events)

ActivationInv ==
  /\ NothingPending /\ SameIds /\ EventsCoherent /\ ScenariosCoherent
  /\ \A t \in Threads : CallFits(t) /\ Activates(t)
------------------------------------------------------------------------------
(* What is left to do to a table, as one operation on it.                   *)
LEMMA SwitchedEvent ==
  ASSUME NEW ev \in Event
  PROVE  /\ ev # Absent /\ On(ev) # Absent /\ Off(ev) # Absent
         /\ On(On(ev)) = On(ev) /\ Off(On(ev)) = Off(ev) /\ Off(Off(ev)) = Off(ev)
<1>1. On(ev) \in Event /\ Off(ev) \in Event
  BY DEF On, Off, Event
<1>2. Absent \notin Event
  BY ThreadsAssumption DEF Event
<1>3. On(On(ev)) = On(ev) /\ Off(Off(ev)) = Off(ev)
  BY DEF On, Off, Event
<1>4. Off(On(ev)) = Off(ev)
  BY DEF On, Off, Event
<1> QED
  BY <1>1, <1>2, <1>3, <1>4

LEMMA NothingLeft ==
  ASSUME NEW table \in EventTable
  PROVE  Applied(table, {}, {}) = table
BY DEF Applied, EventTable

LEMMA OnlyStoredEvents ==
  ASSUME NEW table, NEW on, NEW off
  PROVE  Applied(table, on \cap Ids(table), off \cap Ids(table)) = Applied(table, on, off)
BY DEF Applied, Ids

(* One event of a table is switched, and the others are kept.               *)
KeepsOthers(table, new, id) == \A e \in EventIds : e # id => new[e] = table[e]
SwitchesOn(table, new, id) == new[id] = On(table[id]) /\ KeepsOthers(table, new, id)
SwitchesOff(table, new, id) == new[id] = Off(table[id]) /\ KeepsOthers(table, new, id)

LEMMA OneActivated ==
  ASSUME NEW table \in EventTable, NEW id \in Ids(table), NEW new, SwitchesOn(table, new, id)
  PROVE  /\ \A on, off : Applied(new, on, off) = Applied(table, on \cup {id}, off)
         /\ Ids(new) = Ids(table)
<1>1. id \in EventIds /\ table[id] \in Event
  BY DEF Ids, EventTable
<1>2. /\ new[id] # Absent /\ table[id] # Absent
      /\ On(new[id]) = On(table[id]) /\ Off(new[id]) = Off(table[id])
      /\ new[id] = On(table[id])
  BY <1>1, SwitchedEvent DEF SwitchesOn
<1>3. ASSUME NEW on, NEW off PROVE Applied(new, on, off) = Applied(table, on \cup {id}, off)
  BY <1>2 DEF Applied, SwitchesOn, KeepsOthers
<1> QED
  BY <1>1, <1>2, <1>3 DEF Ids, SwitchesOn, KeepsOthers

(* Deactivations come when no activation is left.                           *)
LEMMA OneDeactivated ==
  ASSUME NEW table \in EventTable, NEW id \in Ids(table), NEW new, SwitchesOff(table, new, id)
  PROVE  /\ \A off : Applied(new, {}, off) = Applied(table, {}, off \cup {id})
         /\ Ids(new) = Ids(table)
<1>1. id \in EventIds /\ table[id] \in Event
  BY DEF Ids, EventTable
<1>2. /\ new[id] # Absent /\ table[id] # Absent
      /\ Off(new[id]) = Off(table[id])
      /\ new[id] = Off(table[id])
  BY <1>1, SwitchedEvent DEF SwitchesOff
<1>3. ASSUME NEW off PROVE Applied(new, {}, off) = Applied(table, {}, off \cup {id})
  BY <1>2 DEF Applied, SwitchesOff, KeepsOthers
<1> QED
  BY <1>1, <1>2, <1>3 DEF Ids, SwitchesOff, KeepsOthers
------------------------------------------------------------------------------
(* A step that another thread takes.                                        *)
LEMMA OthersKeep ==
  ASSUME NEW u \in Threads, CallFits(u), Activates(u),
         pc'[u] = pc[u], job'[u] = job[u], call'[u] = call[u], listed'[u] = listed[u],
         Ids(db.events)' = Ids(db.events),
         UNCHANGED storageVars \/ pc[u] \notin Holding
  PROVE  CallFits(u)' /\ Activates(u)'
<1>1. CallFits(u)'
  BY DEF CallFits
<1>2. CASE pc[u] \notin Holding
  BY <1>1, <1>2 DEF Holding, Activates, InTransaction
<1>3. CASE UNCHANGED storageVars
  BY <1>1, <1>3 DEF Activates, InTransaction, Applies, storageVars, ToActivate, ToDeactivate, Setting
<1> QED
  BY <1>1, <1>2, <1>3

(* Steps that leave the connection alone, for the threads and the tables.   *)
LEMMA QuietTables ==
  ASSUME ActivationInv, UNCHANGED storageVars, eventsCache' = eventsCache,
         scenariosCache' = scenariosCache
  PROVE  NothingPending' /\ SameIds' /\ EventsCoherent' /\ ScenariosCoherent'
BY DEF ActivationInv, NothingPending, SameIds, EventsCoherent, ScenariosCoherent, storageVars, Ids

LEMMA ReadTables ==
  ASSUME NoLostReads, ServerInv, ActivationInv, NEW c \in Connections, Leaves(c, c.rows)
  PROVE  UNCHANGED storageVars
<1>1. c = [rows |-> db, tx |-> txOpen]
  BY ReliableConnection
<1> QED
  BY <1>1 DEF Leaves, ActivationInv, NothingPending, storageVars, ServerInv, ServerTypeOK
------------------------------------------------------------------------------
(* A method goes on with its arguments.                                     *)
LEMMA GotoFields ==
  ASSUME NEW t \in Threads, call \in [Threads -> Calls], call[t] # NoCall, NEW s \in Steps, Goto(t, s)
  PROVE  /\ call'[t].step = s /\ call'[t].op = call[t].op
         /\ call[t].op = "setActivity" =>
              /\ call[t].id \in EventIds /\ call[t].active \in BOOLEAN
              /\ call'[t].id = call[t].id /\ call'[t].active = call[t].active
         /\ \A u \in Threads : u # t => call'[u] = call[u]
<1>1. call[t] \in Calls
  OBVIOUS
<1>2. call' = [call EXCEPT ![t] = [call[t] EXCEPT !.step = s]]
  BY DEF Goto
<1>3. /\ [call[t] EXCEPT !.step = s].step = s
      /\ [call[t] EXCEPT !.step = s].op = call[t].op
  BY <1>1 DEF Calls, NoCall
<1>4. ASSUME call[t].op = "setActivity"
      PROVE  /\ call[t].id \in EventIds /\ call[t].active \in BOOLEAN
             /\ [call[t] EXCEPT !.step = s].id = call[t].id
             /\ [call[t] EXCEPT !.step = s].active = call[t].active
  <2>1. call[t] \in [op : {"setActivity"}, step : Steps, id : EventIds, active : BOOLEAN]
    BY <1>1, <1>4 DEF Calls, NoCall
  <2> QED
    BY <2>1
<1> QED
  BY <1>2, <1>3, <1>4

(* The step of a method that leaves all tables alone: the mutex, a List, or *)
(* a failure.                                                              *)
LEMMA QuietMethod ==
  ASSUME ServerInv, ActivationInv, NEW t \in Threads, call[t] # NoCall, NEW s \in Steps \ {"refill"},
         Goto(t, s), call[t].step # "ok", s = "ok" => call[t].op = "list",
         UNCHANGED storageVars, EventsCoherent', UNCHANGED scenariosVars,
         \/ listed' = listed /\ s # "ok"
         \/ listed' = [listed EXCEPT ![t] = Ids(db.events)]
  PROVE  ActivationInv'
<1>1. call \in [Threads -> Calls] /\ listed \in [Threads -> SUBSET EventIds]
  BY DEF ServerInv, ServerTypeOK
<1>2. /\ call'[t].step = s /\ call'[t].op = call[t].op
      /\ call[t].op = "setActivity" => call'[t].id = call[t].id /\ call'[t].active = call[t].active
      /\ \A u \in Threads : u # t => call'[u] = call[u]
  BY <1>1, GotoFields
<1>3. /\ \A u \in Threads : u # t => listed'[u] = listed[u]
      /\ s = "ok" => listed'[t] = Ids(db.events)
  BY <1>1
<1>4. NothingPending' /\ SameIds' /\ ScenariosCoherent' /\ Ids(db.events)' = Ids(db.events)
  BY DEF ActivationInv, NothingPending, SameIds, ScenariosCoherent, storageVars, Ids, scenariosVars
<1>5. ASSUME NEW u \in Threads, u # t
      PROVE  CallFits(u)' /\ Activates(u)'
  BY <1>2, <1>3, <1>4, <1>5, OthersKeep DEF ActivationInv, scenariosVars
<1>6. CallFits(t) /\ Activates(t)
  BY DEF ActivationInv
<1>7. CallFits(t)'
  <2>1. s = "ok" => listed'[t] = Ids(db.events)'
    BY <1>3, <1>4
  <2> QED
    BY <1>2, <1>6, <2>1 DEF CallFits, scenariosVars
<1>8. Activates(t)'
  <2>1. Setting(t, TRUE)' = Setting(t, TRUE) /\ Setting(t, FALSE)' = Setting(t, FALSE)
    BY <1>2, <1>6 DEF Setting, CallFits, scenariosVars
  <2> QED
    BY <1>6, <2>1 DEF Activates, InTransaction, Applies, ToActivate, ToDeactivate, storageVars, scenariosVars
<1> QED
  BY <1>4, <1>5, <1>7, <1>8 DEF ActivationInv

(* SetActivity in the transaction of t: one activity less to set.           *)
LEMMA ActivityWritten ==
  ASSUME ServerInv, ActivationInv, NEW t \in Threads, pc[t] = "setting", call[t].step = "locked",
         Goto(t, "ok"), UNCHANGED <<listed, scenariosVars>>,
         IF call[t].active THEN SwitchesOn(db.events, db'.events, call[t].id)
                           ELSE SwitchesOff(db.events, db'.events, call[t].id),
         db'.scenarios = db.scenarios,
         durable' = IF txOpen THEN durable ELSE db', txOpen' = txOpen,
         EventsCoherent'
  PROVE  ActivationInv'
<1> DEFINE id == call[t].id
           b == call[t].active
<1>1. /\ call \in [Threads -> Calls] /\ db \in ServerTables /\ db.events \in EventTable
      /\ durable \in ServerTables
  BY DEF ServerInv, ServerTypeOK, ServerTables
<1>2. CallFits(t) /\ Activates(t) /\ InTransaction(t) /\ Applies(t) /\ call[t].op = "setActivity"
  BY DEF ActivationInv, CallFits, Activates, InTransaction
<1>3. call[t] # NoCall /\ "ok" \in Steps
  BY <1>2 DEF NoCall, Steps
<1>4. /\ call'[t].step = "ok" /\ call'[t].op = "setActivity"
      /\ id \in EventIds /\ b \in BOOLEAN
      /\ \A u \in Threads : u # t => call'[u] = call[u]
  BY <1>1, <1>2, <1>3, GotoFields
<1>5. id \in Ids(db.events)
  BY <1>4, <1>2 DEF Applies, ToActivate, ToDeactivate, Setting
<1> HIDE DEF id, b
<1>6. IF b THEN SwitchesOn(db.events, db'.events, id) ELSE SwitchesOff(db.events, db'.events, id)
  BY DEF id, b
<1>7. txOpen /\ txOpen' /\ durable' = durable
  BY <1>2 DEF Applies
<1>8. Ids(db.events)' = Ids(db.events)
  BY <1>1, <1>4, <1>5, <1>6, OneActivated, OneDeactivated
<1>9. NothingPending' /\ SameIds' /\ ScenariosCoherent'
  BY <1>6, <1>7, <1>8 DEF ActivationInv, NothingPending, SameIds, ScenariosCoherent, scenariosVars
<1>10. ASSUME NEW u \in Threads, u # t
       PROVE  CallFits(u)' /\ Activates(u)'
  <2>1. pc[u] \notin Holding
    BY <1>10 DEF ServerInv, ScenariosMutexHeld, Holding
  <2> QED
    BY <1>4, <1>8, <1>10, <2>1, OthersKeep DEF ActivationInv, scenariosVars
<1>11. CallFits(t)'
  BY <1>4 DEF CallFits, scenariosVars
<1>12. /\ Setting(t, TRUE)' = {} /\ Setting(t, FALSE)' = {}
       /\ Setting(t, TRUE) = (IF b THEN {id} ELSE {}) /\ Setting(t, FALSE) = (IF b THEN {} ELSE {id})
  BY <1>4 DEF Setting, id, b, scenariosVars
<1>13. Applied(db'.events, job[t].activate, job[t].deactivate)
         = Applied(db.events, ToActivate(t), ToDeactivate(t))
  <2>1. CASE b
    <3>1. ToActivate(t) = job[t].activate \cup {id} /\ ToDeactivate(t) = job[t].deactivate
      BY <1>12, <2>1 DEF ToActivate, ToDeactivate
    <3>2. SwitchesOn(db.events, db'.events, id)
      BY <1>6, <2>1
    <3>3. \A on, off : Applied(db'.events, on, off) = Applied(db.events, on \cup {id}, off)
      <4>1. db.events \in EventTable
        BY <1>1
      <4> QED
        BY <1>5, <3>2, <4>1, OneActivated
    <3> QED
      BY <3>1, <3>3
  <2>2. CASE ~b
    <3>1. job[t].activate = {}
      BY <1>2, <1>12, <2>2 DEF Applies
    <3>2. ToActivate(t) = {} /\ ToDeactivate(t) = job[t].deactivate \cup {id}
      BY <1>12, <2>2, <3>1 DEF ToActivate, ToDeactivate
    <3>3. SwitchesOff(db.events, db'.events, id)
      BY <1>6, <2>2
    <3>4. \A off : Applied(db'.events, {}, off) = Applied(db.events, {}, off \cup {id})
      BY <1>1, <1>5, <3>3, OneDeactivated
    <3> QED
      BY <3>1, <3>2, <3>4
  <2> QED
    BY <1>4, <2>1, <2>2
<1>14. Activates(t)'
  <2>1. ToActivate(t)' = job[t].activate /\ ToDeactivate(t)' = job[t].deactivate
    BY <1>12 DEF ToActivate, ToDeactivate, scenariosVars
  <2>2. ToActivate(t)' \cup ToDeactivate(t)' \subseteq Ids(db.events)
    BY <1>2, <2>1 DEF Applies, ToActivate, ToDeactivate
  <2>3. Applies(t)'
    BY <1>2, <1>6, <1>7, <1>8, <1>12, <1>13, <2>1, <2>2 DEF Applies, scenariosVars
  <2> QED
    BY <2>3 DEF Activates, InTransaction, scenariosVars
<1> QED
  BY <1>9, <1>10, <1>11, <1>14 DEF ActivationInv

(* An activity that is set in the table is switched on or off there.        *)
LEMMA RowSwitched ==
  ASSUME ServerInv, EventsCoherent, NEW id \in Ids(db.events), NEW b \in BOOLEAN,
         db' = WithEvent([rows |-> db, tx |-> txOpen], id, [eventsCache[id] EXCEPT !.active = b])
  PROVE  /\ IF b THEN SwitchesOn(db.events, db'.events, id) ELSE SwitchesOff(db.events, db'.events, id)
         /\ db'.scenarios = db.scenarios
<1> DEFINE ev == [eventsCache[id] EXCEPT !.active = b]
<1>1. db \in ServerTables /\ db.events \in EventTable /\ id \in EventIds /\ db.events[id] \in Event
  BY DEF ServerInv, ServerTypeOK, ServerTables, Ids, EventTable
<1>2. ev \in Event
  BY <1>1 DEF EventsCoherent, Event
<1>3. db'.events = [db.events EXCEPT ![id] = ev]
  BY <1>1, <1>2, ServerTablesHoldEvents, WithEventRow
<1>4. db'.events[id] = ev /\ KeepsOthers(db.events, db'.events, id)
  BY <1>1, <1>3 DEF EventTable, KeepsOthers
<1>5. IF b THEN ev = On(db.events[id]) ELSE ev = Off(db.events[id])
  BY <1>1 DEF EventsCoherent, On, Off, Event
<1>6. db'.scenarios = db.scenarios
  BY <1>1 DEF WithEvent, ServerTables
<1> QED
  BY <1>4, <1>5, <1>6 DEF SwitchesOn, SwitchesOff

LEMMA EventsStepActivation ==
  ASSUME NoLostReads, ServerInv, ActivationInv, NEW t \in Threads, EventsStep(t), UNCHANGED scenariosVars
  PROVE  ActivationInv'
<1>1. /\ call \in [Threads -> Calls] /\ CallFits(t) /\ EventsCoherent /\ EventsTypeOK(ServerTables)
  BY ServerTypeSplit DEF ServerInv, ServerTypeOK, ActivationInv
<1>2. call[t].step \in {"waiting", "locked"}
  BY <1>1, EventsStepShape DEF CallFits
<1>3. call[t] # NoCall /\ "ok" \in Steps /\ "locked" \in Steps /\ "failed" \in Steps
  BY <1>2 DEF NoCall, Steps
<1>4. call[t].op \in {"none", "list", "setActivity"}
  BY <1>1 DEF CallFits
<1>5. UNCHANGED <<eventsCache, storageVars>> => UNCHANGED storageVars /\ EventsCoherent'
  BY <1>1 DEF EventsCoherent, storageVars
<1>6. CASE EnterEvents(t)
  <2>1. UNCHANGED storageVars /\ EventsCoherent'
    <3>1. CASE FillCache
      <4>1. PICK c \in Connections : eventsCache' = c.rows.events /\ Leaves(c, c.rows)
        BY <3>1, ReliableConnection DEF FillCache
      <4> QED
        BY <3>1, <4>1, ReadTables, FillCacheCoherent DEF EventsCoherent
    <3> QED
      BY <1>5, <1>6, <3>1 DEF EnterEvents
  <2>2. Goto(t, "locked") /\ listed' = listed
    BY <1>6 DEF EnterEvents
  <2>3. "locked" \in Steps \ {"refill"} /\ "locked" # "ok"
    BY DEF Steps
  <2> QED
    BY <1>2, <1>3, <2>1, <2>2, <2>3, QuietMethod
<1>7. CASE ListEvents(t)
  <2>1. /\ Goto(t, "ok") /\ call[t].op = "list" /\ UNCHANGED storageVars /\ EventsCoherent'
        /\ listed' = [listed EXCEPT ![t] = Ids(db.events)]
    BY <1>1, <1>5, <1>7 DEF ListEvents, Unlock, InMethod, EventsCoherent
  <2>2. "ok" \in Steps \ {"refill"}
    BY DEF Steps
  <2> QED
    BY <1>2, <1>3, <2>1, <2>2, QuietMethod
<1>8. CASE SetActivity(t)
  <2> DEFINE id == call[t].id
             b == call[t].active
             ev == [eventsCache[id] EXCEPT !.active = b]
  <2>1. /\ call[t].op = "setActivity" /\ call[t].step = "locked" /\ pc[t] = "setting"
        /\ listed' = listed
    BY <1>1, <1>8 DEF SetActivity, InMethod, CallFits
  <2>2. id \in EventIds /\ b \in BOOLEAN
    BY <1>1, <2>1 DEF Calls, NoCall
  <2>3. CASE Goto(t, "failed") /\ UNCHANGED <<eventsCache, storageVars>>
    <3>1. "failed" \in Steps \ {"refill"} /\ "failed" # "ok"
      BY DEF Steps
    <3> QED
      BY <1>3, <1>5, <2>1, <2>3, <3>1, QuietMethod
  <2>4. ASSUME eventsCache[id] # Absent, UpdateImpl(t, id, ev)
        PROVE  ActivationInv'
    <3>1. CASE Fails("write") /\ Unlock(t, "failed") /\ UNCHANGED eventsCache
      BY <2>3, <3>1, ReliableConnection DEF Unlock
    <3>2. ASSUME NEW c \in Connections,
                 Leaves(c, IF c.rows.events[id] = Absent THEN c.rows ELSE WithEvent(c, id, ev)),
                 eventsCache' = [eventsCache EXCEPT ![id] = ev],
                 Unlock(t, "ok")
          PROVE  ActivationInv'
      <4>1. c = [rows |-> db, tx |-> txOpen]
        BY ReliableConnection
      <4>2. id \in Ids(db.events)
        BY <1>1, <2>2, <2>4 DEF EventsCoherent, Ids
      <4>3. /\ db' = WithEvent([rows |-> db, tx |-> txOpen], id, ev)
            /\ durable' = (IF txOpen THEN durable ELSE db') /\ txOpen' = txOpen
        BY <3>2, <4>1, <4>2 DEF Leaves, Ids
      <4>4. /\ IF b THEN SwitchesOn(db.events, db'.events, id)
                    ELSE SwitchesOff(db.events, db'.events, id)
            /\ db'.scenarios = db.scenarios
        BY <1>1, <2>2, <4>2, <4>3, RowSwitched
      <4>5. EventsCoherent'
        <5>1. ev \in Event
          BY <1>1, <2>2, <4>2 DEF EventsCoherent, Ids, EventTable, EventsTypeOK, Event
        <5> QED
          BY <1>1, <2>2, <2>4, <5>1, ServerTablesHoldEvents, UpdateImplCoherent
             DEF EventsCoherent, EventsTypeOK
      <4>6. Goto(t, "ok") /\ UNCHANGED <<listed, scenariosVars>>
        BY <2>1, <3>2 DEF Unlock
      <4> QED
        BY <2>1, <4>3, <4>4, <4>5, <4>6, ActivityWritten
    <3> QED
      BY <2>4, <3>1, <3>2 DEF UpdateImpl
  <2> QED
    BY <1>8, <2>3, <2>4 DEF SetActivity, NotFound, Unlock
<1>9. ~AddEvent(t) /\ ~UpdateEvent(t) /\ ~DeleteEvent(t) /\ ~RefillAfterDelete(t)
  BY <1>2, <1>4 DEF AddEvent, UpdateEvent, DeleteEvent, RefillAfterDelete, InMethod
<1> QED
  BY <1>6, <1>7, <1>8, <1>9 DEF EventsStep
------------------------------------------------------------------------------
(* What the steps of a handler outside the events controller have in common: *)
(* the other threads stay where they are,                                  *)
OthersStay(t) ==
  \A u \in Threads : u # t =>
    pc'[u] = pc[u] /\ job'[u] = job[u] /\ call'[u] = call[u] /\ listed'[u] = listed[u]

HandlerMoves(t) == (NewRequest(t) \/ Serve(t)) /\ ~(EventsStep(t) /\ UNCHANGED scenariosVars)

LEMMA HandlerAlone ==
  ASSUME ServerInv, NEW t \in Threads, HandlerMoves(t)
  PROVE  OthersStay(t)
<1>1. /\ pc \in [Threads -> PCs] /\ job \in [Threads -> Job \cup {NoJob}]
      /\ call \in [Threads -> Calls] /\ listed \in [Threads -> SUBSET EventIds]
  BY DEF ServerInv, ServerTypeOK
<1>2. CASE NewRequest(t)
  BY <1>1, <1>2 DEF NewRequest, EventRequest, ListScenarios, PostScenario, PutScenario,
     StoreRequest, RemoveRequest, ActivateRequest, Calls2Events, OthersStay, eventsVars
<1>3. CASE Serve(t)
  <2>1. CASE EventReply(t) \/ ScenarioCleaned(t) \/ ActivationCleaned(t) \/ ActivitySet(t)
             \/ ActivityNotSet(t)
    BY <1>1, <2>1 DEF EventReply, ScenarioCleaned, ActivationCleaned, ActivitySet, ActivityNotSet,
       BackFromEvents, Moves, Reply, OthersStay
  <2>2. CASE ScenarioFound(t) \/ NextActivity(t)
    BY <1>1, <2>2 DEF ScenarioFound, NextActivity, Calls2Events, Moves, OthersStay
  <2>3. CASE EnterAdd(t) \/ InsertScenario(t) \/ RemoveScenario(t) \/ EnterActivate(t)
             \/ ScenarioNotFound(t) \/ BeginActivation(t) \/ CommitActivation(t)
    BY <1>1, <2>3 DEF EnterAdd, InsertScenario, RemoveScenario, EnterActivate, ScenarioNotFound,
       BeginActivation, CommitActivation, Moves, Reply, OthersStay, eventsVars
  <2> QED
    BY <1>3, <2>1, <2>2, <2>3 DEF HandlerMoves, Serve
<1> QED
  BY <1>2, <1>3 DEF HandlerMoves

(* and the table of events stays as it is, in the connection and, but for a *)
(* COMMIT, in the file.                                                    *)
LEMMA HandlerTables ==
  ASSUME NoLostReads, ServerInv, ActivationInv, NEW t \in Threads, HandlerMoves(t)
  PROVE  /\ eventsCache' = eventsCache /\ db'.events = db.events
         /\ durable'.events \in {db.events, durable.events}
         /\ UNCHANGED storageVars \/ scenariosMutex \in {NoThread, t}
<1> DEFINE Kept == /\ db'.events = db.events
                   /\ durable'.events \in {db.events, durable.events}
<1>1. UNCHANGED storageVars => Kept
  BY DEF storageVars
<1>2. FillIfEmpty => UNCHANGED storageVars
  BY ReliableConnection, ReadTables DEF FillIfEmpty, FillScenariosCache
<1>3. ASSUME NEW c \in Connections, NEW id, NEW s, Leaves(c, [c.rows EXCEPT !.scenarios[id] = s])
      PROVE  Kept
  <2>1. c.rows = db /\ db \in ServerTables
    BY ReliableConnection DEF ServerInv, ServerTypeOK, ServerTables
  <2>2. [c.rows EXCEPT !.scenarios[id] = s].events = db.events
    BY <2>1 DEF ServerTables
  <2> QED
    BY <1>3, <2>2 DEF Leaves
<1>4. \A ok \in BOOLEAN : Begin(ok) \/ Commit(ok) => Kept
  BY <1>1, ReliableConnection DEF Begin, Commit
<1> HIDE DEF Kept
<1>5. eventsCache' = eventsCache
  BY DEF HandlerMoves, NewRequest, EventRequest, ListScenarios, PostScenario, PutScenario,
     StoreRequest, RemoveRequest, ActivateRequest, Serve, EventReply, ScenarioCleaned, EnterAdd,
     InsertScenario, RemoveScenario, EnterActivate, ScenarioFound, ScenarioNotFound,
     ActivationCleaned, BeginActivation, NextActivity, ActivitySet, ActivityNotSet,
     CommitActivation, BackFromEvents, eventsVars
<1>6. CASE InsertScenario(t)
  <2>1. pc[t] = "inserting" /\ scenariosMutex = t
    BY <1>6 DEF InsertScenario, ServerInv, ScenariosMutexHeld
  <2>2. \A c \in Connections : Leaves(c, c.rows) => Kept
    BY <1>1, ReadTables
  <2>3. Fails("write") => Kept
    BY <1>1, ReliableConnection
  <2>4. Kept
    BY <1>3, <1>6, <2>2, <2>3 DEF InsertScenario
  <2> QED
    BY <1>5, <2>1, <2>4 DEF Kept
<1>7. CASE RemoveScenario(t)
  <2>1. scenariosMutex = NoThread /\ (Fails("write") => Kept)
    BY <1>1, <1>7, ReliableConnection DEF RemoveScenario
  <2>2. Kept
    BY <1>3, <1>7, <2>1 DEF RemoveScenario
  <2> QED
    BY <1>5, <2>1, <2>2 DEF Kept
<1>8. CASE BeginActivation(t) \/ CommitActivation(t)
  <2>1. scenariosMutex = t /\ Kept
    BY <1>4, <1>8 DEF BeginActivation, CommitActivation, ServerInv, ScenariosMutexHeld, Moves, Reply
  <2> QED
    BY <1>5, <2>1 DEF Kept
<1>9. CASE NewRequest(t)
  <2>1. UNCHANGED storageVars
    BY <1>2, <1>9 DEF NewRequest, EventRequest, ListScenarios, PostScenario, PutScenario,
     StoreRequest, RemoveRequest, ActivateRequest
  <2> QED
    BY <1>1, <1>5, <2>1 DEF Kept
<1>10. CASE Serve(t)
  <2>1. CASE UNCHANGED storageVars
    BY <1>1, <1>5, <2>1 DEF Kept
  <2> QED
    BY <1>2, <1>6, <1>7, <1>8, <1>10, <2>1 DEF HandlerMoves, Serve, EventReply, ScenarioCleaned,
       EnterAdd, EnterActivate, ScenarioFound, ScenarioNotFound, ActivationCleaned, NextActivity,
       ActivitySet, ActivityNotSet
<1> QED
  BY <1>9, <1>10 DEF HandlerMoves

(* So a handler keeps the invariant when its own part of it is kept.        *)
LEMMA HandlerActivation ==
  ASSUME NoLostReads, ServerInv, ActivationInv, NEW t \in Threads, HandlerMoves(t)
  PROVE  /\ Ids(db.events)' = Ids(db.events)
         /\ CallFits(t)' /\ Activates(t)' => ActivationInv'
<1>1. /\ eventsCache' = eventsCache /\ db'.events = db.events
      /\ durable'.events \in {db.events, durable.events}
      /\ UNCHANGED storageVars \/ scenariosMutex \in {NoThread, t}
  BY HandlerTables
<1>2. SameIds' /\ EventsCoherent' /\ Ids(db.events)' = Ids(db.events)
  BY <1>1 DEF ActivationInv, SameIds, EventsCoherent, Ids
<1>3. ScenariosCoherent'
  BY ServeCoherent DEF ActivationInv, HandlerMoves
<1>4. NothingPending'
  <2>1. NothingPending
    BY DEF ActivationInv
  <2>2. \A ok \in BOOLEAN : Begin(ok) \/ Commit(ok) => NothingPending'
    BY <2>1, TransactionNothingPending
  <2>3. CASE BeginActivation(t) \/ CommitActivation(t)
    BY <2>2, <2>3 DEF BeginActivation, CommitActivation
  <2>4. CASE UNCHANGED storageVars
    BY <2>1, <2>4 DEF NothingPending, storageVars
  <2> QED
    BY <2>1, <2>3, <2>4, StatementShape, LeavesNothingPending, FailsNothingPending DEF HandlerMoves
<1>5. ASSUME NEW u \in Threads, u # t
      PROVE  CallFits(u)' /\ Activates(u)'
  <2>1. UNCHANGED storageVars \/ pc[u] \notin Holding
    BY <1>1, <1>5, ThreadsAssumption DEF ServerInv, ScenariosMutexHeld, Holding
  <2>2. pc'[u] = pc[u] /\ job'[u] = job[u] /\ call'[u] = call[u] /\ listed'[u] = listed[u]
    BY <1>5, HandlerAlone DEF OthersStay
  <2> QED
    BY <1>2, <2>1, <2>2, OthersKeep DEF ActivationInv
<1> QED
  BY <1>2, <1>3, <1>4, <1>5 DEF ActivationInv
------------------------------------------------------------------------------
(* A thread that is in no activation yet, or in none any more.              *)
LEMMA NotActivating ==
  ASSUME NEW t \in Threads, CallFits(t), Ids(db.events)' = Ids(db.events),
         pc'[t] \notin {"cleanActivate", "begin", "apply", "setting"},
         \/ call'[t] \in {NoCall, ListCall}
         \/ call'[t] = call[t] /\ listed'[t] = listed[t] /\ pc[t] # "setting"
  PROVE  CallFits(t)' /\ Activates(t)'
<1>1. CallFits(t)'
  BY DEF CallFits, NoCall, ListCall
<1>2. Activates(t)'
  BY DEF Activates, InTransaction
<1> QED
  BY <1>1, <1>2

LEMMA ActivationFound ==
  ASSUME ServerInv, ActivationInv, NEW t \in Threads, ScenarioFound(t)
  PROVE  CallFits(t)' /\ Activates(t)'
<1>1. /\ pc \in [Threads -> PCs] /\ job \in [Threads -> Job \cup {NoJob}]
      /\ call \in [Threads -> Calls] /\ scenariosCache \in ScenarioTable
  BY DEF ServerInv, ServerTypeOK
<1>2. pc'[t] = "cleanActivate" /\ call'[t] = ListCall
  BY <1>1 DEF ScenarioFound, Moves, Calls2Events
<1>3. job'[t] = JobOf(job[t].id, scenariosCache[job[t].id])
  BY <1>1 DEF ScenarioFound
<1>4. /\ job'[t].id = job[t].id
      /\ job'[t].activate = scenariosCache[job[t].id].activate
      /\ job'[t].deactivate = scenariosCache[job[t].id].deactivate
  BY <1>3 DEF JobOf
<1>5. db'.scenarios[job[t].id] = scenariosCache[job[t].id] /\ scenariosCache[job[t].id] # Absent
  BY DEF ScenarioFound, ActivationInv, ScenariosCoherent, storageVars
<1>6. CallFits(t)'
  BY <1>2 DEF CallFits, ListCall
<1>7. Activates(t)'
  BY <1>2, <1>4, <1>5 DEF Activates, InTransaction
<1> QED
  BY <1>6, <1>7

LEMMA ActivationListed ==
  ASSUME ServerInv, ActivationInv, NEW t \in Threads, ActivationCleaned(t)
  PROVE  CallFits(t)' /\ Activates(t)'
<1>1. /\ pc \in [Threads -> PCs] /\ job \in [Threads -> Job \cup {NoJob}]
      /\ call \in [Threads -> Calls] /\ listed \in [Threads -> SUBSET EventIds]
      /\ pc[t] = "cleanActivate" /\ job[t] \in Job /\ CallFits(t) /\ Activates(t)
  BY DEF ServerInv, ServerTypeOK, ActivationCleaned, Moves, HandlersAgree, Working, PCs, ActivationInv
<1>2. pc'[t] = "begin" /\ call'[t] = NoCall
  BY <1>1 DEF ActivationCleaned, Moves, BackFromEvents
<1>3. /\ job'[t].id = job[t].id
      /\ job'[t].activate = job[t].activate \cap listed[t]
      /\ job'[t].deactivate = job[t].deactivate \cap listed[t]
  BY <1>1 DEF ActivationCleaned, Cleaned, Job
<1>4. listed[t] = Ids(db.events)
  <2>1. call[t].step = "ok" /\ call[t].op \in {"none", "list"}
    BY <1>1 DEF ActivationCleaned, CallFits
  <2>2. call[t].op = "list"
    BY <1>1, <2>1 DEF Calls, NoCall
  <2> QED
    BY <1>1, <2>1, <2>2 DEF CallFits
<1>5. db' = db
  BY DEF ActivationCleaned, storageVars
<1>6. CallFits(t)'
  BY <1>2 DEF CallFits, NoCall
<1>7. Activates(t)'
  BY <1>1, <1>2, <1>3, <1>4, <1>5 DEF Activates, InTransaction, Ids
<1> QED
  BY <1>6, <1>7

(* BEGIN succeeds only when nothing is pending.                             *)
LEMMA ActivationBegun ==
  ASSUME NoLostReads, ServerInv, ActivationInv, NEW t \in Threads, BeginActivation(t)
  PROVE  CallFits(t)' /\ Activates(t)'
<1>1. /\ pc \in [Threads -> PCs] /\ job \in [Threads -> Job \cup {NoJob}]
      /\ pc[t] = "begin" /\ CallFits(t) /\ Activates(t) /\ NothingPending /\ SameIds
      /\ UNCHANGED eventsVars
  BY DEF ServerInv, ServerTypeOK, BeginActivation, Moves, Reply, ActivationInv
<1>2. call'[t] = call[t] /\ listed'[t] = listed[t] /\ db' = db
  BY <1>1, ReliableTransaction DEF BeginActivation, eventsVars
<1>3. CASE Begin(FALSE) /\ Reply(t, "begin", "failed")
  <2>1. pc'[t] = "failed"
    BY <1>1, <1>3 DEF Reply, Moves
  <2>2. Ids(db.events)' = Ids(db.events)
    BY <1>2
  <2> QED
    BY <1>1, <1>2, <2>1, <2>2, NotActivating
<1>4. CASE Begin(TRUE) /\ Moves(t, "begin", "apply") /\ UNCHANGED job
  <2>1. pc'[t] = "apply" /\ job'[t] = job[t]
    BY <1>1, <1>4 DEF Moves
  <2>2. ~txOpen /\ txOpen' /\ durable' = durable
    <3>1. PICK c \in Connections : TRUE = ~c.tx /\ txOpen' = TRUE /\ UNCHANGED durable
      BY <1>4 DEF Begin
    <3>2. c.tx = txOpen
      BY ReliableConnection
    <3> QED
      BY <3>1, <3>2
  <2>3. db = durable
    BY <1>1, <2>2 DEF NothingPending
  <2>4. CallFits(t)'
    BY <1>1, <1>2, <2>1 DEF CallFits
  <2>5. ToActivate(t)' = job[t].activate /\ ToDeactivate(t)' = job[t].deactivate
        /\ Setting(t, FALSE)' = {}
    BY <2>1 DEF ToActivate, ToDeactivate, Setting
  <2>6. Applies(t)'
    <3> DEFINE s == db.scenarios[job[t].id]
    <3>1. /\ s # Absent
          /\ job[t].activate = s.activate \cap Ids(db.events)
          /\ job[t].deactivate = s.deactivate \cap Ids(db.events)
      BY <1>1 DEF Activates
    <3>2. Applied(db.events, job[t].activate, job[t].deactivate)
            = Applied(db.events, s.activate, s.deactivate)
      BY <3>1, OnlyStoredEvents
    <3>3. durable'.scenarios[job'[t].id] = s /\ durable' = db /\ db' = db
      BY <1>2, <2>1, <2>2, <2>3
    <3>4. ToActivate(t)' \cup ToDeactivate(t)' \subseteq Ids(db.events)'
      BY <1>2, <2>5, <3>1
    <3> QED
      BY <2>2, <2>5, <3>1, <3>2, <3>3, <3>4 DEF Applies
  <2>7. Activates(t)'
    BY <2>1, <2>6 DEF Activates, InTransaction
  <2> QED
    BY <2>4, <2>7
<1> QED
  BY <1>3, <1>4 DEF BeginActivation

LEMMA ActivityChosen ==
  ASSUME ServerInv, ActivationInv, NEW t \in Threads, NextActivity(t)
  PROVE  CallFits(t)' /\ Activates(t)'
<1>1. /\ pc \in [Threads -> PCs] /\ job \in [Threads -> Job \cup {NoJob}]
      /\ call \in [Threads -> Calls]
      /\ pc[t] = "apply" /\ job[t] \in Job /\ Applies(t)
  BY DEF ServerInv, ServerTypeOK, NextActivity, Moves, HandlersAgree, Working, PCs, ActivationInv,
     Activates, InTransaction
<1>2. pc'[t] = "setting" /\ UNCHANGED storageVars
  BY <1>1 DEF NextActivity, Moves
<1>3. Setting(t, TRUE) = {} /\ Setting(t, FALSE) = {}
  BY <1>1 DEF Setting
<1>4. CASE \E id \in job[t].activate :
             /\ Calls2Events(t, SetActivityCall(id, TRUE))
             /\ job' = [job EXCEPT ![t].activate = @ \ {id}]
  <2>1. PICK id \in job[t].activate :
          /\ call' = [call EXCEPT ![t] = SetActivityCall(id, TRUE)]
          /\ job' = [job EXCEPT ![t].activate = @ \ {id}]
    BY <1>4 DEF Calls2Events
  <2>2. /\ call'[t].op = "setActivity" /\ call'[t].step = "waiting" /\ call'[t].id = id
        /\ call'[t].active = TRUE
    BY <1>1, <2>1 DEF SetActivityCall
  <2>3. /\ job'[t].id = job[t].id /\ job'[t].activate = job[t].activate \ {id}
        /\ job'[t].deactivate = job[t].deactivate
    BY <1>1, <2>1 DEF Job
  <2>4. Setting(t, TRUE)' = {id} /\ Setting(t, FALSE)' = {}
    BY <1>2, <2>2 DEF Setting
  <2>5. ToActivate(t)' = ToActivate(t) /\ ToDeactivate(t)' = ToDeactivate(t)
    BY <1>3, <2>1, <2>3, <2>4 DEF ToActivate, ToDeactivate
  <2>6. CallFits(t)'
    BY <1>2, <2>2 DEF CallFits
  <2>7. Activates(t)'
    BY <1>1, <1>2, <2>3, <2>4, <2>5 DEF Activates, Applies, storageVars
  <2> QED
    BY <2>6, <2>7
<1>5. CASE /\ job[t].activate = {}
           /\ \E id \in job[t].deactivate :
                /\ Calls2Events(t, SetActivityCall(id, FALSE))
                /\ job' = [job EXCEPT ![t].deactivate = @ \ {id}]
  <2>1. PICK id \in job[t].deactivate :
          /\ call' = [call EXCEPT ![t] = SetActivityCall(id, FALSE)]
          /\ job' = [job EXCEPT ![t].deactivate = @ \ {id}]
    BY <1>5 DEF Calls2Events
  <2>2. /\ call'[t].op = "setActivity" /\ call'[t].step = "waiting" /\ call'[t].id = id
        /\ call'[t].active = FALSE
    BY <1>1, <2>1 DEF SetActivityCall
  <2>3. /\ job'[t].id = job[t].id /\ job'[t].activate = {}
        /\ job'[t].deactivate = job[t].deactivate \ {id}
    BY <1>1, <1>5, <2>1 DEF Job
  <2>4. Setting(t, FALSE)' = {id} /\ Setting(t, TRUE)' = {}
    BY <1>2, <2>2 DEF Setting
  <2>5. ToActivate(t)' = ToActivate(t) /\ ToDeactivate(t)' = ToDeactivate(t)
    BY <1>3, <1>5, <2>1, <2>3, <2>4 DEF ToActivate, ToDeactivate
  <2>6. CallFits(t)'
    BY <1>2, <2>2 DEF CallFits
  <2>7. Activates(t)'
    BY <1>1, <1>2, <2>3, <2>5 DEF Activates, Applies, storageVars
  <2> QED
    BY <2>6, <2>7
<1> QED
  BY <1>4, <1>5 DEF NextActivity

LEMMA ActivityDone ==
  ASSUME ServerInv, ActivationInv, NEW t \in Threads, ActivitySet(t)
  PROVE  CallFits(t)' /\ Activates(t)'
<1>1. /\ pc \in [Threads -> PCs] /\ call \in [Threads -> Calls]
      /\ pc[t] = "setting" /\ call[t].step = "ok" /\ Applies(t)
  BY DEF ServerInv, ServerTypeOK, ActivitySet, Moves, ActivationInv, Activates, InTransaction
<1>2. pc'[t] = "apply" /\ call'[t] = NoCall /\ job' = job /\ UNCHANGED storageVars
  BY <1>1 DEF ActivitySet, Moves, BackFromEvents
<1>3. /\ Setting(t, TRUE)' = Setting(t, TRUE)
      /\ Setting(t, FALSE)' = Setting(t, FALSE)
  BY <1>1, <1>2 DEF Setting
<1>4. CallFits(t)'
  BY <1>2 DEF CallFits, NoCall
<1>5. Activates(t)'
  BY <1>1, <1>2, <1>3 DEF Activates, Applies, ToActivate, ToDeactivate, storageVars
<1> QED
  BY <1>4, <1>5

LEMMA HandlersKeepActivation ==
  ASSUME NoLostReads, NoEdits, ServerInv, ActivationInv, NEW t \in Threads, HandlerMoves(t)
  PROVE  ActivationInv'
<1>1. /\ pc \in [Threads -> PCs] /\ call \in [Threads -> Calls]
      /\ CallFits(t) /\ Ids(db.events)' = Ids(db.events)
  BY HandlerActivation DEF ServerInv, ServerTypeOK, ActivationInv
<1>2. SUFFICES CallFits(t)' /\ Activates(t)'
  BY HandlerActivation
<1>3. CASE NewRequest(t)
  <2>1. Idle(t)
    BY <1>3 DEF NewRequest, EventRequest, ListScenarios, PostScenario, PutScenario, StoreRequest,
       RemoveRequest, ActivateRequest
  <2>2. \/ call'[t] = ListCall
        \/ call'[t] = call[t] /\ listed'[t] = listed[t]
    BY <1>1, <1>3 DEF NoEdits, NewRequest, EventRequest, EventCalls, ListScenarios, PostScenario,
       PutScenario, StoreRequest, RemoveRequest, ActivateRequest, Calls2Events, eventsVars
  <2>3. pc'[t] \in {"ok", "event", "clean", "remove", "activate"}
    BY <1>1, <1>3 DEF NewRequest, EventRequest, ListScenarios, PostScenario, PutScenario,
       StoreRequest, RemoveRequest, ActivateRequest
  <2> QED
    BY <1>1, <2>1, <2>2, <2>3, NotActivating DEF Idle
<1>4. CASE EventReply(t) \/ ScenarioCleaned(t) \/ ActivityNotSet(t)
  <2>1. call'[t] = NoCall /\ pc'[t] \in {"ok", "failed", "insert"}
    BY <1>1, <1>4 DEF EventReply, ScenarioCleaned, ActivityNotSet, BackFromEvents, Moves, Reply
  <2> QED
    BY <1>1, <2>1, NotActivating
<1>5. CASE EnterAdd(t) \/ InsertScenario(t) \/ RemoveScenario(t) \/ EnterActivate(t)
           \/ ScenarioNotFound(t) \/ CommitActivation(t)
  <2>1. /\ pc[t] # "setting" /\ pc'[t] \in {"ok", "failed", "inserting", "lookup"}
        /\ call'[t] = call[t] /\ listed'[t] = listed[t]
    BY <1>1, <1>5 DEF EnterAdd, InsertScenario, RemoveScenario, EnterActivate, ScenarioNotFound,
       CommitActivation, Moves, Reply, eventsVars
  <2> QED
    BY <1>1, <2>1, NotActivating
<1> QED
  BY <1>3, <1>4, <1>5, ActivationFound, ActivationListed, ActivationBegun, ActivityChosen,
     ActivityDone DEF HandlerMoves, Serve

LEMMA RestartKeepsActivation ==
  ASSUME NoLostReads, RestartServer
  PROVE  ActivationInv'
<1>1. /\ db' = durable /\ durable' = durable /\ eventsCache' = durable.events
      /\ scenariosCache' = durable.scenarios
  BY DEF NoLostReads, RestartServer, Restart, Reconnects, ConstructEvents
<1>2. ASSUME NEW t \in Threads
      PROVE  CallFits(t)' /\ Activates(t)'
  <2>1. pc'[t] = "idle" /\ call'[t] = NoCall
    BY DEF RestartServer, Restart, ConstructEvents
  <2> QED
    BY <2>1 DEF CallFits, Activates, InTransaction, NoCall
<1>3. NothingPending' /\ SameIds' /\ EventsCoherent' /\ ScenariosCoherent'
  BY <1>1 DEF NothingPending, SameIds, EventsCoherent, ScenariosCoherent, Ids
<1> QED
  BY <1>2, <1>3 DEF ActivationInv

LEMMA ActivationInvariant == NoLostReads /\ NoEdits => (ServerSpec => []ActivationInv)
<1> SUFFICES ASSUME NoLostReads, NoEdits PROVE ServerSpec => []ActivationInv
  OBVIOUS
<1>1. ServerInit => ActivationInv
  BY DEF ServerInit, ActivationInv, NothingPending, SameIds, EventsCoherent, ScenariosCoherent,
     CallFits, Activates, InTransaction, NoCall
<1>2. ServerInv /\ ActivationInv /\ [ServerNext]_serverVars => ActivationInv'
  <2> SUFFICES ASSUME ServerInv, ActivationInv, [ServerNext]_serverVars PROVE ActivationInv'
    OBVIOUS
  <2>1. CASE UNCHANGED serverVars
    <3>1. UNCHANGED <<storageVars, eventsCache, call, listed, scenariosCache, pc, job>>
      BY <2>1 DEF serverVars, vars, eventsVars, scenariosVars
    <3>2. NothingPending' /\ SameIds' /\ EventsCoherent' /\ ScenariosCoherent'
      BY <3>1, QuietTables
    <3>3. \A t \in Threads : CallFits(t)' /\ Activates(t)'
      BY <3>1, OthersKeep DEF ActivationInv, storageVars
    <3> QED
      BY <3>2, <3>3 DEF ActivationInv
  <2>2. CASE RestartServer
    BY <2>2, RestartKeepsActivation
  <2> QED
    BY <2>1, <2>2, EventsStepActivation, HandlersKeepActivation DEF ServerNext, HandlerMoves
<1> QED
  BY <1>1, <1>2, ServerInvariant, PTL DEF ServerSpec
------------------------------------------------------------------------------
(* Outside a transaction methods only read, inside one nothing is durable.  *)
LEMMA EventsStepDurable ==
  ASSUME NoLostReads, ServerInv, ActivationInv, NEW t \in Threads, EventsStep(t)
  PROVE  durable' = durable
<1>1. CASE txOpen
  <2>1. \A c \in Connections : \A rows : Leaves(c, rows) => durable' = durable
    BY <1>1, ReliableConnection DEF Leaves
  <2>2. \A k : Fails(k) => durable' = durable
    BY DEF Fails, storageVars
  <2> QED
    BY <2>1, <2>2 DEF EventsStep, EnterEvents, FillCache, ListEvents, AddEvent, UpdateEvent,
       UpdateImpl, SetActivity, DeleteEvent, RefillAfterDelete, NotFound, storageVars
<1>2. CASE ~txOpen
  <2>1. CallFits(t) /\ pc[t] # "setting"
    BY <1>2 DEF ActivationInv, Activates, InTransaction, Applies
  <2>2. EnterEvents(t) \/ ListEvents(t)
    BY <2>1 DEF CallFits, EventsStep, AddEvent, UpdateEvent, SetActivity, DeleteEvent,
       RefillAfterDelete, InMethod
  <2>3. FillCache => UNCHANGED storageVars
    BY ReliableConnection, ReadTables DEF FillCache
  <2> QED
    BY <2>2, <2>3 DEF EnterEvents, ListEvents, storageVars
<1> QED
  BY <1>1, <1>2

(* A change of a scenario's row, in a transaction or not.                   *)
LEMMA ScenarioRowDurable ==
  ASSUME NoLostReads, ServerInv, ActivationInv, NEW c \in Connections, NEW id \in ScenarioIds,
         NEW s, Leaves(c, [c.rows EXCEPT !.scenarios[id] = s])
  PROVE  \/ durable' = durable
         \/ /\ durable = c.rows
            /\ durable'.events = durable.events
            /\ durable'.scenarios = [durable.scenarios EXCEPT ![id] = s]
<1>1. c.rows = db /\ c.tx = txOpen /\ db \in ServerTables
  BY ReliableConnection DEF ServerInv, ServerTypeOK, ServerTables
<1>2. CASE txOpen
  BY <1>1, <1>2 DEF Leaves
<1>3. CASE ~txOpen
  <2>1. db = durable
    BY <1>3 DEF ActivationInv, NothingPending
  <2>2. durable' = [durable EXCEPT !.scenarios[id] = s]
    BY <1>1, <1>3, <2>1 DEF Leaves
  <2> QED
    BY <1>1, <2>1, <2>2 DEF ServerTables
<1> QED
  BY <1>2, <1>3

(* COMMIT is the activation.                                                *)
LEMMA CommitActivates ==
  ASSUME NoLostReads, ServerInv, ActivationInv, NEW t \in Threads, CommitActivation(t)
  PROVE  durable' = durable \/ Atomic!Activate(job[t].id)
<1>1. /\ pc[t] = "apply" /\ job[t].activate = {} /\ job[t].deactivate = {} /\ Applies(t)
      /\ db.events \in EventTable
  BY DEF CommitActivation, ActivationInv, Activates, InTransaction, ServerInv, ServerTypeOK
<1>2. durable' = durable \/ durable' = db
  BY ReliableConnection DEF CommitActivation, Commit, storageVars
<1> DEFINE s == durable.scenarios[job[t].id]
<1>3. db.events = Applied(durable.events, s.activate, s.deactivate)
  <2>1. ToActivate(t) = {} /\ ToDeactivate(t) = {}
    BY <1>1 DEF ToActivate, ToDeactivate, Setting
  <2> QED
    BY <1>1, <2>1, NothingLeft DEF Applies
<1>4. ASSUME durable' = db
      PROVE  Atomic!Activate(job[t].id)
  <2>1. s # Absent /\ durable'.scenarios = durable.scenarios
    BY <1>1, <1>4 DEF Applies
  <2>2. durable'.events = [e \in EventIds |-> Atomic!AfterActivation(s, e)]
    BY <1>3, <1>4 DEF Applied, On, Off, Atomic!AfterActivation
  <2> QED
    BY <2>1, <2>2 DEF Atomic!Activate
<1> QED
  BY <1>2, <1>4

LEMMA AtomicStep ==
  ASSUME NoLostReads, ServerInv, ActivationInv, [ServerNext]_serverVars
  PROVE  [Atomic!Next]_(Atomic!vars)
<1>1. durable' = durable => UNCHANGED Atomic!vars
  BY DEF Atomic!vars
<1>2. CASE UNCHANGED serverVars \/ RestartServer
  BY <1>1, <1>2 DEF serverVars, vars, storageVars, RestartServer, Restart, Reconnects
<1>3. ASSUME NEW t \in Threads, EventsStep(t)
      PROVE  UNCHANGED Atomic!vars
  BY <1>1, <1>3, EventsStepDurable
<1>4. ASSUME NEW t \in Threads, InsertScenario(t)
      PROVE  [Atomic!Next]_(Atomic!vars)
  <2> DEFINE id == job[t].id
             s == ContentOf(job[t])
  <2>1. job[t] \in Job
    BY <1>4 DEF InsertScenario, ServerInv, HandlersAgree, Working, PCs
  <2>2. id \in ScenarioIds /\ s \in Atomic!Scenario
    BY <2>1 DEF Job, ContentOf, Atomic!Scenario
  <2>3. \A c \in Connections : Leaves(c, c.rows) => durable' = durable
    BY ReadTables DEF storageVars
  <2>4. Fails("write") => durable' = durable
    BY DEF Fails, storageVars
  <2>5. ASSUME NEW c \in Connections, c.rows.scenarios[id] = Absent,
               Leaves(c, [c.rows EXCEPT !.scenarios[id] = s]), durable' # durable
        PROVE  Atomic!Store(id)
    <3>1. /\ durable = c.rows
          /\ durable'.events = durable.events
          /\ durable'.scenarios = [durable.scenarios EXCEPT ![id] = s]
      BY <2>2, <2>5, ScenarioRowDurable
    <3>2. durable.scenarios[id] = Absent
      BY <2>5, <3>1
    <3> QED
      BY <2>2, <3>1, <3>2 DEF Atomic!Store
  <2> QED
    BY <1>1, <1>4, <2>2, <2>3, <2>4, <2>5 DEF InsertScenario, Atomic!Next
<1>5. ASSUME NEW t \in Threads, RemoveScenario(t)
      PROVE  [Atomic!Next]_(Atomic!vars)
  <2>1. job[t].id \in ScenarioIds
    BY <1>5 DEF RemoveScenario, ServerInv, HandlersAgree, Working, PCs, Job
  <2>2. Fails("write") => durable' = durable
    BY DEF Fails, storageVars
  <2>3. ASSUME NEW c \in Connections, durable' # durable,
               Leaves(c, [c.rows EXCEPT !.scenarios[job[t].id] = Absent])
        PROVE  Atomic!Remove(job[t].id)
    BY <2>1, <2>3, ScenarioRowDurable DEF Atomic!Remove
  <2> QED
    BY <1>1, <1>5, <2>1, <2>2, <2>3 DEF RemoveScenario, Atomic!Next
<1>6. ASSUME NEW t \in Threads, CommitActivation(t)
      PROVE  [Atomic!Next]_(Atomic!vars)
  <2>1. job[t].id \in ScenarioIds
    BY <1>6 DEF CommitActivation, ServerInv, HandlersAgree, Working, PCs, Job
  <2> QED
    BY <1>1, <1>6, <2>1, CommitActivates DEF Atomic!Next
<1>7. ASSUME NEW t \in Threads, BeginActivation(t)
      PROVE  UNCHANGED Atomic!vars
  BY <1>1, <1>7, ReliableConnection DEF BeginActivation, Begin, storageVars
<1>8. FillIfEmpty => durable' = durable
  BY ReliableConnection, ReadTables DEF FillIfEmpty, FillScenariosCache, storageVars
<1>9. ASSUME NEW t \in Threads, NewRequest(t)
      PROVE  UNCHANGED Atomic!vars
  BY <1>1, <1>8, <1>9 DEF NewRequest, EventRequest, ListScenarios, PostScenario, PutScenario,
     StoreRequest, RemoveRequest, ActivateRequest, storageVars
<1>10. ASSUME NEW t \in Threads, Serve(t)
       PROVE  [Atomic!Next]_(Atomic!vars)
  BY <1>1, <1>3, <1>4, <1>5, <1>6, <1>7, <1>8, <1>10 DEF Serve, EventReply, ScenarioCleaned,
     EnterAdd, EnterActivate, ScenarioFound, ScenarioNotFound, ActivationCleaned, NextActivity,
     ActivitySet, ActivityNotSet, storageVars
<1> QED
  BY <1>2, <1>9, <1>10 DEF ServerNext

(***************************************************************************)
(* ActivateScenario keeps its promise when no client edits events, no      *)
(* SELECT fails and no transaction is lost with its connection: the file   *)
(* changes as AtomicScenarios says, so it never holds half of a scenario,  *)
(* whichever statement fails and whenever the process ends                 *)
(* (ScenariosController.cpp:125-151).                                      *)
(***************************************************************************)
THEOREM ScenariosAreAtomic == NoLostReads /\ NoEdits => (ServerSpec => ActivationIsAtomic)
<1> SUFFICES ASSUME NoLostReads, NoEdits PROVE ServerSpec => ActivationIsAtomic
  OBVIOUS
<1>1. ServerInv => Atomic!Init
  BY DEF ServerInv, ServerTypeOK, ScenarioTable, Scenario, Atomic!Init, Atomic!Scenario
<1>2. ServerInv /\ ActivationInv /\ [ServerNext]_serverVars => [Atomic!Next]_(Atomic!vars)
  BY AtomicStep
<1>3. ServerSpec => []ActivationInv
  BY ActivationInvariant
<1> QED
  BY <1>1, <1>2, <1>3, ServerInvariant, PTL DEF ServerSpec, ActivationIsAtomic, Atomic!Spec

(***************************************************************************)
(* An activation that stops half-way does so at an event that is there,    *)
(* hence at a failing UPDATE: ActivateScenario first drops the ids that do *)
(* not exist, and nothing takes an event away before it sets it.           *)
(***************************************************************************)
THEOREM CutShortByFailures == NoLostReads /\ NoEdits => (ServerSpec => OnlyFailuresCutShort)
<1> SUFFICES ASSUME NoLostReads, NoEdits PROVE ServerSpec => OnlyFailuresCutShort
  OBVIOUS
<1>1. ASSUME ServerInv, ActivationInv, NEW t \in Threads, ActivityNotSet(t)
      PROVE  eventsCache[call[t].id] # Absent
  <2>1. /\ pc[t] = "setting" /\ call[t].step = "failed" /\ call \in [Threads -> Calls]
        /\ call[t].op = "setActivity" /\ Applies(t) /\ EventsCoherent
    BY <1>1 DEF ActivityNotSet, Reply, Moves, ActivationInv, CallFits, Activates, InTransaction,
       ServerInv, ServerTypeOK
  <2>2. call[t].active \in BOOLEAN
    BY <2>1 DEF Calls, NoCall
  <2>3. call[t].id \in Setting(t, TRUE) \cup Setting(t, FALSE)
    BY <2>1, <2>2 DEF Setting
  <2> QED
    BY <2>1, <2>3 DEF Applies, ToActivate, ToDeactivate, EventsCoherent, Ids
<1>2. ServerInv /\ ActivationInv /\ [ServerNext]_serverVars
        => [\A t \in Threads : ActivityNotSet(t) => eventsCache[call[t].id] # Absent]_serverVars
  BY <1>1
<1>3. ServerSpec => []ActivationInv
  BY ActivationInvariant
<1> QED
  BY <1>2, <1>3, ServerInvariant, PTL DEF ServerSpec, OnlyFailuresCutShort
==============================================================================
