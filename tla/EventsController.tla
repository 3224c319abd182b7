--------------------------- MODULE EventsController ---------------------------
(***************************************************************************)
(* controllers/EventsController.cpp: the table of automation events and    *)
(* the vector that caches it, used by all HTTP workers, by the scenarios   *)
(* controller and by the events processor.                                 *)
(*                                                                         *)
(* A call of a method is a value in call[t]: it waits for the controller's *)
(* mutex, holds it over one or two statements, and ends as "ok" or         *)
(* "failed".  Other threads run between the statements, on other           *)
(* controllers and on the shared connection.                               *)
(***************************************************************************)
EXTENDS Storage, FiniteSets

CONSTANTS
  Threads,    \* threads that call the controller
  EventIds,   \* ids of events
  Bodies,     \* everything of an event but its id and its activity
  Absent,     \* no row, no entry
  NoThread    \* nobody holds the mutex

ASSUME ThreadsAssumption ==
  /\ NoThread \notin Threads
  /\ Absent \notin [active : BOOLEAN, body : Bodies]

Event == [active : BOOLEAN, body : Bodies]

EventTable == [EventIds -> Event \cup {Absent}]

NoEvents == [e \in EventIds |-> Absent]

VARIABLES
  eventsCache,   \* _cache: for each id the entry find_if reaches first
  eventsMutex,   \* the holder of EventsController::_mutex
  call,          \* the method each thread is in
  listed         \* the ids in the vector each thread's last List returned

eventsVars == <<eventsCache, eventsMutex, call, listed>>

NoCall == [op |-> "none", step |-> "none"]

Steps == {"waiting", "locked", "refill", "ok", "failed"}

ListCall == [op |-> "list", step |-> "waiting"]
AddCall(id, ev) == [op |-> "add", step |-> "waiting", id |-> id, event |-> ev]
UpdateCall(id, ev) == [op |-> "update", step |-> "waiting", id |-> id, event |-> ev]
SetActivityCall(id, b) ==
  [op |-> "setActivity", step |-> "waiting", id |-> id, active |-> b]
DeleteCall(id) == [op |-> "delete", step |-> "waiting", id |-> id]

Calls ==
  {NoCall}
    \cup [op : {"list"}, step : Steps]
    \cup [op : {"add", "update"}, step : Steps, id : EventIds, event : Event]
    \cup [op : {"setActivity"}, step : Steps, id : EventIds, active : BOOLEAN]
    \cup [op : {"delete"}, step : Steps, id : EventIds]

Ids(table) == {e \in EventIds : table[e] # Absent}

(* c's tables with row id of Events set to ev. *)
WithEvent(c, id, ev) == [c.rows EXCEPT !.events[id] = ev]

Goto(t, step) == call' = [call EXCEPT ![t].step = step]

Unlock(t, step) == eventsMutex' = NoThread /\ Goto(t, step)

(***************************************************************************)
(* FillCache replaces the vector by what SELECT returns, and leaves it as  *)
(* it is when the SELECT fails.                                            *)
(***************************************************************************)
FillCache ==
  \/ \E c \in Connections :
       eventsCache' = c.rows.events /\ Leaves(c, c.rows)
  \/ Fails("select") /\ UNCHANGED eventsCache

(* lock_guard, and the refill of an empty cache that every method but       *)
(* Delete begins with.                                                     *)
EnterEvents(t) ==
  /\ call[t].step = "waiting"
  /\ eventsMutex = NoThread
  /\ eventsMutex' = t
  /\ Goto(t, "locked")
  /\ IF eventsCache = NoEvents /\ call[t].op # "delete"
       THEN FillCache
       ELSE UNCHANGED <<eventsCache, storageVars>>
  /\ UNCHANGED listed

InMethod(t, op) == call[t].op = op /\ call[t].step = "locked"

ListEvents(t) ==
  /\ InMethod(t, "list")
  /\ listed' = [listed EXCEPT ![t] = Ids(eventsCache)]
  /\ Unlock(t, "ok")
  /\ UNCHANGED <<eventsCache, storageVars>>

(* INSERT, refused by the primary key when the row exists.                 *)
AddEvent(t) ==
  LET id == call[t].id
      ev == call[t].event
  IN  /\ InMethod(t, "add")
      /\ \/ \E c \in Connections :
              IF c.rows.events[id] = Absent
                THEN /\ Leaves(c, WithEvent(c, id, ev))
                     /\ eventsCache' =
                          IF eventsCache[id] = Absent
                            THEN [eventsCache EXCEPT ![id] = ev]
                            ELSE eventsCache
                     /\ Unlock(t, "ok")
                ELSE /\ Leaves(c, c.rows)
                     /\ Unlock(t, "failed")
                     /\ UNCHANGED eventsCache
         \/ /\ Fails("write")
            /\ Unlock(t, "failed")
            /\ UNCHANGED eventsCache
      /\ UNCHANGED listed

(* Mutant: the cache is written before the statement is known to succeed.   *)
UpdateImplCacheFirst(t, id, ev) ==
  /\ eventsCache' = [eventsCache EXCEPT ![id] = ev]
  /\ \/ /\ Leaves([rows |-> db, tx |-> txOpen], WithEvent([rows |-> db], id, ev))
        /\ Unlock(t, "ok")
     \/ Fails("write") /\ Unlock(t, "failed")

(* Mutant: the cached entry is rebuilt from its activity alone.             *)
UpdateImplWithoutBody(t, id, ev) ==
  /\ eventsCache' = [eventsCache EXCEPT ![id] = [active |-> ev.active, body |-> Absent]]
  /\ Unlock(t, "ok")
  /\ UNCHANGED storageVars

(* UpdateImpl, entered with the mutex held and the event found: an UPDATE   *)
(* of a missing row succeeds and changes nothing.                          *)
UpdateImpl(t, id, ev) ==
  \/ \E c \in Connections :
       /\ Leaves(c, IF c.rows.events[id] = Absent THEN c.rows ELSE WithEvent(c, id, ev))
       /\ eventsCache' = [eventsCache EXCEPT ![id] = ev]
       /\ Unlock(t, "ok")
  \/ /\ Fails("write")
     /\ Unlock(t, "failed")
     /\ UNCHANGED eventsCache

NotFound(t) ==
  /\ eventsCache[call[t].id] = Absent
  /\ Unlock(t, "failed")
  /\ UNCHANGED <<eventsCache, storageVars>>

UpdateEvent(t) ==
  /\ InMethod(t, "update")
  /\ \/ NotFound(t)
     \/ /\ eventsCache[call[t].id] # Absent
        /\ UpdateImpl(t, call[t].id, call[t].event)
  /\ UNCHANGED listed

(* A read-modify-write of the cached event, under the mutex.                *)
SetActivity(t) ==
  /\ InMethod(t, "setActivity")
  /\ \/ NotFound(t)
     \/ LET id == call[t].id
        IN  /\ eventsCache[id] # Absent
            /\ UpdateImpl(t, id, [eventsCache[id] EXCEPT !.active = call[t].active])
  /\ UNCHANGED listed

(* Mutant: the lock is gone before the cache is read again.                 *)
DeleteEventUnlocked(t) ==
  /\ InMethod(t, "delete")
  /\ \/ NotFound(t)
     \/ /\ eventsCache[call[t].id] # Absent
        /\ \E c \in Connections : Leaves(c, WithEvent(c, call[t].id, Absent))
        /\ Unlock(t, "refill")
        /\ UNCHANGED eventsCache
  /\ UNCHANGED listed

(* The row goes first, the cache is then read again from the table.         *)
DeleteEvent(t) ==
  /\ InMethod(t, "delete")
  /\ \/ NotFound(t)
     \/ /\ eventsCache[call[t].id] # Absent
        /\ \/ \E c \in Connections :
                /\ Leaves(c, WithEvent(c, call[t].id, Absent))
                /\ Goto(t, "refill")
                /\ UNCHANGED <<eventsCache, eventsMutex>>
           \/ /\ Fails("write")
              /\ Unlock(t, "failed")
              /\ UNCHANGED eventsCache
  /\ UNCHANGED listed

RefillAfterDelete(t) ==
  /\ call[t].step = "refill"
  /\ FillCache
  /\ Unlock(t, "ok")
  /\ UNCHANGED listed

EventsStep(t) ==
  \/ EnterEvents(t)
  \/ ListEvents(t)
  \/ AddEvent(t)
  \/ UpdateEvent(t)
  \/ SetActivity(t)
  \/ DeleteEvent(t)
  \/ RefillAfterDelete(t)

(* The constructor: the mutex is new and the cache is filled, if it can be. *)
ConstructEvents ==
  /\ eventsMutex' = NoThread
  /\ call' = [t \in Threads |-> NoCall]
  /\ listed' = [t \in Threads |-> {}]
  /\ \/ eventsCache' = durable.events
     \/ "select" \in Faults /\ eventsCache' = NoEvents
------------------------------------------------------------------------------
(***************************************************************************)
(* The controller by itself: any thread calls any method, and any other    *)
(* user of the connection may begin or commit a transaction at any moment. *)
(***************************************************************************)
Init ==
  /\ db = [events |-> NoEvents]
  /\ durable = [events |-> NoEvents]
  /\ txOpen = FALSE
  /\ eventsCache = NoEvents
  /\ eventsMutex = NoThread
  /\ call = [t \in Threads |-> NoCall]
  /\ listed = [t \in Threads |-> {}]

NewCalls ==
  {ListCall}
    \cup {AddCall(id, ev) : id \in EventIds, ev \in Event}
    \cup {UpdateCall(id, ev) : id \in EventIds, ev \in Event}
    \cup {SetActivityCall(id, b) : id \in EventIds, b \in BOOLEAN}
    \cup {DeleteCall(id) : id \in EventIds}

Invoke(t) ==
  /\ call[t] = NoCall
  /\ \E c \in NewCalls : call' = [call EXCEPT ![t] = c]
  /\ UNCHANGED <<storageVars, eventsCache, eventsMutex, listed>>

Return(t) ==
  /\ call[t].step \in {"ok", "failed"}
  /\ call' = [call EXCEPT ![t] = NoCall]
  /\ listed' = [listed EXCEPT ![t] = {}]
  /\ UNCHANGED <<storageVars, eventsCache, eventsMutex>>

OtherTransaction ==
  /\ \E ok \in BOOLEAN : Begin(ok) \/ Commit(ok)
  /\ UNCHANGED eventsVars

Restart ==
  /\ "crash" \in Faults
  /\ Reconnects
  /\ ConstructEvents

Next ==
  \/ \E t \in Threads : Invoke(t) \/ EventsStep(t) \/ Return(t)
  \/ OtherTransaction
  \/ Restart

vars == <<storageVars, eventsVars>>

Spec == Init /\ [][Next]_vars
------------------------------------------------------------------------------
TypeOK ==
  /\ db \in [events : EventTable]
  /\ durable \in [events : EventTable]
  /\ txOpen \in BOOLEAN
  /\ eventsCache \in EventTable
  /\ eventsMutex \in Threads \cup {NoThread}
  /\ call \in [Threads -> Calls]
  /\ listed \in [Threads -> SUBSET EventIds]

(* The mutex is held by exactly the thread that is inside a method.         *)
EventsMutexHeld ==
  \A t \in Threads : call[t].step \in {"locked", "refill"} <=> eventsMutex = t

(***************************************************************************)
(* Whoever can look at the cache sees the table, whatever transactions     *)
(* other threads have open, whichever statements fail and whenever the     *)
(* process restarts: the cache is filled, changed and re-read under the    *)
(* mutex, and never after a statement that failed.  It is promised only    *)
(* when no SELECT fails and no transaction is lost with its connection.    *)
(***************************************************************************)
EventsCacheIsTable == eventsMutex = NoThread => eventsCache = db.events
==============================================================================
