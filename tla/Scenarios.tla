------------------------------ MODULE Scenarios ------------------------------
(***************************************************************************)
(* Scenarios and the HTTP workers that serve them: ScenariosController     *)
(* (controllers/ScenariosController.cpp) over the events controller and    *)
(* the shared connection, and the handlers of ScenariosService and         *)
(* EventsService.  Crow runs the handlers on several threads; a thread     *)
(* serves one request at a time and other threads run at each point where  *)
(* it takes a mutex or returns from one.                                   *)
(*                                                                         *)
(* Activating a scenario is the server's only transaction: BEGIN, one      *)
(* SetActivity for every event it names, COMMIT.                           *)
(***************************************************************************)
EXTENDS EventsController

CONSTANTS
  ScenarioIds,     \* ids of scenarios
  Contents,        \* the contents clients give to scenarios
  Requests,        \* the kinds of requests clients send, see AllRequests
  InitialEvents,     \* the contents of table Events the server may start on
  InitialScenarios   \* the contents of table Scenarios it may start on

AllRequests ==
  {"listEvents", "addEvent", "updateEvent", "deleteEvent", "listScenarios",
   "postScenario", "putScenario", "deleteScenario", "activateScenario"}

(* What a scenario switches on and off. *)
Scenario == [activate : SUBSET EventIds, deactivate : SUBSET EventIds]

ScenarioTable == [ScenarioIds -> Scenario \cup {Absent}]

NoScenarios == [s \in ScenarioIds |-> Absent]

ASSUME ScenariosAssumption ==
  /\ Absent \notin Scenario
  /\ Contents \subseteq Scenario
  /\ Requests \subseteq AllRequests
  /\ InitialEvents \subseteq EventTable
  /\ InitialScenarios \subseteq ScenarioTable

VARIABLES
  scenariosCache,   \* ScenariosController::_cache
  scenariosMutex,   \* the holder of ScenariosController::_mutex
  pc,               \* where each thread is in its handler
  job               \* the scenario each thread works on: its id and what is left of it

scenariosVars == <<scenariosCache, scenariosMutex, pc, job>>

NoJob == [id |-> Absent]

Job == [id : ScenarioIds, activate : SUBSET EventIds, deactivate : SUBSET EventIds]

JobOf(id, s) == [id |-> id, activate |-> s.activate, deactivate |-> s.deactivate]

ContentOf(j) == [activate |-> j.activate, deactivate |-> j.deactivate]

Idle(t) == pc[t] \in {"idle", "ok", "failed"}

(* From BEGIN to COMMIT, or to the return that skips COMMIT.                *)
InTransaction(t) == pc[t] \in {"apply", "setting"}

Moves(t, from, to) == pc[t] = from /\ pc' = [pc EXCEPT ![t] = to]

(* The thread calls the events controller, or comes back from it.           *)
Calls2Events(t, c) == call' = [call EXCEPT ![t] = c]

BackFromEvents(t) ==
  /\ call' = [call EXCEPT ![t] = NoCall]
  /\ listed' = [listed EXCEPT ![t] = {}]
  /\ UNCHANGED <<eventsCache, eventsMutex>>

(* CleanupScenario: drop the ids that List did not return.                  *)
Cleaned(t) ==
  [job[t] EXCEPT !.activate = @ \cap listed[t], !.deactivate = @ \cap listed[t]]

(* The response: ok, or BAD_REQUEST, and the job is over.                   *)
Reply(t, from, answer) ==
  /\ Moves(t, from, answer)
  /\ job' = [job EXCEPT ![t] = NoJob]

(* Cache::Add keeps an entry that is already there.                         *)
FillScenariosCache ==
  \/ \E c \in Connections :
       /\ Leaves(c, c.rows)
       /\ scenariosCache' =
            [s \in ScenarioIds |->
               IF scenariosCache[s] = Absent THEN c.rows.scenarios[s] ELSE scenariosCache[s]]
  \/ Fails("select") /\ UNCHANGED scenariosCache

FillIfEmpty ==
  IF scenariosCache = NoScenarios
    THEN FillScenariosCache
    ELSE UNCHANGED <<scenariosCache, storageVars>>
------------------------------------------------------------------------------
(* EventsService: one call of the events controller, answered by its result. *)
EventCalls(kind) ==
  CASE kind = "listEvents" -> {ListCall}
    [] kind = "addEvent" -> {AddCall(id, ev) : id \in EventIds, ev \in Event}
    [] kind = "updateEvent" -> {UpdateCall(id, ev) : id \in EventIds, ev \in Event}
    [] kind = "deleteEvent" -> {DeleteCall(id) : id \in EventIds}

EventRequest(t) ==
  /\ Idle(t)
  /\ \E kind \in Requests \cap {"listEvents", "addEvent", "updateEvent", "deleteEvent"} :
       \E c \in EventCalls(kind) : Calls2Events(t, c)
  /\ pc' = [pc EXCEPT ![t] = "event"]
  /\ UNCHANGED <<storageVars, eventsCache, eventsMutex, listed, scenariosCache, scenariosMutex, job>>

EventReply(t) ==
  /\ call[t].step \in {"ok", "failed"}
  /\ Reply(t, "event", call[t].step)
  /\ BackFromEvents(t)
  /\ UNCHANGED <<storageVars, scenariosCache, scenariosMutex>>

(* GetScenarios: the whole of List in one step, under the mutex.            *)
ListScenarios(t) ==
  /\ Idle(t)
  /\ "listScenarios" \in Requests
  /\ scenariosMutex = NoThread
  /\ FillIfEmpty
  /\ pc' = [pc EXCEPT ![t] = "ok"]
  /\ UNCHANGED <<eventsVars, scenariosMutex, job>>

(* AddScenario and UpdateScenario: both clean the scenario and then call    *)
(* ScenariosController::Add.                                               *)
StoreRequest(t, kind) ==
  /\ Idle(t)
  /\ kind \in Requests
  /\ \E id \in ScenarioIds, s \in Contents : job' = [job EXCEPT ![t] = JobOf(id, s)]
  /\ pc' = [pc EXCEPT ![t] = "clean"]
  /\ Calls2Events(t, ListCall)
  /\ UNCHANGED <<storageVars, eventsCache, eventsMutex, listed, scenariosCache, scenariosMutex>>

PostScenario(t) == StoreRequest(t, "postScenario")

PutScenario(t) == StoreRequest(t, "putScenario")

ScenarioCleaned(t) ==
  /\ call[t].step = "ok"
  /\ Moves(t, "clean", "insert")
  /\ job' = [job EXCEPT ![t] = Cleaned(t)]
  /\ BackFromEvents(t)
  /\ UNCHANGED <<storageVars, scenariosCache, scenariosMutex>>

EnterAdd(t) ==
  /\ Moves(t, "insert", "inserting")
  /\ scenariosMutex = NoThread
  /\ scenariosMutex' = t
  /\ FillIfEmpty
  /\ UNCHANGED <<eventsVars, job>>

(* INSERT, refused by the primary key when the scenario exists.             *)
InsertScenario(t) ==
  LET id == job[t].id
      s == ContentOf(job[t])
  IN  /\ pc[t] = "inserting"
      /\ \/ \E c \in Connections :
              IF c.rows.scenarios[id] = Absent
                THEN /\ Leaves(c, [c.rows EXCEPT !.scenarios[id] = s])
                     /\ scenariosCache' =
                          IF scenariosCache[id] = Absent
                            THEN [scenariosCache EXCEPT ![id] = s]
                            ELSE scenariosCache
                     /\ Reply(t, "inserting", "ok")
                ELSE /\ Leaves(c, c.rows)
                     /\ Reply(t, "inserting", "failed")
                     /\ UNCHANGED scenariosCache
         \/ /\ Fails("write")
            /\ Reply(t, "inserting", "failed")
            /\ UNCHANGED scenariosCache
      /\ scenariosMutex' = NoThread
      /\ UNCHANGED eventsVars

RemoveRequest(t) ==
  /\ Idle(t)
  /\ "deleteScenario" \in Requests
  /\ \E id \in ScenarioIds :
       job' = [job EXCEPT ![t] = JobOf(id, [activate |-> {}, deactivate |-> {}])]
  /\ pc' = [pc EXCEPT ![t] = "remove"]
  /\ UNCHANGED <<storageVars, eventsVars, scenariosCache, scenariosMutex>>

(* Mutant: the cache keeps the scenario.                                    *)
RemoveScenarioFromTable(t) ==
  /\ pc[t] = "remove"
  /\ scenariosMutex = NoThread
  /\ \E c \in Connections : Leaves(c, [c.rows EXCEPT !.scenarios[job[t].id] = Absent])
  /\ Reply(t, "remove", "ok")
  /\ UNCHANGED <<eventsVars, scenariosMutex, scenariosCache>>

(* Remove succeeds for a scenario that is not there.                        *)
RemoveScenario(t) ==
  /\ pc[t] = "remove"
  /\ scenariosMutex = NoThread
  /\ \/ \E c \in Connections :
          /\ Leaves(c, [c.rows EXCEPT !.scenarios[job[t].id] = Absent])
          /\ scenariosCache' = [scenariosCache EXCEPT ![job[t].id] = Absent]
          /\ Reply(t, "remove", "ok")
     \/ /\ Fails("write")
        /\ Reply(t, "remove", "failed")
        /\ UNCHANGED scenariosCache
  /\ UNCHANGED <<eventsVars, scenariosMutex>>
------------------------------------------------------------------------------
(* ActivateScenario holds the scenarios mutex from here to its return.      *)
ActivateRequest(t) ==
  /\ Idle(t)
  /\ "activateScenario" \in Requests
  /\ \E id \in ScenarioIds :
       job' = [job EXCEPT ![t] = JobOf(id, [activate |-> {}, deactivate |-> {}])]
  /\ pc' = [pc EXCEPT ![t] = "activate"]
  /\ UNCHANGED <<storageVars, eventsVars, scenariosCache, scenariosMutex>>

(* Mutant: the mutex is taken after the scenario is looked up.              *)
EnterActivateUnlocked(t) ==
  /\ Moves(t, "activate", "lookup")
  /\ FillIfEmpty
  /\ UNCHANGED <<eventsVars, scenariosMutex, job>>

EnterActivate(t) ==
  /\ Moves(t, "activate", "lookup")
  /\ scenariosMutex = NoThread
  /\ scenariosMutex' = t
  /\ FillIfEmpty
  /\ UNCHANGED <<eventsVars, job>>

ScenarioFound(t) ==
  /\ Moves(t, "lookup", "cleanActivate")
  /\ scenariosCache[job[t].id] # Absent
  /\ job' = [job EXCEPT ![t] = JobOf(@.id, scenariosCache[@.id])]
  /\ Calls2Events(t, ListCall)
  /\ UNCHANGED <<storageVars, eventsCache, eventsMutex, listed, scenariosCache, scenariosMutex>>

ScenarioNotFound(t) ==
  /\ Reply(t, "lookup", "failed")
  /\ scenariosCache[job[t].id] = Absent
  /\ scenariosMutex' = NoThread
  /\ UNCHANGED <<storageVars, eventsVars, scenariosCache>>

(* Mutant: the stored ids are used as they are.                             *)
ActivationNotCleaned(t) ==
  /\ call[t].step = "ok"
  /\ Moves(t, "cleanActivate", "begin")
  /\ BackFromEvents(t)
  /\ UNCHANGED <<storageVars, scenariosCache, scenariosMutex, job>>

ActivationCleaned(t) ==
  /\ call[t].step = "ok"
  /\ Moves(t, "cleanActivate", "begin")
  /\ job' = [job EXCEPT ![t] = Cleaned(t)]
  /\ BackFromEvents(t)
  /\ UNCHANGED <<storageVars, scenariosCache, scenariosMutex>>

(* Mutants: the result of Begin is ignored; Begin is not called.            *)
BeginActivationUnchecked(t) ==
  /\ \E ok \in BOOLEAN : Begin(ok)
  /\ Moves(t, "begin", "apply")
  /\ UNCHANGED <<eventsVars, scenariosCache, scenariosMutex, job>>

BeginActivationWithoutBegin(t) ==
  /\ Moves(t, "begin", "apply")
  /\ UNCHANGED <<storageVars, eventsVars, scenariosCache, scenariosMutex, job>>

BeginActivation(t) ==
  /\ \/ /\ Begin(TRUE)
        /\ Moves(t, "begin", "apply")
        /\ UNCHANGED <<job, scenariosMutex>>
     \/ /\ Begin(FALSE)
        /\ Reply(t, "begin", "failed")
        /\ scenariosMutex' = NoThread
  /\ UNCHANGED <<eventsVars, scenariosCache>>

(* All activations come first; each set is walked in the order of the ids,  *)
(* which says nothing about the events: any order.                         *)
NextActivity(t) ==
  /\ Moves(t, "apply", "setting")
  /\ \/ \E id \in job[t].activate :
          /\ Calls2Events(t, SetActivityCall(id, TRUE))
          /\ job' = [job EXCEPT ![t].activate = @ \ {id}]
     \/ /\ job[t].activate = {}
        /\ \E id \in job[t].deactivate :
             /\ Calls2Events(t, SetActivityCall(id, FALSE))
             /\ job' = [job EXCEPT ![t].deactivate = @ \ {id}]
  /\ UNCHANGED <<storageVars, eventsCache, eventsMutex, listed, scenariosCache, scenariosMutex>>

ActivitySet(t) ==
  /\ call[t].step = "ok"
  /\ Moves(t, "setting", "apply")
  /\ BackFromEvents(t)
  /\ UNCHANGED <<storageVars, scenariosCache, scenariosMutex, job>>

(* Mutant: the early return keeps the mutex.                                *)
ActivityNotSetLocked(t) ==
  /\ call[t].step = "failed"
  /\ Reply(t, "setting", "failed")
  /\ BackFromEvents(t)
  /\ UNCHANGED <<storageVars, scenariosCache, scenariosMutex>>

(* The return in the middle of the transaction: nothing ends it.            *)
ActivityNotSet(t) ==
  /\ call[t].step = "failed"
  /\ Reply(t, "setting", "failed")
  /\ scenariosMutex' = NoThread
  /\ BackFromEvents(t)
  /\ UNCHANGED <<storageVars, scenariosCache>>

(* Mutant: the result of Commit is ignored.                                 *)
CommitActivationUnchecked(t) ==
  /\ pc[t] = "apply"
  /\ job[t].activate = {} /\ job[t].deactivate = {}
  /\ \E ok \in BOOLEAN : Commit(ok)
  /\ Reply(t, "apply", "ok")
  /\ scenariosMutex' = NoThread
  /\ UNCHANGED <<eventsVars, scenariosCache>>

CommitActivation(t) ==
  /\ pc[t] = "apply"
  /\ job[t].activate = {} /\ job[t].deactivate = {}
  /\ \/ Commit(TRUE) /\ Reply(t, "apply", "ok")
     \/ Commit(FALSE) /\ Reply(t, "apply", "failed")
  /\ scenariosMutex' = NoThread
  /\ UNCHANGED <<eventsVars, scenariosCache>>
------------------------------------------------------------------------------
NewRequest(t) ==
  \/ EventRequest(t)
  \/ ListScenarios(t)
  \/ PostScenario(t)
  \/ PutScenario(t)
  \/ RemoveRequest(t)
  \/ ActivateRequest(t)

Serve(t) ==
  \/ EventsStep(t) /\ UNCHANGED scenariosVars
  \/ EventReply(t)
  \/ ScenarioCleaned(t)
  \/ EnterAdd(t)
  \/ InsertScenario(t)
  \/ RemoveScenario(t)
  \/ EnterActivate(t)
  \/ ScenarioFound(t)
  \/ ScenarioNotFound(t)
  \/ ActivationCleaned(t)
  \/ BeginActivation(t)
  \/ NextActivity(t)
  \/ ActivitySet(t)
  \/ ActivityNotSet(t)
  \/ CommitActivation(t)

(* A crash or a Quit, and the constructors of the next process.             *)
RestartServer ==
  /\ Restart
  /\ scenariosMutex' = NoThread
  /\ pc' = [t \in Threads |-> "idle"]
  /\ job' = [t \in Threads |-> NoJob]
  /\ \/ scenariosCache' = durable.scenarios
     \/ "select" \in Faults /\ scenariosCache' = NoScenarios

ServerInit ==
  /\ \E rows \in InitialEvents, stored \in InitialScenarios :
       db = [events |-> rows, scenarios |-> stored]
  /\ durable = db
  /\ txOpen = FALSE
  /\ eventsCache = db.events
  /\ eventsMutex = NoThread
  /\ call = [t \in Threads |-> NoCall]
  /\ listed = [t \in Threads |-> {}]
  /\ scenariosCache = db.scenarios
  /\ scenariosMutex = NoThread
  /\ pc = [t \in Threads |-> "idle"]
  /\ job = [t \in Threads |-> NoJob]

ServerNext ==
  \/ \E t \in Threads : NewRequest(t) \/ Serve(t)
  \/ RestartServer

serverVars == <<vars, scenariosVars>>

ServerSpec == ServerInit /\ [][ServerNext]_serverVars

(* The operating system runs every thread that can run.                     *)
FairServerSpec == ServerSpec /\ \A t \in Threads : WF_serverVars(Serve(t))
------------------------------------------------------------------------------
PCs ==
  {"idle", "ok", "failed", "event", "clean", "insert", "inserting", "remove",
   "activate", "lookup", "cleanActivate", "begin", "apply", "setting"}

ServerTypeOK ==
  /\ db \in [events : EventTable, scenarios : ScenarioTable]
  /\ durable \in [events : EventTable, scenarios : ScenarioTable]
  /\ txOpen \in BOOLEAN
  /\ eventsCache \in EventTable
  /\ eventsMutex \in Threads \cup {NoThread}
  /\ call \in [Threads -> Calls]
  /\ listed \in [Threads -> SUBSET EventIds]
  /\ scenariosCache \in ScenarioTable
  /\ scenariosMutex \in Threads \cup {NoThread}
  /\ pc \in [Threads -> PCs]
  /\ job \in [Threads -> Job \cup {NoJob}]

(* ScenariosController::_mutex is held from the lock_guard to the return,   *)
(* across every call ActivateScenario makes to the events controller: two  *)
(* activations, or an activation and a change of scenarios, never overlap. *)
ScenariosMutexHeld ==
  \A t \in Threads :
    pc[t] \in {"inserting", "lookup", "cleanActivate", "begin", "apply", "setting"}
      <=> scenariosMutex = t

(* A thread is in a method of the events controller exactly when its        *)
(* handler waits for one, and List never fails.                            *)
CallsMatchHandlers ==
  \A t \in Threads :
    /\ call[t] # NoCall <=> pc[t] \in {"event", "clean", "cleanActivate", "setting"}
    /\ pc[t] \in {"clean", "cleanActivate"} => call[t].op = "list" /\ call[t].step # "failed"
    /\ pc[t] = "setting" => call[t].op = "setActivity"

(* The cache of scenarios is the table, whenever the mutex is free.         *)
ScenariosCacheIsTable == scenariosMutex = NoThread => scenariosCache = db.scenarios

(***************************************************************************)
(* Nobody owns an open transaction: an activation returned between BEGIN   *)
(* and COMMIT, and the connection every controller writes through now      *)
(* collects their statements without committing them.                      *)
(***************************************************************************)
Leaked == txOpen /\ \A t \in Threads : ~InTransaction(t)

(***************************************************************************)
(* A leaked transaction only ends with the connection (reopened, rolled    *)
(* back by the database, or a new process): COMMIT is only reached through *)
(* a BEGIN of the same activation, which the open transaction makes fail.  *)
(* So while it lasts no write of anyone becomes durable, and no activation *)
(* takes the transaction over as its own.                                  *)
(***************************************************************************)
LeakedWritesAreLost ==
  [][Leaked /\ ~RestartServer
       => /\ txOpen' => durable' = durable
          /\ (\E t \in Threads : InTransaction(t))' => db' = durable']_serverVars

(***************************************************************************)
(* For clients that do not delete events: an activation that stops at one  *)
(* of its events, with its transaction open, does so because a statement   *)
(* failed, and never because the stored scenario names an event that was   *)
(* deleted before, or the server started without.                          *)
(***************************************************************************)
OnlyFailuresCutShort ==
  [][\A t \in Threads : ActivityNotSet(t) => eventsCache[call[t].id] # Absent]_serverVars

(***************************************************************************)
(* A successful answer to an activation is a durable one: everything the   *)
(* connection saw when COMMIT returned survives a crash, the writes that   *)
(* other threads made meanwhile included.                                  *)
(***************************************************************************)
ActivationDurable ==
  [][\A t \in Threads :
       pc[t] = "apply" /\ pc'[t] = "ok" => durable' = db /\ db' = db]_serverVars

(***************************************************************************)
(* Every request is answered: unless clients send requests for ever, the   *)
(* server comes to rest with every mutex free.  No handler waits for a     *)
(* mutex in a circle (scenarios before events before the connection) and   *)
(* none returns with one held.                                             *)
(***************************************************************************)
EveryRequestAnswered ==
  \/ []<><<\E t \in Threads : NewRequest(t)>>_serverVars
  \/ <>[](/\ \A t \in Threads : Idle(t)
          /\ eventsMutex = NoThread
          /\ scenariosMutex = NoThread)

(***************************************************************************)
(* A PUT of a scenario replaces it and is answered OK, as the widget that  *)
(* sends it for the selected, hence stored, scenario expects.  For runs    *)
(* whose clients only send PUT.                                            *)
(***************************************************************************)
PutReplacesScenario ==
  [][\A t \in Threads :
       InsertScenario(t)
         => pc'[t] = "ok" /\ db'.scenarios[job[t].id] = ContentOf(job[t])]_serverVars
------------------------------------------------------------------------------
(***************************************************************************)
(* What activation promises to whoever reads the file after a crash: the   *)
(* scenario is applied as a whole or not at all (module AtomicScenarios).  *)
(* It is checked for clients that do not edit events at the same time;     *)
(* an edit made during an activation joins its transaction.                *)
(***************************************************************************)
Atomic == INSTANCE AtomicScenarios
            WITH events <- durable.events, scenarios <- durable.scenarios

ActivationIsAtomic == Atomic!Spec
==============================================================================
