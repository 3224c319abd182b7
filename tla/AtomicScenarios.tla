--------------------------- MODULE AtomicScenarios ----------------------------
(***************************************************************************)
(* What the scenarios of the server promise, without threads, caches or a  *)
(* connection: storing and removing a scenario are single steps, and       *)
(* activating one sets the activity of all the events it names, of those   *)
(* that exist, in a single step.                                           *)
(***************************************************************************)
CONSTANTS EventIds, ScenarioIds, Absent

VARIABLES
  events,      \* the event of each id
  scenarios    \* the scenario of each id

vars == <<events, scenarios>>

Scenario == [activate : SUBSET EventIds, deactivate : SUBSET EventIds]

(* Event e after the activation of scenario s.                              *)
AfterActivation(s, e) ==
  IF events[e] = Absent THEN Absent
  ELSE IF e \in s.deactivate THEN [events[e] EXCEPT !.active = FALSE]
  ELSE IF e \in s.activate THEN [events[e] EXCEPT !.active = TRUE]
  ELSE events[e]

Activate(id) ==
  /\ scenarios[id] # Absent
  /\ events' = [e \in EventIds |-> AfterActivation(scenarios[id], e)]
  /\ UNCHANGED scenarios

Store(id) ==
  /\ scenarios[id] = Absent
  /\ \E s \in Scenario : scenarios' = [scenarios EXCEPT ![id] = s]
  /\ UNCHANGED events

Remove(id) ==
  /\ scenarios' = [scenarios EXCEPT ![id] = Absent]
  /\ UNCHANGED events

(* A server may start on any stored scenarios and any events.               *)
Init == scenarios \in [ScenarioIds -> Scenario \cup {Absent}]

Next == \E id \in ScenarioIds : Activate(id) \/ Store(id) \/ Remove(id)

Spec == Init /\ [][Next]_vars
==============================================================================
