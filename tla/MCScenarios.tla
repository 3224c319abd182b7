----------------------------- MODULE MCScenarios ------------------------------
(* Model checking of Scenarios on one or two events and scenarios.             *)
EXTENDS Scenarios, TLC

CONSTANTS e1, e2, b1

On == [active |-> TRUE, body |-> b1]
Off == [active |-> FALSE, body |-> b1]

(* No scenario is stored, or one that names events deleted long ago.         *)
NoneStored == {NoScenarios}
AnyStored == NoneStored \cup [ScenarioIds -> Contents]

(* The server starts on a file with every event, or on an empty one.         *)
AllStored == {[e \in EventIds |-> IF e = e1 THEN On ELSE Off]}
EmptyOrFull == AllStored \cup {NoEvents}

(* The editor refuses a scenario that switches an event both on and off.     *)
Swaps == {[activate |-> {e1}, deactivate |-> {e2}],
          [activate |-> {e2}, deactivate |-> {e1}]}
Single == {[activate |-> {e1}, deactivate |-> {}]}

Interchangeable == Permutations(Threads)

AllButEdits == {"listEvents", "listScenarios", "postScenario", "deleteScenario",
                "activateScenario"}
OnlyPut == {"putScenario", "listScenarios"}
==============================================================================
