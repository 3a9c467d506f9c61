------------------------------ MODULE MCServices ------------------------------
(***************************************************************************)
(* Four parts of the program that share no state, in one run: the task     *)
(* queue of the house workers, the routing of messages, the choice of a    *)
(* model and the collaboration of agents.  A behaviour of the run is a     *)
(* behaviour of the one that its initial state names, and the others never *)
(* leave an initial state of theirs.                                       *)
(***************************************************************************)
EXTENDS TaskQueue, MessageRouting, ModelFallback, Collaboration

CONSTANTS m1, a, gpt, glm, p1, main, u1

VARIABLE part

MCHome == [m \in {m1} |-> a]

MCModels == <<gpt, glm>>

MCProfiles == [m \in {gpt, glm} |-> IF m = gpt THEN <<p1>> ELSE <<>>]

Init ==
    /\ part \in {"tasks", "routing", "models", "collaboration"}
    /\ TaskInit /\ RoutingInit /\ FallbackInit /\ CollabInit
    /\ part /= "models" => saved = {} /\ \A t \in ModelTurns : loopOf[t] = main
    /\ loopOf[u1] = main \* the turns are alike
    /\ part /= "collaboration" => staffed /\ abort

TaskPart == part = "tasks" /\ UNCHANGED <<part, routingVars, fallbackVars, collabVars>>
RoutingPart == part = "routing" /\ UNCHANGED <<part, taskVars, fallbackVars, collabVars>>
ModelPart == part = "models" /\ UNCHANGED <<part, taskVars, routingVars, collabVars>>
CollabPart == part = "collaboration" /\ UNCHANGED <<part, taskVars, routingVars, fallbackVars>>

Next ==
    \/ TaskPart /\ TaskNext
    \/ RoutingPart /\ RoutingNext
    \/ ModelPart /\ FallbackNext
    \/ CollabPart /\ CollabNext

\* The fairness of each part (TaskFairness, RoutingFairness, CollabFairness),
\* asked of the one that runs.
Fairness ==
    /\ \A t \in Tasks : WF_taskVars(TaskPart /\ RetryFallsDue(t))
    /\ \A w \in Workers, t \in Tasks :
          WF_taskVars(TaskPart /\ Pick(w, t)) /\ WF_taskVars(TaskPart /\ WorkerStep(w, t))
    /\ WF_routingVars(RoutingPart /\ Dispatch) /\ WF_routingVars(RoutingPart /\ Consume)
    /\ WF_routingVars(RoutingPart /\ FinishTurn)
    /\ \A h \in Helpers : WF_routingVars(RoutingPart /\ Announce(h))
    /\ WF_collabVars(CollabPart /\ CollaborateNext)
    /\ WF_collabVars(CollabPart /\ DeliberateNext)

Spec ==
    Init /\ [][Next]_<<part, taskVars, routingVars, fallbackVars, collabVars>> /\ Fairness

\* Every part's variables are of their types and within their bounds.
TypesOK == TaskTypeOK /\ RoutingTypeOK /\ FallbackTypeOK /\ CollabTypeOK
===============================================================================
