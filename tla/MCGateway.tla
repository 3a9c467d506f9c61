------------------------------ MODULE MCGateway -------------------------------
(***************************************************************************)
(* Two parts of the gateway that share no state, in one run: the nodes     *)
(* that are connected to it with the invokes sent to them, and the cron    *)
(* service.  A behaviour of the run is a behaviour of the part that its    *)
(* initial state names, and the other never leaves an initial state.       *)
(***************************************************************************)
EXTENDS NodeGateway, MCCronService

CONSTANTS c2, n1

VARIABLE part

\* Both take the id n1, and one of them the other id too.
MCIdsOf == [c \in Conns |-> IF c = c2 THEN {n1} ELSE NodeIds]

GatewayInit ==
    /\ part \in {"nodes", "cron"}
    /\ NodeInit /\ Init

NodePart == part = "nodes" /\ UNCHANGED <<part, vars>>
CronPart == part = "cron" /\ UNCHANGED <<part, nodeVars>>

GatewayNext ==
    \/ NodePart /\ NodeNext
    \/ CronPart /\ Next

\* NodeFairness, and the fairness of CronService, asked of the part that runs.
GatewayFairness ==
    /\ \A c \in Conns : WF_nodeVars(NodePart /\ LoopGoesOn(c))
    /\ \A i \in Invokes : WF_nodeVars(NodePart /\ InvokeGoesOn(i))
    /\ WF_vars(CronPart /\ TimerFires) /\ WF_vars(CronPart /\ TurnEnds)

GatewaySpec ==
    /\ GatewayInit /\ [][GatewayNext]_<<part, nodeVars, vars>>
    /\ GatewayFairness

\* Every variable of both parts is of its type.
GatewayTypesOK == NodeTypeOK /\ TypeOK
===============================================================================
