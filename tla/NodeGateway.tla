---------------------------- MODULE NodeGateway ----------------------------
(***************************************************************************)
(* The node side of /ws/rpc: the life of a connection, the frame loop that *)
(* handles its requests one after another, and the registry of nodes with  *)
(* the node.invoke round trips it brokers.  (The table that events are     *)
(* broadcast to is module ConnectionTable.)                                *)
(*                                                                         *)
(* A connection is served by one coroutine.  An action is what it or an    *)
(* agent's task does between two awaits.                                   *)
(***************************************************************************)
EXTENDS Naturals

CONSTANTS
    Conns, NodeIds, Invokes, None,
    IdsOf       \* the node ids that the peer of a connection goes by

ASSUME GatewayAssumption ==
    /\ None \notin Conns \cup NodeIds
    /\ IdsOf \in [Conns -> SUBSET NodeIds]

VARIABLES
    link,       \* the websocket of a connection as its peer sees it
    loop,       \* where the coroutine of a connection is
    names,      \* the node id a connection's connect asked for, or None
    nodes,      \* _nodes_by_id and _node_sockets: the connection of a node id
    byConn,     \* _nodes_by_conn
    invoke,     \* the calls of NodeRegistry.invoke, each with its future
    pending,    \* _pending: the invokes a result would be accepted for
    wire,       \* results a node has sent and the server has not read
    (* history *)
    shared,     \* node ids that two connections have been registered for at once
    renamed     \* connections that connected again under another id

registry == <<nodes, byConn, shared, renamed>>
invokeState == <<invoke, pending>>
nodeVars == <<link, loop, names, registry, invokeState, wire>>

NoInvoke == [at |-> "idle", node |-> None, conn |-> None, caller |-> None,
             future |-> "pending", result |-> "none"]

NodeTypeOK ==
    /\ link \in [Conns -> {"none", "up", "down"}]
    /\ loop \in [Conns -> {"none", "challenge", "reading", "connecting",
                           "invoking", "turn", "replying", "closed"}]
    /\ names \in [Conns -> NodeIds \cup {None}]
    /\ nodes \in [NodeIds -> Conns \cup {None}]
    /\ byConn \in [Conns -> NodeIds \cup {None}]
    /\ invoke \in [Invokes -> [at: {"idle", "sending", "waiting", "over"},
                               node: NodeIds \cup {None},
                               conn: Conns \cup {None},
                               caller: Conns \cup {None},
                               future: {"pending", "answered", "gone"},
                               result: {"none", "answered", "NOT_CONNECTED",
                                        "TIMEOUT", "UNAVAILABLE"}]]
    /\ pending \in SUBSET Invokes
    /\ wire \in [Conns -> SUBSET Invokes]
    /\ shared \in SUBSET NodeIds
    /\ renamed \in SUBSET Conns

NodeInit ==
    /\ link = [c \in Conns |-> "none"]
    /\ loop = [c \in Conns |-> "none"]
    /\ names = [c \in Conns |-> None]
    /\ nodes = [n \in NodeIds |-> None]
    /\ byConn = [c \in Conns |-> None]
    /\ invoke = [i \in Invokes |-> NoInvoke]
    /\ pending = {}
    /\ wire = [c \in Conns |-> {}]
    /\ shared = {} /\ renamed = {}

----------------------------------------------------------------------------
(* The life of a connection.                                               *)

\* bootstrap_rpc_ws_connection up to the send of connect.challenge.
Open(c) ==
    /\ link[c] = "none"
    /\ link' = [link EXCEPT ![c] = "up"]
    /\ loop' = [loop EXCEPT ![c] = "challenge"]
    /\ UNCHANGED <<names, registry, invokeState, wire>>

\* The rest of it.
Challenged(c) ==
    /\ loop[c] = "challenge"
    /\ loop' = [loop EXCEPT ![c] = "reading"]
    /\ UNCHANGED <<link, names, registry, invokeState, wire>>

\* The send raises; no cleanup has been entered yet.
ChallengeFails(c) ==
    /\ loop[c] = "challenge" /\ link[c] = "down"
    /\ loop' = [loop EXCEPT ![c] = "closed"]
    /\ UNCHANGED <<link, names, registry, invokeState, wire>>

\* The peer closes, or the network does.
Hangup(c) ==
    /\ link[c] = "up"
    /\ link' = [link EXCEPT ![c] = "down"]
    /\ UNCHANGED <<loop, names, registry, invokeState, wire>>

\* unregister_by_conn: the node goes and its pending invokes are answered.
Unregister_MutSilent(c) ==
    LET n == byConn[c]
    IN  IF n = None THEN UNCHANGED <<registry, invokeState>>
        ELSE /\ byConn' = [byConn EXCEPT ![c] = None]
             /\ nodes' = [nodes EXCEPT ![n] = None]
             /\ pending' = {i \in pending : invoke[i].node # n}
             /\ UNCHANGED <<shared, renamed, invoke>>

Unregister(c) ==
    LET n == byConn[c]
        doomed == {i \in pending : invoke[i].node = n}
    IN  IF n = None THEN UNCHANGED <<registry, invokeState>>
        ELSE /\ byConn' = [byConn EXCEPT ![c] = None]
             /\ nodes' = [nodes EXCEPT ![n] = None]
             /\ pending' = pending \ doomed
             /\ invoke' = [i \in Invokes |->
                    IF i \in doomed /\ invoke[i].future = "pending"
                    THEN [invoke[i] EXCEPT !.future = "gone"] ELSE invoke[i]]
             /\ UNCHANGED <<shared, renamed>>

\* handle_rpc_ws_close: whatever ends the loop, the node is unregistered and
\* the websocket is closed.
Cleanup(c) ==
    /\ loop' = [loop EXCEPT ![c] = "closed"]
    /\ link' = [link EXCEPT ![c] = "down"]
    /\ Unregister(c)
    /\ wire' = [wire EXCEPT ![c] = {}]
    /\ UNCHANGED names

\* receive_json raises: everything that was sent before has been read.
Closed(c) ==
    /\ loop[c] = "reading" /\ link[c] = "down" /\ wire[c] = {}
    /\ Cleanup(c)

----------------------------------------------------------------------------
(* Frames, read one at a time.                                             *)

\* A frame that is no JSON object ends the loop.
BadFrame(c) ==
    /\ loop[c] = "reading" /\ link[c] = "up"
    /\ Cleanup(c)

Reads(c) == loop[c] = "reading" /\ link[c] = "up"
IsNode(c) == names[c] # None
StartsReply(c) == loop' = [loop EXCEPT ![c] = "replying"]

\* connect as a node, up to the awaits of its handler.
Connect(c, n) ==
    /\ Reads(c)
    /\ names' = [names EXCEPT ![c] = n]
    /\ renamed' = IF byConn[c] \in {None, n} THEN renamed ELSE renamed \cup {c}
    /\ loop' = [loop EXCEPT ![c] = "connecting"]
    /\ UNCHANGED <<link, nodes, byConn, shared, invokeState, wire>>

\* register, and the response.
Register(c) ==
    LET n == names[c]
    IN  /\ loop[c] = "connecting"
        /\ nodes' = [nodes EXCEPT ![n] = c]
        /\ byConn' = [byConn EXCEPT ![c] = n]
        /\ shared' = IF \E d \in Conns \ {c} : byConn[d] = n
                     THEN shared \cup {n} ELSE shared \ {n}
        /\ StartsReply(c)
        /\ UNCHANGED <<link, names, invokeState, wire, renamed>>

\* The response is sent; on a closed websocket the send may raise.
Reply(c) ==
    /\ loop[c] = "replying"
    /\ loop' = [loop EXCEPT ![c] = "reading"]
    /\ UNCHANGED <<link, names, registry, invokeState, wire>>

ReplyFails(c) ==
    /\ loop[c] = "replying" /\ link[c] = "down"
    /\ Cleanup(c)

\* node.event agent.request: the loop of the node awaits the agent's turn.
AgentRequest(c) ==
    /\ Reads(c) /\ IsNode(c)
    /\ loop' = [loop EXCEPT ![c] = "turn"]
    /\ UNCHANGED <<link, names, registry, invokeState, wire>>

Calling(c) == \E i \in Invokes : /\ invoke[i].caller = c
                                 /\ invoke[i].at \in {"sending", "waiting"}

AgentTurnEnds(c) ==
    /\ loop[c] = "turn" /\ ~Calling(c)
    /\ StartsReply(c)
    /\ UNCHANGED <<link, names, registry, invokeState, wire>>
----------------------------------------------------------------------------
(* node.invoke.                                                            *)

\* NodeRegistry.invoke up to its send: a node that is not listed is an
\* answer, any other invoke becomes pending.
StartInvoke(i, n, caller) ==
    /\ invoke[i].at = "idle"
    /\ IF nodes[n] = None
       THEN /\ invoke' = [invoke EXCEPT ![i] =
                    [NoInvoke EXCEPT !.at = "over", !.node = n,
                                     !.result = "NOT_CONNECTED"]]
            /\ UNCHANGED pending
       ELSE /\ invoke' = [invoke EXCEPT ![i] =
                    [NoInvoke EXCEPT !.at = "sending", !.node = n,
                                     !.conn = nodes[n], !.caller = caller]]
            /\ pending' = pending \cup {i}

\* An operator's request: its connection waits for the answer.
OperatorInvokes(c, i, n) ==
    /\ Reads(c) /\ ~IsNode(c)
    /\ StartInvoke(i, n, c)
    /\ loop' = [loop EXCEPT ![c] = IF nodes[n] = None THEN "replying"
                                   ELSE "invoking"]
    /\ UNCHANGED <<link, names, registry, wire>>

\* A tool of the turn that the node of c asked for.
TurnInvokes(c, i, n) ==
    /\ loop[c] = "turn" /\ ~Calling(c)
    /\ StartInvoke(i, n, c)
    /\ UNCHANGED <<link, loop, names, registry, wire>>

\* A tool of any other turn, which names a listed node or takes the newest.
RunnerInvokes(i, n) ==
    /\ nodes[n] # None
    /\ StartInvoke(i, n, None)
    /\ UNCHANGED <<link, loop, names, registry, wire>>

Finish(i, result) ==
    /\ invoke' = [invoke EXCEPT ![i] = [NoInvoke EXCEPT
            !.at = "over", !.node = invoke[i].node, !.result = result]]
    /\ pending' = pending \ {i}
    /\ loop' = [c \in Conns |-> IF c = invoke[i].caller /\ loop[c] = "invoking"
                                THEN "replying" ELSE loop[c]]
    /\ UNCHANGED <<link, names, registry, wire>>

\* The frame reaches the node, or is lost with the websocket unnoticed.
Sent(i) ==
    /\ invoke[i].at = "sending"
    /\ invoke' = [invoke EXCEPT ![i].at = "waiting"]
    /\ UNCHANGED <<link, loop, names, registry, pending, wire>>

SendFails(i) ==
    /\ invoke[i].at = "sending"
    /\ link[invoke[i].conn] = "down"
    /\ Finish(i, "UNAVAILABLE")

\* The node answers, over the connection that it was asked on or over
\* another one that it has opened since under its id, perhaps too late.
NodeAnswers(i, c) ==
    /\ invoke[i].at = "waiting" \/ invoke[i].result = "TIMEOUT"
    /\ link[c] = "up" /\ names[c] = invoke[i].node
    /\ \A d \in Conns : i \notin wire[d]
    /\ wire' = [wire EXCEPT ![c] = @ \cup {i}]
    /\ UNCHANGED <<link, loop, names, registry, invokeState>>

\* node.invoke.result: accepted if the invoke is pending for that node.
ResultFrame(c, i) ==
    /\ loop[c] = "reading" /\ i \in wire[c]
    /\ wire' = [wire EXCEPT ![c] = @ \ {i}]
    /\ invoke' = IF /\ i \in pending /\ invoke[i].node = names[c]
                    /\ invoke[i].future = "pending"
                 THEN [invoke EXCEPT ![i].future = "answered"] ELSE invoke
    /\ StartsReply(c)
    /\ UNCHANGED <<link, names, registry, pending>>

\* wait_for returns what the future holds ...
InvokeResumes_MutRaw(i) ==
    /\ invoke[i].at = "waiting" /\ invoke[i].future # "pending"
    /\ Finish(i, invoke[i].future)

InvokeResumes(i) ==
    /\ invoke[i].at = "waiting" /\ invoke[i].future # "pending"
    /\ Finish(i, IF invoke[i].future = "answered" THEN "answered"
                 ELSE "NOT_CONNECTED")

\* ... or its timer fires first, perhaps just after an answer was accepted.
InvokeTimesOut_MutLate(i) ==
    /\ invoke[i].at = "waiting" /\ invoke[i].future # "pending"
    /\ Finish(i, "TIMEOUT")

InvokeTimesOut(i) ==
    /\ invoke[i].at = "waiting"
    /\ Finish(i, "TIMEOUT")

----------------------------------------------------------------------------
NodeNext ==
    \/ \E c \in Conns :
          \/ Open(c) \/ Challenged(c) \/ ChallengeFails(c) \/ Hangup(c)
          \/ Closed(c) \/ BadFrame(c) \/ Register(c) \/ Reply(c) \/ ReplyFails(c)
          \/ AgentRequest(c) \/ AgentTurnEnds(c)
          \/ \E n \in IdsOf[c] : Connect(c, n)
          \/ \E i \in Invokes, n \in NodeIds :
                OperatorInvokes(c, i, n) \/ TurnInvokes(c, i, n)
          \/ \E i \in Invokes : NodeAnswers(i, c) \/ ResultFrame(c, i)
    \/ \E i \in Invokes :
          \/ Sent(i) \/ SendFails(i) \/ InvokeResumes(i) \/ InvokeTimesOut(i)
          \/ \E n \in NodeIds : RunnerInvokes(i, n)

NodeSpec == NodeInit /\ [][NodeNext]_nodeVars

\* What the loop of a connection does next when no frame of the peer is needed,
\* and what a call of invoke does next.
LoopGoesOn(c) ==
    \/ Challenged(c) \/ Closed(c) \/ Register(c) \/ AgentTurnEnds(c)
    \/ Reply(c) \/ ReplyFails(c)
    \/ \E i \in Invokes : ResultFrame(c, i)

InvokeGoesOn(i) == Sent(i) \/ SendFails(i) \/ InvokeResumes(i) \/ InvokeTimesOut(i)

\* Coroutines that can go on do, sends and turns come to an end, and the
\* timer of wait_for fires.  Peers need not do anything.
NodeFairness ==
    /\ \A c \in Conns : WF_nodeVars(LoopGoesOn(c))
    /\ \A i \in Invokes : WF_nodeVars(InvokeGoesOn(i))

NodeFairSpec == NodeSpec /\ NodeFairness

----------------------------------------------------------------------------
(* What the gateway promises.                                              *)

\* The registry names only connections that are being served, and a node that
\* is connected can be invoked: the exceptions are a connection that has
\* connected twice under different ids, and a node that came back before its
\* older connection was cleaned up (unregister removes by node id).
RegistryIsTrue ==
    \A n \in NodeIds :
        /\ nodes[n] # None /\ nodes[n] \notin renamed =>
              loop[nodes[n]] # "closed" /\ byConn[nodes[n]] = n
        /\ nodes[n] = None /\ n \notin shared =>
              \A c \in Conns : byConn[c] = n => c \in renamed

\* An invoke is told NOT_CONNECTED while it waits only if the connection that
\* it was sent over is gone, or an older one of the same node id; a result is
\* accepted for it only while its caller waits, and no invoke is forgotten:
\* what waits is in _pending, or has its future set (registry.py:54-152).
InvokesAreTrue ==
    \A i \in Invokes :
        /\ invoke[i].future = "gone" =>
              \E c \in Conns : loop[c] = "closed" /\ names[c] = invoke[i].node
        /\ i \in pending => invoke[i].at \in {"sending", "waiting"}
        /\ invoke[i].at = "waiting" /\ invoke[i].future = "pending" =>
              i \in pending /\ nodes[invoke[i].node] # None

\* What the registry says of connections and of invokes is so: the two above,
\* whatever reconnects, hangs up and answers late (registry.py:54-190).
NodesAreTrue == RegistryIsTrue /\ InvokesAreTrue

\* A connection whose peer is gone is cleaned up, whatever its loop was
\* waiting for: invokes time out and turns end.
DeadConnectionsGo ==
    \A c \in Conns : link[c] = "down" ~> loop[c] = "closed"

============================================================================
