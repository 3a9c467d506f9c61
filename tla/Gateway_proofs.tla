---------------------------- MODULE Gateway_proofs ----------------------------
(***************************************************************************)
(* What NodeGateway guarantees for every number of connections, node ids   *)
(* and invokes, whichever ids the peers go by; what CronService guarantees *)
(* for every number of jobs, calls and restarts; and that what is proved   *)
(* of each holds of the run of both, MCGateway.                            *)
(***************************************************************************)
EXTENDS MCGateway, TLAPS

-------------------------------------------------------------------------------
(* The inductive invariant.  A connection is in the registry only while it is *)
(* served, under the id it connected with, unless it is connecting again; two *)
(* connections share an id only if the id is marked so; and an invoke whose   *)
(* caller waits for an open future is pending and its node is listed.         *)
ServedOnly ==
  \A c \in Conns : /\ link[c] = "none" => loop[c] = "none"
                   /\ loop[c] \in {"none", "challenge", "closed"} => byConn[c] = None
ConnectsAs ==
  \A c \in Conns :
     IF loop[c] = "connecting"
     THEN names[c] # None /\ (byConn[c] \in {None, names[c]} \/ c \in renamed)
     ELSE byConn[c] \in {None, names[c]}
SharedIsMarked ==
  \A c, d \in Conns : byConn[c] = byConn[d] /\ byConn[c] # None /\ byConn[c] \notin shared => c = d
OpenFuturesPend ==
  \A i \in Invokes : invoke[i].at \in {"sending", "waiting"} /\ invoke[i].future = "pending" =>
     i \in pending /\ invoke[i].node \in NodeIds /\ nodes[invoke[i].node] # None

NodeInv ==
  /\ NodeTypeOK
  /\ ServedOnly
  /\ ConnectsAs
  /\ SharedIsMarked
  /\ OpenFuturesPend
  /\ RegistryIsTrue
  /\ InvokesAreTrue

-------------------------------------------------------------------------------
(* Types.                                                                     *)

InvokeType == [at: {"idle", "sending", "waiting", "over"}, node: NodeIds \cup {None},
               conn: Conns \cup {None}, caller: Conns \cup {None},
               future: {"pending", "answered", "gone"},
               result: {"none", "answered", "NOT_CONNECTED", "TIMEOUT", "UNAVAILABLE"}]

LEMMA UnregisterTypes ==
  ASSUME NodeTypeOK, NEW c \in Conns, Unregister(c)
  PROVE  /\ nodes' \in [NodeIds -> Conns \cup {None}] /\ byConn' \in [Conns -> NodeIds \cup {None}]
         /\ shared' \in SUBSET NodeIds /\ renamed' \in SUBSET Conns
         /\ pending' \in SUBSET Invokes /\ invoke' \in [Invokes -> InvokeType]
<1> DEFINE n == byConn[c]
           doomed == {i \in pending : invoke[i].node = n}
<1>1. invoke \in [Invokes -> InvokeType]
  BY DEF NodeTypeOK, InvokeType
<1>2. CASE n = None
  BY <1>1, <1>2 DEF Unregister, NodeTypeOK, registry, invokeState
<1>3. CASE n # None
  <2>1. /\ byConn' = [byConn EXCEPT ![c] = None] /\ nodes' = [nodes EXCEPT ![n] = None]
        /\ pending' = pending \ doomed /\ shared' = shared /\ renamed' = renamed
        /\ invoke' = [i \in Invokes |->
              IF i \in doomed /\ invoke[i].future = "pending"
              THEN [invoke[i] EXCEPT !.future = "gone"] ELSE invoke[i]]
    BY <1>3 DEF Unregister
  <2>2. \A i \in Invokes : [invoke[i] EXCEPT !.future = "gone"] \in InvokeType
    BY <1>1 DEF InvokeType
  <2>3. invoke' \in [Invokes -> InvokeType]
    <3> HIDE DEF doomed, InvokeType
    <3> QED BY <1>1, <2>1, <2>2
  <2> QED BY <2>1, <2>3 DEF NodeTypeOK
<1> QED BY <1>2, <1>3

LEMMA CleanupTypes ==
  ASSUME NodeTypeOK, NEW c \in Conns, Cleanup(c)
  PROVE  NodeTypeOK'
<1>1. /\ loop' = [loop EXCEPT ![c] = "closed"] /\ link' = [link EXCEPT ![c] = "down"]
      /\ wire' = [wire EXCEPT ![c] = {}] /\ names' = names /\ Unregister(c)
  BY DEF Cleanup
<1>2. /\ loop' \in [Conns -> {"none", "challenge", "reading", "connecting",
                              "invoking", "turn", "replying", "closed"}]
      /\ link' \in [Conns -> {"none", "up", "down"}] /\ wire' \in [Conns -> SUBSET Invokes]
  BY <1>1 DEF NodeTypeOK
<1> QED BY <1>1, <1>2, UnregisterTypes DEF NodeTypeOK, InvokeType

LEMMA StartInvokeTypes ==
  ASSUME NodeTypeOK, NEW i \in Invokes, NEW n \in NodeIds, NEW caller \in Conns \cup {None},
         StartInvoke(i, n, caller)
  PROVE  invoke' \in [Invokes -> InvokeType] /\ pending' \in SUBSET Invokes
<1>1. invoke \in [Invokes -> InvokeType] /\ nodes[n] \in Conns \cup {None}
  BY DEF NodeTypeOK, InvokeType
<1>2. /\ [NoInvoke EXCEPT !.at = "over", !.node = n, !.result = "NOT_CONNECTED"] \in InvokeType
      /\ [NoInvoke EXCEPT !.at = "sending", !.node = n, !.conn = nodes[n], !.caller = caller]
            \in InvokeType
  BY <1>1 DEF NoInvoke, InvokeType
<1> QED BY <1>1, <1>2 DEF StartInvoke, NodeTypeOK

LEMMA FinishTypes ==
  ASSUME NodeTypeOK, NEW i \in Invokes,
         NEW result \in {"answered", "NOT_CONNECTED", "TIMEOUT", "UNAVAILABLE"},
         Finish(i, result)
  PROVE  NodeTypeOK'
<1>1. invoke \in [Invokes -> InvokeType] /\ invoke[i].node \in NodeIds \cup {None}
  BY DEF NodeTypeOK, InvokeType
<1>2. [NoInvoke EXCEPT !.at = "over", !.node = invoke[i].node, !.result = result] \in InvokeType
  BY <1>1 DEF NoInvoke, InvokeType
<1>3. invoke' \in [Invokes -> InvokeType] /\ pending' \in SUBSET Invokes
  BY <1>1, <1>2 DEF Finish, NodeTypeOK
<1>4. loop' \in [Conns -> {"none", "challenge", "reading", "connecting",
                           "invoking", "turn", "replying", "closed"}]
  BY DEF Finish, NodeTypeOK
<1> QED BY <1>3, <1>4 DEF Finish, NodeTypeOK, registry, InvokeType

LEMMA NodeTypesNext ==
  ASSUME GatewayAssumption, NodeTypeOK, ConnectsAs, [NodeNext]_nodeVars
  PROVE  NodeTypeOK'
<1>1. ASSUME NEW c \in Conns,
             Open(c) \/ Challenged(c) \/ ChallengeFails(c) \/ Hangup(c) \/ Reply(c)
               \/ AgentRequest(c) \/ AgentTurnEnds(c)
      PROVE  NodeTypeOK'
  BY <1>1 DEF NodeTypeOK, Open, Challenged, ChallengeFails, Hangup, Reply, AgentRequest,
              AgentTurnEnds, StartsReply, registry, invokeState
<1>2. ASSUME NEW c \in Conns, Closed(c) \/ BadFrame(c) \/ ReplyFails(c) PROVE NodeTypeOK'
  BY <1>2, CleanupTypes DEF Closed, BadFrame, ReplyFails
<1>3. ASSUME NEW c \in Conns, Register(c) PROVE NodeTypeOK'
  <2>1. names[c] \in NodeIds
    BY <1>3 DEF Register, ConnectsAs, NodeTypeOK
  <2> QED BY <1>3, <2>1 DEF NodeTypeOK, Register, StartsReply, invokeState
<1>4. ASSUME NEW c \in Conns, NEW n \in IdsOf[c], Connect(c, n) PROVE NodeTypeOK'
  <2>1. n \in NodeIds
    BY DEF GatewayAssumption
  <2> QED BY <1>4, <2>1 DEF NodeTypeOK, Connect, invokeState
<1>5. ASSUME NEW c \in Conns, NEW i \in Invokes, NEW n \in NodeIds,
             OperatorInvokes(c, i, n) \/ TurnInvokes(c, i, n)
      PROVE  NodeTypeOK'
  <2>1. /\ StartInvoke(i, n, c) /\ UNCHANGED <<link, names, registry, wire>>
        /\ loop' = loop \/ \E l \in {"replying", "invoking"} : loop' = [loop EXCEPT ![c] = l]
    BY <1>5 DEF OperatorInvokes, TurnInvokes
  <2>2. invoke' \in [Invokes -> InvokeType] /\ pending' \in SUBSET Invokes
    BY <2>1, StartInvokeTypes
  <2>3. loop' \in [Conns -> {"none", "challenge", "reading", "connecting",
                             "invoking", "turn", "replying", "closed"}]
    BY <2>1 DEF NodeTypeOK
  <2> QED BY <2>1, <2>2, <2>3 DEF NodeTypeOK, registry, InvokeType
<1>6. ASSUME NEW c \in Conns, NEW i \in Invokes, NodeAnswers(i, c) PROVE NodeTypeOK'
  BY <1>6 DEF NodeTypeOK, NodeAnswers, registry, invokeState
<1>7. ASSUME NEW c \in Conns, NEW i \in Invokes, ResultFrame(c, i) PROVE NodeTypeOK'
  <2>1. invoke \in [Invokes -> InvokeType]
    BY DEF NodeTypeOK, InvokeType
  <2>2. [invoke EXCEPT ![i].future = "answered"] \in [Invokes -> InvokeType]
    BY <2>1 DEF InvokeType
  <2>3. invoke' \in [Invokes -> InvokeType]
    BY <1>7, <2>1, <2>2 DEF ResultFrame
  <2>4. /\ wire' \in [Conns -> SUBSET Invokes]
        /\ loop' \in [Conns -> {"none", "challenge", "reading", "connecting",
                                "invoking", "turn", "replying", "closed"}]
    BY <1>7 DEF NodeTypeOK, ResultFrame, StartsReply
  <2> QED BY <1>7, <2>3, <2>4 DEF NodeTypeOK, ResultFrame, registry, InvokeType
<1>8. ASSUME NEW i \in Invokes, Sent(i) PROVE NodeTypeOK'
  <2>1. invoke \in [Invokes -> InvokeType] /\ invoke' = [invoke EXCEPT ![i].at = "waiting"]
    BY <1>8 DEF NodeTypeOK, InvokeType, Sent
  <2>2. invoke' \in [Invokes -> InvokeType]
    BY <2>1 DEF InvokeType
  <2> QED BY <1>8, <2>2 DEF NodeTypeOK, Sent, registry, InvokeType
<1>9. ASSUME NEW i \in Invokes, SendFails(i) \/ InvokeResumes(i) \/ InvokeTimesOut(i)
      PROVE  NodeTypeOK'
  <2>1. \E result \in {"answered", "NOT_CONNECTED", "TIMEOUT", "UNAVAILABLE"} : Finish(i, result)
    BY <1>9 DEF SendFails, InvokeResumes, InvokeTimesOut
  <2> QED BY <2>1, FinishTypes
<1>10. ASSUME NEW i \in Invokes, NEW n \in NodeIds, RunnerInvokes(i, n) PROVE NodeTypeOK'
  <2>1. invoke' \in [Invokes -> InvokeType] /\ pending' \in SUBSET Invokes
    BY <1>10, StartInvokeTypes DEF RunnerInvokes
  <2> QED BY <1>10, <2>1 DEF NodeTypeOK, RunnerInvokes, registry, InvokeType
<1>11. CASE UNCHANGED nodeVars
  BY <1>11 DEF NodeTypeOK, nodeVars, registry, invokeState
<1> QED BY <1>1, <1>2, <1>3, <1>4, <1>5, <1>6, <1>7, <1>8, <1>9, <1>10, <1>11 DEF NodeNext

-------------------------------------------------------------------------------
(* The registry of nodes.                                                     *)
RegistryInv == ServedOnly /\ ConnectsAs /\ SharedIsMarked /\ RegistryIsTrue

\* A step that moves loops among the states of a served connection and leaves the
\* links, the ids and the registry alone.
LEMMA LoopMoves ==
  ASSUME NodeTypeOK, RegistryInv, UNCHANGED <<link, names, registry>>,
         \A c \in Conns : \/ loop'[c] = loop[c]
                          \/ /\ loop[c] \notin {"none", "closed", "connecting"}
                             /\ loop'[c] \notin {"none", "challenge", "closed", "connecting"}
  PROVE  RegistryInv'
<1>1. ServedOnly'
  BY DEF RegistryInv, ServedOnly, registry
<1>2. ConnectsAs'
  BY DEF RegistryInv, ConnectsAs, registry
<1>3. SharedIsMarked'
  BY DEF RegistryInv, SharedIsMarked, registry
<1>4. RegistryIsTrue'
  <2> SUFFICES ASSUME NEW n \in NodeIds
               PROVE  /\ nodes[n] # None /\ nodes[n] \notin renamed =>
                           loop'[nodes[n]] # "closed" /\ byConn[nodes[n]] = n
                      /\ nodes[n] = None /\ n \notin shared =>
                           \A c \in Conns : byConn[c] = n => c \in renamed
    BY DEF RegistryIsTrue, registry
  <2>1. nodes[n] \in Conns \cup {None}
    BY DEF NodeTypeOK
  <2> QED BY <2>1 DEF RegistryInv, RegistryIsTrue
<1> QED BY <1>1, <1>2, <1>3, <1>4 DEF RegistryInv

\* The end of a connection's loop: unregister_by_conn removes what it registered, under
\* whatever connection the node id is listed by then.
LEMMA CleanupKeepsRegistry ==
  ASSUME GatewayAssumption, NodeTypeOK, RegistryInv, NEW c \in Conns, Cleanup(c),
         loop[c] \in {"reading", "replying"}
  PROVE  RegistryInv'
<1> DEFINE n == byConn[c]
<1>1. /\ loop' = [loop EXCEPT ![c] = "closed"] /\ link' = [link EXCEPT ![c] = "down"]
      /\ names' = names /\ shared' = shared /\ renamed' = renamed
      /\ \/ n = None /\ byConn' = byConn /\ nodes' = nodes
         \/ n # None /\ byConn' = [byConn EXCEPT ![c] = None] /\ nodes' = [nodes EXCEPT ![n] = None]
  BY DEF Cleanup, Unregister, registry
<1>2. /\ link \in [Conns -> {"none", "up", "down"}] /\ byConn \in [Conns -> NodeIds \cup {None}]
      /\ nodes \in [NodeIds -> Conns \cup {None}] /\ None \notin Conns /\ None \notin NodeIds
      /\ loop \in [Conns -> {"none", "challenge", "reading", "connecting",
                             "invoking", "turn", "replying", "closed"}]
  BY DEF NodeTypeOK, GatewayAssumption
<1>3. /\ byConn'[c] = None /\ loop'[c] = "closed" /\ link'[c] = "down"
      /\ \A d \in Conns : d # c => byConn'[d] = byConn[d] /\ loop'[d] = loop[d] /\ link'[d] = link[d]
      /\ \A m \in NodeIds : m # n => nodes'[m] = nodes[m]
      /\ n # None => n \in NodeIds /\ nodes'[n] = None
  BY <1>1, <1>2
<1> HIDE DEF n
<1>4. ServedOnly'
  BY <1>3 DEF RegistryInv, ServedOnly
<1>5. ConnectsAs'
  BY <1>1, <1>3 DEF RegistryInv, ConnectsAs
<1>6. SharedIsMarked'
  BY <1>1, <1>3 DEF RegistryInv, SharedIsMarked
<1>7. RegistryIsTrue'
  <2> SUFFICES ASSUME NEW m \in NodeIds
               PROVE  /\ nodes'[m] # None /\ nodes'[m] \notin renamed =>
                           loop'[nodes'[m]] # "closed" /\ byConn'[nodes'[m]] = m
                      /\ nodes'[m] = None /\ m \notin shared =>
                           \A d \in Conns : byConn'[d] = m => d \in renamed
    BY <1>1 DEF RegistryIsTrue
  <2>1. CASE m = n
    \* No other connection has the id, or it is marked as shared.
    <3>1. \A d \in Conns : byConn[d] = n /\ n \notin shared => d = c
      BY <1>2, <2>1 DEF RegistryInv, SharedIsMarked, n
    <3> QED BY <1>2, <1>3, <2>1, <3>1
  <2>2. CASE m # n
    <3>1. nodes'[m] = nodes[m] /\ nodes[m] \in Conns \cup {None}
      BY <1>2, <1>3, <2>2
    <3>2. nodes[m] # None /\ nodes[m] \notin renamed => nodes[m] # c
      BY <2>2 DEF RegistryInv, RegistryIsTrue, n
    <3>3. nodes[m] # None /\ nodes[m] \notin renamed =>
             loop[nodes[m]] # "closed" /\ byConn[nodes[m]] = m
      BY DEF RegistryInv, RegistryIsTrue
    <3>4. nodes[m] = None /\ m \notin shared => \A d \in Conns : byConn[d] = m => d \in renamed
      BY DEF RegistryInv, RegistryIsTrue
    <3> QED BY <1>2, <1>3, <3>1, <3>2, <3>3, <3>4
  <2> QED BY <2>1, <2>2
<1> QED BY <1>4, <1>5, <1>6, <1>7 DEF RegistryInv

\* register: the newest connection of an id is the listed one.
LEMMA RegisterKeepsRegistry ==
  ASSUME GatewayAssumption, NodeTypeOK, RegistryInv, NEW c \in Conns, Register(c)
  PROVE  RegistryInv'
<1> DEFINE n == names[c]
<1>1. /\ loop[c] = "connecting" /\ loop' = [loop EXCEPT ![c] = "replying"]
      /\ nodes' = [nodes EXCEPT ![n] = c] /\ byConn' = [byConn EXCEPT ![c] = n]
      /\ shared' = IF \E d \in Conns \ {c} : byConn[d] = n THEN shared \cup {n} ELSE shared \ {n}
      /\ link' = link /\ names' = names /\ renamed' = renamed
  BY DEF Register, StartsReply
<1>2. /\ byConn \in [Conns -> NodeIds \cup {None}] /\ names \in [Conns -> NodeIds \cup {None}]
      /\ nodes \in [NodeIds -> Conns \cup {None}] /\ None \notin Conns /\ None \notin NodeIds
      /\ loop \in [Conns -> {"none", "challenge", "reading", "connecting",
                             "invoking", "turn", "replying", "closed"}]
  BY DEF NodeTypeOK, GatewayAssumption
<1>3. n \in NodeIds /\ (byConn[c] \in {None, n} \/ c \in renamed)
  BY <1>1, <1>2 DEF RegistryInv, ConnectsAs
<1>4. /\ byConn'[c] = n /\ loop'[c] = "replying" /\ nodes'[n] = c
      /\ \A d \in Conns : d # c => byConn'[d] = byConn[d] /\ loop'[d] = loop[d]
      /\ \A m \in NodeIds : m # n => nodes'[m] = nodes[m]
  BY <1>1, <1>2, <1>3
<1>5. /\ n \notin shared' => \A d \in Conns : byConn[d] = n => d = c
      /\ \A m \in NodeIds : m # n => (m \in shared' <=> m \in shared)
  BY <1>1
<1>6. n = names[c]
  OBVIOUS
<1> HIDE DEF n
<1>7. ServedOnly'
  BY <1>1, <1>4 DEF RegistryInv, ServedOnly
<1>8. ConnectsAs'
  BY <1>1, <1>4, <1>6 DEF RegistryInv, ConnectsAs
<1>9. SharedIsMarked'
  <2> SUFFICES ASSUME NEW d \in Conns, NEW e \in Conns, byConn'[d] = byConn'[e],
                      byConn'[d] # None, byConn'[d] \notin shared'
               PROVE  d = e
    BY DEF SharedIsMarked
  <2>1. CASE byConn'[d] = n
    BY <1>4, <1>5, <2>1
  <2>2. CASE byConn'[d] # n
    <3>1. d # c /\ e # c /\ byConn[d] = byConn[e] /\ byConn[d] = byConn'[d]
      BY <1>4, <2>2
    <3>2. byConn[d] \in NodeIds /\ byConn[d] \notin shared
      BY <1>2, <1>5, <2>2, <3>1
    <3> QED BY <1>2, <3>1, <3>2 DEF RegistryInv, SharedIsMarked
  <2> QED BY <2>1, <2>2
<1>10. RegistryIsTrue'
  <2> SUFFICES ASSUME NEW m \in NodeIds
               PROVE  /\ nodes'[m] # None /\ nodes'[m] \notin renamed =>
                           loop'[nodes'[m]] # "closed" /\ byConn'[nodes'[m]] = m
                      /\ nodes'[m] = None /\ m \notin shared' =>
                           \A d \in Conns : byConn'[d] = m => d \in renamed
    BY <1>1 DEF RegistryIsTrue
  <2>1. CASE m = n
    BY <1>2, <1>4, <2>1
  <2>2. CASE m # n
    <3>1. nodes'[m] = nodes[m] /\ nodes[m] \in Conns \cup {None}
      BY <1>2, <1>4, <2>2
    \* Listed elsewhere too, it has changed its id.
    <3>2. nodes[m] = c => c \in renamed
      BY <1>2, <1>3, <2>2 DEF RegistryInv, RegistryIsTrue
    <3>3. nodes[m] # None /\ nodes[m] \notin renamed =>
             loop[nodes[m]] # "closed" /\ byConn[nodes[m]] = m
      BY DEF RegistryInv, RegistryIsTrue
    <3>4. nodes[m] = None /\ m \notin shared => \A d \in Conns : byConn[d] = m => d \in renamed
      BY DEF RegistryInv, RegistryIsTrue
    <3> QED BY <1>4, <1>5, <2>2, <3>1, <3>2, <3>3, <3>4
  <2> QED BY <2>1, <2>2
<1> QED BY <1>7, <1>8, <1>9, <1>10 DEF RegistryInv

LEMMA ConnectKeepsRegistry ==
  ASSUME GatewayAssumption, NodeTypeOK, RegistryInv, NEW c \in Conns, NEW n \in NodeIds, Connect(c, n)
  PROVE  RegistryInv'
<1>1. /\ loop[c] = "reading" /\ loop' = [loop EXCEPT ![c] = "connecting"]
      /\ names' = [names EXCEPT ![c] = n] /\ UNCHANGED <<link, nodes, byConn, shared>>
      /\ renamed' = IF byConn[c] \in {None, n} THEN renamed ELSE renamed \cup {c}
  BY DEF Connect, Reads
<1>2. /\ names \in [Conns -> NodeIds \cup {None}] /\ nodes \in [NodeIds -> Conns \cup {None}]
      /\ None \notin NodeIds
      /\ loop \in [Conns -> {"none", "challenge", "reading", "connecting",
                             "invoking", "turn", "replying", "closed"}]
  BY DEF NodeTypeOK, GatewayAssumption
<1>3. ServedOnly'
  BY <1>1, <1>2 DEF RegistryInv, ServedOnly
<1>4. ConnectsAs'
  BY <1>1, <1>2 DEF RegistryInv, ConnectsAs
<1>5. SharedIsMarked'
  BY <1>1 DEF RegistryInv, SharedIsMarked
<1>6. RegistryIsTrue'
  <2>1. \A d \in Conns : loop'[d] = "closed" => loop[d] = "closed"
    BY <1>1, <1>2
  <2> QED BY <1>1, <1>2, <2>1 DEF RegistryInv, RegistryIsTrue
<1> QED BY <1>3, <1>4, <1>5, <1>6 DEF RegistryInv

\* A connection that opens, one that ends before it was read from, and one that hangs up.
LEMMA EdgesKeepRegistry ==
  ASSUME GatewayAssumption, NodeTypeOK, RegistryInv, NEW c \in Conns,
         Open(c) \/ ChallengeFails(c) \/ Hangup(c)
  PROVE  RegistryInv'
<1>1. /\ UNCHANGED <<names, nodes, byConn, shared, renamed>>
      /\ \/ /\ link[c] = "none" /\ link' = [link EXCEPT ![c] = "up"]
            /\ loop' = [loop EXCEPT ![c] = "challenge"]
         \/ /\ loop[c] = "challenge" /\ link' = link /\ loop' = [loop EXCEPT ![c] = "closed"]
         \/ /\ link[c] = "up" /\ link' = [link EXCEPT ![c] = "down"] /\ loop' = loop
  BY DEF Open, ChallengeFails, Hangup, registry
<1>2. /\ link \in [Conns -> {"none", "up", "down"}] /\ nodes \in [NodeIds -> Conns \cup {None}]
      /\ None \notin NodeIds
      /\ loop \in [Conns -> {"none", "challenge", "reading", "connecting",
                             "invoking", "turn", "replying", "closed"}]
  BY DEF NodeTypeOK, GatewayAssumption
<1>3. \A d \in Conns : \/ loop'[d] = loop[d]
                       \/ byConn[d] = None /\ loop'[d] \in {"challenge", "closed"}
                                           /\ loop[d] \in {"none", "challenge"}
  BY <1>1, <1>2 DEF RegistryInv, ServedOnly
<1>4. ServedOnly'
  BY <1>1, <1>2, <1>3 DEF RegistryInv, ServedOnly
<1>5. ConnectsAs'
  BY <1>1, <1>3 DEF RegistryInv, ConnectsAs
<1>6. SharedIsMarked'
  BY <1>1 DEF RegistryInv, SharedIsMarked
<1>7. RegistryIsTrue'
  BY <1>1, <1>2, <1>3 DEF RegistryInv, RegistryIsTrue
<1> QED BY <1>4, <1>5, <1>6, <1>7 DEF RegistryInv

LEMMA RegistryInvNext ==
  ASSUME GatewayAssumption, NodeTypeOK, RegistryInv, [NodeNext]_nodeVars
  PROVE  RegistryInv'
<1>0. loop \in [Conns -> {"none", "challenge", "reading", "connecting",
                          "invoking", "turn", "replying", "closed"}]
  BY DEF NodeTypeOK
<1>1. ASSUME NEW c \in Conns, NEW l \in {"reading", "replying", "invoking", "turn"},
             loop[c] \notin {"none", "closed", "connecting"}, loop' = [loop EXCEPT ![c] = l],
             UNCHANGED <<link, names, registry>>
      PROVE  RegistryInv'
  BY <1>0, <1>1, LoopMoves
<1>2. CASE UNCHANGED <<link, loop, names, registry>>
  BY <1>2, LoopMoves
<1>3. ASSUME NEW c \in Conns, Open(c) \/ ChallengeFails(c) \/ Hangup(c) PROVE RegistryInv'
  BY <1>3, EdgesKeepRegistry
<1>4. ASSUME NEW c \in Conns, Closed(c) \/ BadFrame(c) \/ ReplyFails(c) PROVE RegistryInv'
  BY <1>4, CleanupKeepsRegistry DEF Closed, BadFrame, ReplyFails
<1>5. ASSUME NEW c \in Conns, Register(c) PROVE RegistryInv'
  BY <1>5, RegisterKeepsRegistry
<1>6. ASSUME NEW c \in Conns, NEW n \in IdsOf[c], Connect(c, n) PROVE RegistryInv'
  <2>1. n \in NodeIds
    BY DEF GatewayAssumption
  <2> QED BY <1>6, <2>1, ConnectKeepsRegistry
<1>7. ASSUME NEW c \in Conns, Challenged(c) \/ Reply(c) \/ AgentRequest(c) \/ AgentTurnEnds(c)
      PROVE  RegistryInv'
  BY <1>1, <1>7 DEF Challenged, Reply, AgentRequest, AgentTurnEnds, Reads, StartsReply
<1>8. ASSUME NEW c \in Conns, NEW i \in Invokes, NEW n \in NodeIds,
             OperatorInvokes(c, i, n) \/ TurnInvokes(c, i, n)
      PROVE  RegistryInv'
  BY <1>1, <1>2, <1>8 DEF OperatorInvokes, TurnInvokes, Reads
<1>9. ASSUME NEW c \in Conns, NEW i \in Invokes, NodeAnswers(i, c) \/ ResultFrame(c, i)
      PROVE  RegistryInv'
  BY <1>1, <1>2, <1>9 DEF NodeAnswers, ResultFrame, StartsReply
<1>10. ASSUME NEW i \in Invokes, SendFails(i) \/ InvokeResumes(i) \/ InvokeTimesOut(i)
       PROVE  RegistryInv'
  <2>1. /\ UNCHANGED <<link, names, registry>>
        /\ \A c \in Conns : loop'[c] = loop[c] \/ (loop[c] = "invoking" /\ loop'[c] = "replying")
    BY <1>10 DEF SendFails, InvokeResumes, InvokeTimesOut, Finish
  <2> QED BY <2>1, LoopMoves
<1>11. ASSUME NEW i \in Invokes, Sent(i) PROVE RegistryInv'
  BY <1>2, <1>11 DEF Sent
<1>12. ASSUME NEW i \in Invokes, NEW n \in NodeIds, RunnerInvokes(i, n) PROVE RegistryInv'
  BY <1>2, <1>12 DEF RunnerInvokes
<1>13. CASE UNCHANGED nodeVars
  BY <1>2, <1>13 DEF nodeVars
<1> QED BY <1>3, <1>4, <1>5, <1>6, <1>7, <1>8, <1>9, <1>10, <1>11, <1>12, <1>13 DEF NodeNext

-------------------------------------------------------------------------------
(* Invokes.                                                                   *)
InvokeInv == OpenFuturesPend /\ InvokesAreTrue

\* What every other step leaves as it is: a connection that is closed stays so, under
\* the name it had, and a node that is listed stays listed.
LEMMA InvokesAlone ==
  ASSUME NodeTypeOK, InvokeInv, invoke' = invoke, pending' = pending,
         \A c \in Conns : loop[c] = "closed" => loop'[c] = "closed" /\ names'[c] = names[c],
         \A n \in NodeIds : nodes[n] # None => nodes'[n] # None
  PROVE  InvokeInv'
<1>1. OpenFuturesPend'
  BY DEF InvokeInv, OpenFuturesPend
<1>2. InvokesAreTrue'
  BY DEF InvokeInv, OpenFuturesPend, InvokesAreTrue
<1> QED BY <1>1, <1>2 DEF InvokeInv

\* The end of a connection answers every pending invoke of the node it unregisters.
LEMMA CleanupKeepsInvokes ==
  ASSUME GatewayAssumption, NodeTypeOK, InvokeInv, ConnectsAs, NEW c \in Conns, Cleanup(c),
         loop[c] \in {"reading", "replying"}
  PROVE  InvokeInv'
<1> DEFINE n == byConn[c]
           doomed == {i \in pending : invoke[i].node = n}
<1>1. loop' = [loop EXCEPT ![c] = "closed"] /\ names' = names /\ n \in {None, names[c]}
  BY DEF Cleanup, ConnectsAs
<1>2. loop'[c] = "closed" /\ \A d \in Conns : loop[d] = "closed" => loop'[d] = "closed"
  BY <1>1 DEF NodeTypeOK
<1>3. CASE n = None
  <2>1. invoke' = invoke /\ pending' = pending /\ nodes' = nodes
    BY <1>3 DEF Cleanup, Unregister, registry, invokeState
  <2> QED BY <1>1, <1>2, <2>1, InvokesAlone
<1>4. CASE n # None
  <2>1. /\ nodes' = [nodes EXCEPT ![n] = None] /\ pending' = pending \ doomed
        /\ invoke' = [i \in Invokes |->
              IF i \in doomed /\ invoke[i].future = "pending"
              THEN [invoke[i] EXCEPT !.future = "gone"] ELSE invoke[i]]
    BY <1>4 DEF Cleanup, Unregister
  <2>2. invoke \in [Invokes -> InvokeType]
    BY DEF NodeTypeOK, InvokeType
  <2>3. \A i \in Invokes :
           /\ invoke'[i].at = invoke[i].at /\ invoke'[i].node = invoke[i].node
           /\ invoke'[i].future = IF i \in doomed /\ invoke[i].future = "pending"
                                  THEN "gone" ELSE invoke[i].future
    BY <2>1, <2>2 DEF InvokeType
  <2>4. \A i \in pending' : i \in pending /\ invoke[i].node # n
    BY <2>1
  <2>5. \A i \in doomed : invoke[i].node = n /\ i \in pending
    OBVIOUS
  <2>6. \A i \in pending : i \in pending' \/ i \in doomed
    BY <2>1
  <2>7. \A m \in NodeIds : m # n => nodes'[m] = nodes[m]
    BY <2>1 DEF NodeTypeOK
  <2> HIDE DEF n, doomed
  <2>8. OpenFuturesPend'
    <3> SUFFICES ASSUME NEW i \in Invokes, invoke'[i].at \in {"sending", "waiting"},
                        invoke'[i].future = "pending"
                 PROVE  i \in pending' /\ invoke'[i].node \in NodeIds /\ nodes'[invoke'[i].node] # None
      BY DEF OpenFuturesPend
    <3>1. i \notin doomed /\ invoke[i].future = "pending" /\ invoke[i].at \in {"sending", "waiting"}
      BY <2>3
    <3>2. i \in pending /\ invoke[i].node \in NodeIds /\ nodes[invoke[i].node] # None
      BY <3>1 DEF InvokeInv, OpenFuturesPend
    <3>3. i \in pending' /\ invoke[i].node # n
      BY <2>4, <2>6, <3>1, <3>2
    <3> QED BY <2>3, <2>7, <3>2, <3>3
  <2>9. InvokesAreTrue'
    <3> SUFFICES ASSUME NEW i \in Invokes
                 PROVE  /\ invoke'[i].future = "gone" =>
                             \E d \in Conns : loop'[d] = "closed" /\ names'[d] = invoke'[i].node
                        /\ i \in pending' => invoke'[i].at \in {"sending", "waiting"}
                        /\ invoke'[i].at = "waiting" /\ invoke'[i].future = "pending" =>
                             i \in pending' /\ nodes'[invoke'[i].node] # None
      BY DEF InvokesAreTrue
    <3>1. CASE i \in doomed
      BY <1>1, <1>2, <1>4, <2>3, <2>4, <2>5, <2>8, <3>1 DEF OpenFuturesPend
    <3>2. CASE i \notin doomed
      <4>1. invoke[i].future = "gone" =>
               \E d \in Conns : loop[d] = "closed" /\ names[d] = invoke[i].node
        BY DEF InvokeInv, InvokesAreTrue
      <4>2. i \in pending => invoke[i].at \in {"sending", "waiting"}
        BY DEF InvokeInv, InvokesAreTrue
      <4> QED BY <1>1, <1>2, <2>3, <2>4, <2>8, <3>2, <4>1, <4>2 DEF OpenFuturesPend
    <3> QED BY <3>1, <3>2
  <2> QED BY <2>8, <2>9 DEF InvokeInv
<1> QED BY <1>3, <1>4

\* A step of one invoke i that leaves the others alone.
LEMMA OneInvoke ==
  ASSUME NodeTypeOK, InvokeInv, NEW i \in Invokes, nodes' = nodes, names' = names,
         \A c \in Conns : loop[c] = "closed" => loop'[c] = "closed",
         \A j \in Invokes : j # i => invoke'[j] = invoke[j] /\ (j \in pending' <=> j \in pending),
         invoke'[i].future = "gone" =>
            invoke[i].future = "gone" /\ invoke'[i].node = invoke[i].node,
         i \in pending' => invoke'[i].at \in {"sending", "waiting"},
         invoke'[i].at \in {"sending", "waiting"} /\ invoke'[i].future = "pending" =>
            i \in pending' /\ invoke'[i].node \in NodeIds /\ nodes[invoke'[i].node] # None
  PROVE  InvokeInv'
<1>1. OpenFuturesPend'
  BY DEF InvokeInv, OpenFuturesPend
<1>2. ASSUME NEW j \in Invokes
      PROVE  /\ invoke'[j].future = "gone" =>
                  \E d \in Conns : loop'[d] = "closed" /\ names[d] = invoke'[j].node
             /\ j \in pending' => invoke'[j].at \in {"sending", "waiting"}
  <2>1. /\ invoke[j].future = "gone" =>
             \E d \in Conns : loop[d] = "closed" /\ names[d] = invoke[j].node
        /\ j \in pending => invoke[j].at \in {"sending", "waiting"}
    BY DEF InvokeInv, InvokesAreTrue
  <2>2. CASE j = i
    BY <2>1, <2>2
  <2>3. CASE j # i
    BY <2>1, <2>3
  <2> QED BY <2>2, <2>3
<1>3. InvokesAreTrue'
  BY <1>1, <1>2 DEF InvokesAreTrue, OpenFuturesPend
<1> QED BY <1>1, <1>3 DEF InvokeInv

LEMMA FinishKeepsInvokes ==
  ASSUME NodeTypeOK, InvokeInv, NEW i \in Invokes, NEW result, Finish(i, result)
  PROVE  InvokeInv'
<1>1. /\ invoke \in [Invokes -> InvokeType]
      /\ invoke' = [invoke EXCEPT ![i] = [NoInvoke EXCEPT
                       !.at = "over", !.node = invoke[i].node, !.result = result]]
      /\ pending' = pending \ {i} /\ nodes' = nodes /\ names' = names
      /\ loop' = [c \in Conns |-> IF c = invoke[i].caller /\ loop[c] = "invoking"
                                  THEN "replying" ELSE loop[c]]
  BY DEF Finish, NodeTypeOK, InvokeType, registry
<1>2. invoke'[i].at = "over" /\ invoke'[i].future = "pending" /\ i \notin pending'
  BY <1>1 DEF NoInvoke
<1>3. \A j \in Invokes : j # i => invoke'[j] = invoke[j] /\ (j \in pending' <=> j \in pending)
  BY <1>1
<1>4. \A c \in Conns : loop[c] = "closed" => loop'[c] = "closed"
  BY <1>1
<1> QED BY <1>1, <1>2, <1>3, <1>4, OneInvoke

LEMMA StartKeepsInvokes ==
  ASSUME GatewayAssumption, NodeTypeOK, InvokeInv, NEW i \in Invokes, NEW n \in NodeIds, NEW caller,
         StartInvoke(i, n, caller), nodes' = nodes, names' = names,
         \A c \in Conns : loop[c] = "closed" => loop'[c] = "closed"
  PROVE  InvokeInv'
<1>1. invoke \in [Invokes -> InvokeType] /\ i \notin pending
  BY DEF NodeTypeOK, InvokeType, StartInvoke, InvokeInv, InvokesAreTrue
<1>2. CASE nodes[n] = None
  <2>1. /\ invoke' = [invoke EXCEPT ![i] =
                        [NoInvoke EXCEPT !.at = "over", !.node = n, !.result = "NOT_CONNECTED"]]
        /\ pending' = pending
    BY <1>2 DEF StartInvoke
  <2>2. invoke'[i].at = "over" /\ invoke'[i].future = "pending"
    BY <1>1, <2>1 DEF NoInvoke
  <2>3. \A j \in Invokes : j # i => invoke'[j] = invoke[j]
    BY <1>1, <2>1
  <2> QED BY <1>1, <2>1, <2>2, <2>3, OneInvoke
<1>3. CASE nodes[n] # None
  <2>1. /\ invoke' = [invoke EXCEPT ![i] =
                        [NoInvoke EXCEPT !.at = "sending", !.node = n,
                                         !.conn = nodes[n], !.caller = caller]]
        /\ pending' = pending \cup {i}
    BY <1>3 DEF StartInvoke
  <2>2. invoke'[i].at = "sending" /\ invoke'[i].future = "pending" /\ invoke'[i].node = n
    BY <1>1, <2>1 DEF NoInvoke
  <2>3. \A j \in Invokes : j # i => invoke'[j] = invoke[j]
    BY <1>1, <2>1
  <2> QED BY <1>1, <1>3, <2>1, <2>2, <2>3, OneInvoke
<1> QED BY <1>2, <1>3

LEMMA InvokeInvNext ==
  ASSUME GatewayAssumption, NodeTypeOK, InvokeInv, RegistryInv, [NodeNext]_nodeVars
  PROVE  InvokeInv'
<1>0. /\ loop \in [Conns -> {"none", "challenge", "reading", "connecting",
                             "invoking", "turn", "replying", "closed"}]
      /\ link \in [Conns -> {"none", "up", "down"}]
      /\ names \in [Conns -> NodeIds \cup {None}] /\ nodes \in [NodeIds -> Conns \cup {None}]
      /\ invoke \in [Invokes -> InvokeType] /\ None \notin Conns
  BY DEF NodeTypeOK, InvokeType, GatewayAssumption
<1>1. ASSUME invoke' = invoke, pending' = pending, nodes' = nodes, names' = names,
             \A c \in Conns : loop[c] = "closed" => loop'[c] = "closed"
      PROVE  InvokeInv'
  BY <1>1, InvokesAlone
<1>2. ASSUME NEW c \in Conns,
             \/ Open(c) \/ Challenged(c) \/ ChallengeFails(c) \/ Hangup(c)
             \/ Reply(c) \/ AgentRequest(c) \/ AgentTurnEnds(c)
      PROVE  InvokeInv'
  <2>1. UNCHANGED <<invoke, pending, nodes, names>>
    BY <1>2 DEF Open, Challenged, ChallengeFails, Hangup, Reply, AgentRequest, AgentTurnEnds,
                registry, invokeState
  <2>2. \/ loop' = loop
        \/ loop[c] # "closed" /\ \E l \in {"challenge", "reading", "closed", "turn", "replying"} :
                                    loop' = [loop EXCEPT ![c] = l]
    BY <1>2 DEF Open, Challenged, ChallengeFails, Hangup, Reply, AgentRequest, AgentTurnEnds,
                Reads, StartsReply, RegistryInv, ServedOnly
  <2>3. \A d \in Conns : loop[d] = "closed" => loop'[d] = "closed"
    BY <1>0, <2>2
  <2> QED BY <1>1, <2>1, <2>3
<1>3. ASSUME NEW c \in Conns, Closed(c) \/ BadFrame(c) \/ ReplyFails(c) PROVE InvokeInv'
  BY <1>3, CleanupKeepsInvokes DEF Closed, BadFrame, ReplyFails, RegistryInv
<1>4. ASSUME NEW c \in Conns, Register(c) PROVE InvokeInv'
  <2>1. /\ loop[c] = "connecting" /\ loop' = [loop EXCEPT ![c] = "replying"]
        /\ nodes' = [nodes EXCEPT ![names[c]] = c] /\ UNCHANGED <<invoke, pending, names>>
    BY <1>4 DEF Register, StartsReply, invokeState
  <2>2. \A d \in Conns : loop[d] = "closed" => loop'[d] = "closed"
    BY <1>0, <2>1
  <2>3. \A n \in NodeIds : nodes[n] # None => nodes'[n] # None
    BY <1>0, <2>1
  <2> QED BY <2>1, <2>2, <2>3, InvokesAlone
<1>5. ASSUME NEW c \in Conns, NEW n \in IdsOf[c], Connect(c, n) PROVE InvokeInv'
  <2>1. /\ loop[c] = "reading" /\ loop' = [loop EXCEPT ![c] = "connecting"]
        /\ names' = [names EXCEPT ![c] = n] /\ UNCHANGED <<invoke, pending, nodes>>
    BY <1>5 DEF Connect, Reads, invokeState
  <2>2. \A d \in Conns : loop[d] = "closed" => loop'[d] = "closed" /\ names'[d] = names[d]
    BY <1>0, <2>1
  <2> QED BY <2>1, <2>2, InvokesAlone
<1>6. ASSUME NEW c \in Conns, NEW i \in Invokes, NEW n \in NodeIds,
             OperatorInvokes(c, i, n) \/ TurnInvokes(c, i, n)
      PROVE  InvokeInv'
  <2>1. /\ StartInvoke(i, n, c) /\ UNCHANGED <<nodes, names>>
        /\ \/ loop' = loop
           \/ loop[c] = "reading" /\ \E l \in {"replying", "invoking"} : loop' = [loop EXCEPT ![c] = l]
    BY <1>6 DEF OperatorInvokes, TurnInvokes, Reads, registry
  <2>2. \A d \in Conns : loop[d] = "closed" => loop'[d] = "closed"
    BY <1>0, <2>1
  <2> QED BY <2>1, <2>2, StartKeepsInvokes
<1>7. ASSUME NEW c \in Conns, NEW i \in Invokes, NodeAnswers(i, c) PROVE InvokeInv'
  BY <1>1, <1>7 DEF NodeAnswers, registry, invokeState
<1>8. ASSUME NEW c \in Conns, NEW i \in Invokes, ResultFrame(c, i) PROVE InvokeInv'
  <2>1. /\ loop[c] = "reading" /\ loop' = [loop EXCEPT ![c] = "replying"]
        /\ UNCHANGED <<pending, nodes, names>>
        /\ \/ invoke' = invoke
           \/ /\ i \in pending /\ invoke[i].future = "pending"
              /\ invoke' = [invoke EXCEPT ![i].future = "answered"]
    BY <1>8 DEF ResultFrame, StartsReply, registry
  <2>2. \A d \in Conns : loop[d] = "closed" => loop'[d] = "closed"
    BY <1>0, <2>1
  <2>3. CASE invoke' = invoke
    BY <1>1, <2>1, <2>2, <2>3
  <2>4. CASE i \in pending /\ invoke' = [invoke EXCEPT ![i].future = "answered"]
    <3>1. /\ invoke'[i].future = "answered" /\ invoke'[i].at = invoke[i].at
          /\ \A j \in Invokes : j # i => invoke'[j] = invoke[j]
      BY <1>0, <2>4 DEF InvokeType
    <3>2. invoke[i].at \in {"sending", "waiting"}
      BY <2>4 DEF InvokeInv, InvokesAreTrue
    <3> QED BY <2>1, <2>2, <3>1, <3>2, OneInvoke
  <2> QED BY <2>1, <2>3, <2>4
<1>9. ASSUME NEW i \in Invokes, Sent(i) PROVE InvokeInv'
  <2>1. /\ invoke[i].at = "sending" /\ invoke' = [invoke EXCEPT ![i].at = "waiting"]
        /\ UNCHANGED <<loop, pending, nodes, names>>
    BY <1>9 DEF Sent, registry
  <2>2. /\ invoke'[i].at = "waiting" /\ invoke'[i].future = invoke[i].future
        /\ invoke'[i].node = invoke[i].node
        /\ \A j \in Invokes : j # i => invoke'[j] = invoke[j]
    BY <1>0, <2>1 DEF InvokeType
  <2>3. invoke[i].future = "pending" =>
           i \in pending /\ invoke[i].node \in NodeIds /\ nodes[invoke[i].node] # None
    BY <2>1 DEF InvokeInv, OpenFuturesPend
  <2> QED BY <2>1, <2>2, <2>3, OneInvoke
<1>10. ASSUME NEW i \in Invokes, SendFails(i) \/ InvokeResumes(i) \/ InvokeTimesOut(i)
       PROVE  InvokeInv'
  <2>1. \E result \in {"answered", "NOT_CONNECTED", "TIMEOUT", "UNAVAILABLE"} : Finish(i, result)
    BY <1>10 DEF SendFails, InvokeResumes, InvokeTimesOut
  <2> QED BY <2>1, FinishKeepsInvokes
<1>11. ASSUME NEW i \in Invokes, NEW n \in NodeIds, RunnerInvokes(i, n) PROVE InvokeInv'
  BY <1>11, StartKeepsInvokes DEF RunnerInvokes, registry
<1>12. CASE UNCHANGED nodeVars
  BY <1>1, <1>12 DEF nodeVars, registry, invokeState
<1> QED BY <1>2, <1>3, <1>4, <1>5, <1>6, <1>7, <1>8, <1>9, <1>10, <1>11, <1>12 DEF NodeNext

-------------------------------------------------------------------------------
LEMMA NodeInvInit == GatewayAssumption /\ NodeInit => NodeInv
<1> SUFFICES ASSUME GatewayAssumption, NodeInit PROVE NodeInv
  OBVIOUS
<1>1. NodeTypeOK
  BY DEF NodeInit, NodeTypeOK, NoInvoke
<1>2. ServedOnly /\ ConnectsAs /\ SharedIsMarked /\ RegistryIsTrue
  BY DEF NodeInit, ServedOnly, ConnectsAs, SharedIsMarked, RegistryIsTrue, GatewayAssumption
<1>3. OpenFuturesPend /\ InvokesAreTrue
  BY DEF NodeInit, OpenFuturesPend, InvokesAreTrue, NoInvoke
<1> QED BY <1>1, <1>2, <1>3 DEF NodeInv

LEMMA NodeInvNext == GatewayAssumption /\ NodeInv /\ [NodeNext]_nodeVars => NodeInv'
<1> SUFFICES ASSUME GatewayAssumption, NodeInv, [NodeNext]_nodeVars PROVE NodeInv'
  OBVIOUS
<1>1. NodeTypeOK /\ RegistryInv /\ InvokeInv /\ ConnectsAs
  BY DEF NodeInv, RegistryInv, InvokeInv
<1>2. NodeTypeOK'
  BY <1>1, NodeTypesNext
<1>3. RegistryInv'
  BY <1>1, RegistryInvNext
<1>4. InvokeInv'
  BY <1>1, InvokeInvNext
<1> QED BY <1>2, <1>3, <1>4 DEF NodeInv, RegistryInv, InvokeInv

\* The connections, the registry of nodes and the invokes keep their types.
THEOREM NodeTypesCorrect == NodeSpec => []NodeTypeOK
<1>1. NodeInit => NodeInv
  BY GatewayAssumption, NodeInvInit
<1>2. NodeInv /\ [NodeNext]_nodeVars => NodeInv'
  BY GatewayAssumption, NodeInvNext
<1>3. NodeInv => NodeTypeOK
  BY DEF NodeInv
<1> QED BY <1>1, <1>2, <1>3, PTL DEF NodeSpec

\* Whatever reconnects, hangs up or answers late, the registry names served connections
\* only, finds every node that is connected, and every waiting invoke is answered or
\* still pending at a listed node.
THEOREM RegistryTellsTruth == NodeSpec => []NodesAreTrue
<1>1. NodeInit => NodeInv
  BY GatewayAssumption, NodeInvInit
<1>2. NodeInv /\ [NodeNext]_nodeVars => NodeInv'
  BY GatewayAssumption, NodeInvNext
<1>3. NodeInv => NodesAreTrue
  BY DEF NodeInv, NodesAreTrue
<1> QED BY <1>1, <1>2, <1>3, PTL DEF NodeSpec

-------------------------------------------------------------------------------
(* The cron service: the types, that the timer covers the jobs that wait,     *)
(* that the file is current between ticks, that a tick begins only jobs that  *)
(* are due, and that only a cancelled one-time job is begun again.  The       *)
(* invariant TickInv adds to the properties what a tick in progress has still *)
(* to do: all of it is due, because every call that changes the list cancels  *)
(* the tick.  OnceInv follows a one-time job through the list in memory, the  *)
(* file and a command's copy of it.                                           *)

USE CronAssumption

Timer == [phase : {"none", "sleep", "turn"}, wake : Nat, job : 0..MaxJobs, rest : SUBSET JobIds]

-----------------------------------------------------------------------------
(* The lists of jobs *)

\* The next run of a schedule is an instant or 0.
LEMMA NextRunType ==
  ASSUME TypeOK, NEW s \in Schedules
  PROVE  NextRun(s, now) \in Nat
<1>1. s \in Schedule  OBVIOUS
<1>2. now \in Nat  BY DEF TypeOK
<1>3. CASE s.kind = "at"  BY <1>1, <1>3 DEF NextRun, Schedule
<1>4. CASE s.kind = "every"  BY <1>1, <1>2, <1>4 DEF NextRun, Schedule
<1>5. CASE s.kind = "cron"
  <2>1. CronNext(s.ms, now) \in Nat  BY DEF TypeOK
  <2> QED  BY <1>5, <2>1 DEF NextRun
<1> QED  BY <1>1, <1>3, <1>4, <1>5 DEF Schedule

\* The empty list is a list.
LEMMA NoJobsType == IsJobs(NoJobs)
BY DEF IsJobs, NoJobs

\* A new job is a job.
LEMMA NewJobType ==
  ASSUME TypeOK, NEW s \in Schedules
  PROVE  NewJob(s) \in Job
BY NextRunType DEF NewJob, Job

\* What happens to a job when its turn is over, or when the gateway starts, leaves a job.
LEMMA TurnTypes ==
  ASSUME TypeOK, NEW job \in Job
  PROVE  Spent(job) \in Job /\ Again(job) \in Job
BY NextRunType DEF Spent, Again, Job

\* Adding a job gives a list.
LEMMA AddedType ==
  ASSUME TypeOK, NEW f, IsJobs(f), NEW n \in JobIds, NEW s \in Schedules
  PROVE  IsJobs(Added(f, n, s))
BY NewJobType DEF Added, IsJobs

\* Removing a job gives a list.
LEMMA RemovedType ==
  ASSUME NEW f, IsJobs(f), NEW j
  PROVE  /\ IsJobs(Removed(f, j))
         /\ DOMAIN Removed(f, j) = DOMAIN f \ {j}
         /\ \A k \in DOMAIN f \ {j} : Removed(f, j)[k] = f[k]
BY DEF Removed, Restrict, IsJobs

\* Enabling or disabling a job gives a list.
LEMMA EnabledType ==
  ASSUME TypeOK, NEW f, IsJobs(f), NEW j \in DOMAIN f, NEW on \in BOOLEAN
  PROVE  IsJobs(Enabled(f, j, on))
<1>1. f[j] \in Job /\ f[j].schedule \in Schedules  BY DEF IsJobs, Job
<1>2. NextRun(f[j].schedule, now) \in Nat  BY <1>1, NextRunType
<1> DEFINE new == [schedule |-> f[j].schedule, enabled |-> on,
                   next |-> IF on THEN NextRun(f[j].schedule, now) ELSE 0]
<1>3. new \in Job  BY <1>1, <1>2 DEF Job
<1>4. Enabled(f, j, on) = [f EXCEPT ![j] = new]  BY DEF Enabled
<1> HIDE DEF new
<1> QED  BY <1>3, <1>4 DEF IsJobs

\* The end of a turn gives a list, in which the other jobs are as they were.
LEMMA FinishedType ==
  ASSUME TypeOK, NEW f, IsJobs(f), NEW j
  PROVE  /\ IsJobs(Finished(f, j))
         /\ \A k \in DOMAIN f \ {j} : k \in DOMAIN Finished(f, j) /\ Finished(f, j)[k] = f[k]
<1>1. CASE j \notin DOMAIN f  BY <1>1 DEF Finished
<1>2. CASE j \in DOMAIN f /\ f[j].schedule.kind = "at" /\ f[j].schedule.delete
  BY <1>2, RemovedType DEF Finished
<1>3. CASE j \in DOMAIN f /\ ~(f[j].schedule.kind = "at" /\ f[j].schedule.delete)
  <2> DEFINE new == IF f[j].schedule.kind = "at" THEN Spent(f[j]) ELSE Again(f[j])
  <2>1. f[j] \in Job  BY <1>3 DEF IsJobs
  <2>2. new \in Job  BY <2>1, TurnTypes
  <2>3. Finished(f, j) = [f EXCEPT ![j] = new]  BY <1>3 DEF Finished
  <2> HIDE DEF new
  <2> QED  BY <2>2, <2>3 DEF IsJobs
<1> QED  BY <1>1, <1>2, <1>3

\* A new process starts with a list.
LEMMA RecomputedType ==
  ASSUME TypeOK, NEW f, IsJobs(f)
  PROVE  IsJobs(Recomputed(f))
<1>1. \A j \in DOMAIN f : f[j] \in Job /\ Again(f[j]) \in Job
  BY TurnTypes DEF IsJobs
<1> QED  BY <1>1 DEF Recomputed, IsJobs

-----------------------------------------------------------------------------
(* The timer *)

\* The timer task that is created sleeps until the first of the jobs that wait, and there
\* is none only if no job waits.
LEMMA ArmTimerFacts ==
  ASSUME NEW f, IsJobs(f), NEW running \in BOOLEAN, ArmTimer(f, running)
  PROVE  /\ timer' \in Timer
         /\ timer'.phase \in {"none", "sleep"}
         /\ ~running => timer'.phase = "none"
         /\ running /\ timer'.phase = "none" => Waiting(f) = {}
         /\ timer'.phase = "sleep" => \A k \in Waiting(f) : timer'.wake <= f[k].next
<1>1. CASE running /\ Waiting(f) # {}
  <2>1. PICK j \in Waiting(f) : /\ \A k \in Waiting(f) : f[j].next <= f[k].next
                                /\ timer' = Sleeping(f[j].next)
    BY <1>1 DEF ArmTimer
  <2>2. f[j] \in Job  BY DEF Waiting, IsJobs
  <2>3. f[j].next \in Nat  BY <2>2 DEF Job
  <2> QED  BY <1>1, <2>1, <2>3 DEF Sleeping, Timer
<1>2. CASE ~(running /\ Waiting(f) # {})
  <2>1. timer' = NoTimer  BY <1>2 DEF ArmTimer
  <2> QED  BY <1>2, <2>1 DEF NoTimer, Timer
<1> QED  BY <1>1, <1>2

\* Beginning a turn.
LEMMA BeginTurnFacts ==
  ASSUME NEW due \in SUBSET JobIds, BeginTurn(due), turns \in [JobIds -> {"never", "begun", "cancelled"}]
  PROVE  /\ timer' \in Timer
         /\ timer'.phase = "turn"
         /\ timer'.job \in due
         /\ timer'.rest = due \ {timer'.job}
         /\ turns' \in [JobIds -> {"never", "begun", "cancelled"}]
         /\ turns' = [turns EXCEPT ![timer'.job] = "begun"]
BY DEF BeginTurn, Turn, Timer, JobIds

\* A save, good or bad.
LEMMA CommitFacts ==
  ASSUME TypeOK, NEW f, IsJobs(f), NEW running \in BOOLEAN, NEW t \in Timer, Commit(f, running, t)
  PROVE  /\ store' = f
         /\ IsJobs(store') /\ IsJobs(file') /\ timer' \in Timer
         /\ stale' \in BOOLEAN /\ foreign' \in BOOLEAN
         /\ \/ file' = f /\ ArmTimer(f, running) /\ ~stale' /\ ~foreign'
            \/ timer' = t /\ stale'
<1>1. CASE file' = f /\ ArmTimer(f, running) /\ stale' = FALSE /\ foreign' = FALSE
  BY <1>1, ArmTimerFacts DEF Commit
<1>2. CASE file' \in {file, NoJobs} /\ timer' = t /\ stale' = TRUE /\ UNCHANGED foreign
  BY <1>2, NoJobsType DEF Commit, TypeOK
<1> QED  BY <1>1, <1>2 DEF Commit

\* A call beside the timer task.
LEMMA EditFacts ==
  ASSUME TypeOK, NEW f, IsJobs(f), Edit(f)
  PROVE  /\ store' = f
         /\ IsJobs(store') /\ IsJobs(file') /\ timer' \in Timer
         /\ stale' \in BOOLEAN /\ foreign' \in BOOLEAN
         /\ turns' \in [JobIds -> {"never", "begun", "cancelled"}]
         /\ \/ file' = f /\ ArmTimer(f, mode = "up") /\ ~stale' /\ ~foreign'
            \/ timer' = timer /\ stale'
<1>1. timer \in Timer  BY DEF TypeOK, Timer
<1>2. Commit(f, mode = "up", timer)  BY DEF Edit
<1>3. turns' \in [JobIds -> {"never", "begun", "cancelled"}]
  BY DEF Edit, TypeOK
<1> QED  BY <1>1, <1>2, <1>3, CommitFacts

-----------------------------------------------------------------------------
(* Types *)

\* A list of jobs has jobs that wait among its jobs.
LEMMA WaitingSubset ==
  ASSUME NEW f, IsJobs(f)
  PROVE  Waiting(f) \subseteq JobIds /\ DueJobs(f) \subseteq JobIds
BY DEF Waiting, DueJobs, IsJobs

LEMMA TypeInit == Init => TypeOK
<1> SUFFICES ASSUME Init PROVE TypeOK
  OBVIOUS
<1>1. now \in 0..MaxNow /\ created \in 0..MaxJobs /\ calls \in 0..MaxCalls
  BY DEF Init
<1>2. timer \in Timer  BY DEF Init, NoTimer, Timer
<1>3. runner \in [Runners -> 0..MaxJobs] /\ turns \in [JobIds -> {"never", "begun", "cancelled"}]
  BY DEF Init
<1>4. cli.loaded \in BOOLEAN /\ cli.jobs = NoJobs
  BY DEF Init, NoCommand
<1>5. store = NoJobs /\ file = NoJobs /\ mode = "down" /\ stale = FALSE /\ foreign = FALSE
  BY DEF Init
<1> QED  BY <1>1, <1>2, <1>3, <1>4, <1>5, NoJobsType DEF TypeOK, Timer

LEMMA TypeStep == TypeOK /\ [Next]_vars => TypeOK'
<1> SUFFICES ASSUME TypeOK, [Next]_vars PROVE TypeOK'
  OBVIOUS
<1> USE DEF Timer
<1>1. ASSUME TimerFires PROVE TypeOK'
  <2>1. CASE DueJobs(store) = {}
    <3>1. Commit(store, mode = "up", NoTimer)  BY <1>1, <2>1 DEF TimerFires
    <3>2. NoTimer \in Timer  BY DEF NoTimer
    <3> QED  BY <1>1, <2>1, <3>1, <3>2, CommitFacts DEF TimerFires, TypeOK
  <2>2. CASE DueJobs(store) # {}
    <3>1. BeginTurn(DueJobs(store))  BY <1>1, <2>2 DEF TimerFires
    <3>2. DueJobs(store) \in SUBSET JobIds  BY WaitingSubset DEF TypeOK
    <3> QED  BY <1>1, <2>2, <3>1, <3>2, BeginTurnFacts DEF TimerFires, TypeOK
  <2> QED  BY <2>1, <2>2
<1>2. ASSUME TurnEnds PROVE TypeOK'
  <2>1. IsJobs(Finished(store, timer.job))  BY FinishedType DEF TypeOK
  <2>2. CASE timer.rest # {}
    <3>1. BeginTurn(timer.rest)  BY <1>2, <2>2 DEF TurnEnds
    <3>2. timer.rest \in SUBSET JobIds  BY DEF TypeOK
    <3> QED  BY <1>2, <2>1, <2>2, <3>1, <3>2, BeginTurnFacts DEF TurnEnds, TypeOK
  <2>3. CASE timer.rest = {}
    <3>1. Commit(Finished(store, timer.job), mode = "up", NoTimer)  BY <1>2, <2>3 DEF TurnEnds
    <3>2. NoTimer \in Timer  BY DEF NoTimer
    <3> QED  BY <1>2, <2>1, <2>3, <3>1, <3>2, CommitFacts DEF TurnEnds, TypeOK
  <2> QED  BY <2>2, <2>3
<1>3. ASSUME NEW s \in Schedules, AddJob(s) PROVE TypeOK'
  <2>1. created + 1 \in JobIds  BY <1>3 DEF AddJob, TypeOK, JobIds
  <2>2. IsJobs(Added(store, created + 1, s))  BY <2>1, AddedType DEF TypeOK
  <2>3. created' \in 0..MaxJobs  BY <1>3 DEF AddJob, TypeOK
  <2> QED  BY <1>3, <2>2, <2>3, EditFacts DEF AddJob, TypeOK
<1>4. ASSUME NEW j \in JobIds, RemoveJob(j) PROVE TypeOK'
  <2>1. IsJobs(Removed(store, j))  BY RemovedType DEF TypeOK
  <2>2. calls' \in 0..MaxCalls  BY <1>4 DEF RemoveJob, Called, TypeOK
  <2> QED  BY <1>4, <2>1, <2>2, EditFacts DEF RemoveJob, TypeOK
<1>5. ASSUME NEW j \in JobIds, NEW on \in BOOLEAN, EnableJob(j, on) PROVE TypeOK'
  <2>1. IsJobs(Enabled(store, j, on))  BY <1>5, EnabledType DEF EnableJob, TypeOK
  <2>2. calls' \in 0..MaxCalls  BY <1>5 DEF EnableJob, Called, TypeOK
  <2> QED  BY <1>5, <2>1, <2>2, EditFacts DEF EnableJob, TypeOK
<1>6. ASSUME NEW r \in Runners, NEW j \in JobIds, NEW force \in BOOLEAN, RunJob(r, j, force)
      PROVE  TypeOK'
  <2>1. calls' \in 0..MaxCalls  BY <1>6 DEF RunJob, Called, TypeOK
  <2>2. runner' \in [Runners -> 0..MaxJobs]  BY <1>6 DEF RunJob, TypeOK, JobIds
  <2> QED  BY <1>6, <2>1, <2>2 DEF RunJob, TypeOK
<1>7. ASSUME NEW r \in Runners, RunJobEnds(r) PROVE TypeOK'
  <2>1. IsJobs(Finished(store, runner[r]))  BY FinishedType DEF TypeOK
  <2>2. runner' \in [Runners -> 0..MaxJobs]  BY <1>7 DEF RunJobEnds, TypeOK
  <2> QED  BY <1>7, <2>1, <2>2, EditFacts DEF RunJobEnds, TypeOK
<1>8. ASSUME Start PROVE TypeOK'
  <2>1. CASE mode' = "up"
    <3>1. IsJobs(Recomputed(file))  BY RecomputedType DEF TypeOK
    <3>2. ArmTimer(Recomputed(file), TRUE)  BY <1>8, <2>1 DEF Start
    <3>3. timer' \in Timer  BY <3>1, <3>2, ArmTimerFacts
    <3> QED  BY <1>8, <2>1, <3>1, <3>3 DEF Start, TypeOK
  <2>2. CASE mode' # "up"
    BY <1>8, <2>2, NoJobsType DEF Start, TypeOK
  <2> QED  BY <2>1, <2>2
<1>9. ASSUME Stop PROVE TypeOK'
  <2>1. calls' \in 0..MaxCalls  BY <1>9 DEF Stop, Called, TypeOK
  <2> QED  BY <1>9, <2>1 DEF Stop, TypeOK, NoTimer
<1>10. ASSUME Exit PROVE TypeOK'
  <2>1. calls' \in 0..MaxCalls  BY <1>10 DEF Exit, Called, TypeOK
  <2>2. IsJobs(file') /\ IsJobs(store')  BY <1>10, NoJobsType DEF Exit, TypeOK
  <2>3. timer' \in Timer  BY <1>10 DEF Exit, NoTimer
  <2>4. runner' \in [Runners -> 0..MaxJobs]  BY <1>10 DEF Exit
  <2> QED  BY <1>10, <2>1, <2>2, <2>3, <2>4 DEF Exit, TypeOK
<1>11. ASSUME CommandLoads PROVE TypeOK'
  <2>1. calls' \in 0..MaxCalls  BY <1>11 DEF CommandLoads, Called, TypeOK
  <2>2. cli'.loaded \in BOOLEAN /\ IsJobs(cli'.jobs)
    <3>1. PICK f \in {file} \cup (IF mode = "down" THEN {} ELSE {NoJobs}) :
            cli' = [loaded |-> TRUE, jobs |-> f]
      BY <1>11 DEF CommandLoads
    <3>2. IsJobs(f)  BY NoJobsType DEF TypeOK
    <3> QED  BY <3>1, <3>2
  <2> QED  BY <1>11, <2>1, <2>2 DEF CommandLoads, TypeOK
<1>12. ASSUME CommandSaves PROVE TypeOK'
  <2>1. IsJobs(file') /\ created' \in 0..MaxJobs
    <3>1. CASE \E s \in Schedules :
                 /\ created < MaxJobs
                 /\ created' = created + 1
                 /\ file' = Added(cli.jobs, created + 1, s)
      <4>1. PICK s \in Schedules : /\ created < MaxJobs
                                   /\ created' = created + 1
                                   /\ file' = Added(cli.jobs, created + 1, s)
        BY <3>1
      <4>2. created + 1 \in JobIds  BY <4>1 DEF TypeOK, JobIds
      <4> QED  BY <4>1, <4>2, AddedType DEF TypeOK, JobIds
    <3>2. ASSUME UNCHANGED created, NEW j \in DOMAIN cli.jobs,
                 \/ file' = Removed(cli.jobs, j)
                 \/ \E on \in BOOLEAN : file' = Enabled(cli.jobs, j, on)
                 \/ file' = Finished(cli.jobs, j)
          PROVE  IsJobs(file') /\ created' \in 0..MaxJobs
      <4>1. IsJobs(cli.jobs)  BY DEF TypeOK
      <4>2. IsJobs(Removed(cli.jobs, j)) /\ IsJobs(Finished(cli.jobs, j))
        BY <4>1, RemovedType, FinishedType
      <4>3. \A on \in BOOLEAN : IsJobs(Enabled(cli.jobs, j, on))
        BY <4>1, EnabledType
      <4> QED  BY <3>2, <4>2, <4>3 DEF TypeOK
    <3> QED  BY <1>12, <3>1, <3>2 DEF CommandSaves
  <2>2. cli'.loaded \in BOOLEAN /\ IsJobs(cli'.jobs)
    BY <1>12, NoJobsType DEF CommandSaves, NoCommand
  <2>3. foreign' \in BOOLEAN  BY <1>12 DEF CommandSaves
  <2> QED  BY <1>12, <2>1, <2>2, <2>3 DEF CommandSaves, TypeOK
<1>13. ASSUME CommandFails PROVE TypeOK'
  BY <1>13, NoJobsType DEF CommandFails, NoCommand, TypeOK
<1>14. ASSUME Advance PROVE TypeOK'
  BY <1>14 DEF Advance, TypeOK
<1>15. ASSUME UNCHANGED vars PROVE TypeOK'
  BY <1>15 DEF vars, TypeOK
<1> QED
  BY <1>1, <1>2, <1>3, <1>4, <1>5, <1>6, <1>7, <1>8, <1>9, <1>10, <1>11, <1>12, <1>13,
     <1>14, <1>15 DEF Next

\* Every variable of the scheduler keeps its type, whatever fails.
THEOREM CronTypes == Spec => []TypeOK
BY TypeInit, TypeStep, PTL DEF Spec

-----------------------------------------------------------------------------
(* The timer and the file *)

\* What a tick in progress has still to do is due; without a running gateway there is no
\* timer; and the properties.
TickInv ==
  /\ mode # "up" => timer.phase = "none"
  /\ timer.phase = "turn" =>
       /\ timer.job \notin timer.rest
       /\ ~stale => timer.rest \subseteq DueJobs(store)
  /\ TimerCovers
  /\ DiskIsCurrent

CronInv == TypeOK /\ TickInv

\* After a good save nothing more than the timer that was armed matters, after a bad one
\* nothing but the timer's phase.
LEMMA SavedTick ==
  ASSUME CronInv, NEW f, IsJobs(f), store' = f, mode' = mode,
         \/ file' = f /\ ArmTimer(f, mode = "up") /\ ~stale' /\ ~foreign'
         \/ timer' \in {timer, NoTimer} /\ stale'
  PROVE  TickInv'
<1>1. CASE file' = f /\ ArmTimer(f, mode = "up") /\ ~stale' /\ ~foreign'
  BY <1>1, ArmTimerFacts DEF TickInv, TimerCovers, DiskIsCurrent, CronInv
<1>2. CASE timer' \in {timer, NoTimer} /\ stale'
  BY <1>2 DEF TickInv, TimerCovers, DiskIsCurrent, CronInv, NoTimer
<1> QED  BY <1>1, <1>2

\* The same for the calls beside the timer task.
LEMMA EditTick ==
  ASSUME CronInv, NEW f, IsJobs(f), Edit(f), mode' = mode
  PROVE  TickInv'
BY EditFacts, SavedTick DEF CronInv

LEMMA TickInit == Init => TickInv
BY DEF Init, TickInv, TimerCovers, DiskIsCurrent, NoTimer

LEMMA TickStep == CronInv /\ [Next]_vars => TickInv'
<1> SUFFICES ASSUME CronInv, [Next]_vars PROVE TickInv'
  OBVIOUS
<1>0. TypeOK /\ IsJobs(store)  BY DEF CronInv, TypeOK
<1>1. ASSUME TimerFires PROVE TickInv'
  <2>0. mode' = mode  BY <1>1 DEF TimerFires
  <2>1. CASE DueJobs(store) = {}
    <3>1. Commit(store, mode = "up", NoTimer)  BY <1>1, <2>1 DEF TimerFires
    <3>2. NoTimer \in Timer  BY DEF NoTimer, Timer
    <3> QED  BY <1>0, <2>0, <3>1, <3>2, CommitFacts, SavedTick
  <2>2. CASE DueJobs(store) # {}
    <3>1. BeginTurn(DueJobs(store))  BY <1>1, <2>2 DEF TimerFires
    <3>2. DueJobs(store) \in SUBSET JobIds  BY <1>0, WaitingSubset
    <3>3. mode = "up"  BY <1>1 DEF TimerFires, CronInv, TickInv
    <3>4. UNCHANGED <<store, now, mode>>  BY <1>1, <2>2 DEF TimerFires
    <3>5. DueJobs(store)' = DueJobs(store)  BY <3>4 DEF DueJobs, Waiting
    <3>6. /\ timer'.phase = "turn"
          /\ timer'.job \in DueJobs(store)
          /\ timer'.rest = DueJobs(store) \ {timer'.job}
      BY <1>0, <3>1, <3>2, BeginTurnFacts DEF TypeOK
    <3> QED  BY <3>3, <3>4, <3>5, <3>6 DEF TickInv, TimerCovers, DiskIsCurrent
  <2> QED  BY <2>1, <2>2
<1>2. ASSUME TurnEnds PROVE TickInv'
  <2>0. mode' = mode /\ now' = now  BY <1>2 DEF TurnEnds
  <2>1. IsJobs(Finished(store, timer.job))  BY <1>0, FinishedType
  <2>2. CASE timer.rest # {}
    <3>1. BeginTurn(timer.rest)  BY <1>2, <2>2 DEF TurnEnds
    <3>2. timer.rest \in SUBSET JobIds  BY <1>0 DEF TypeOK
    <3>3. /\ timer'.phase = "turn"
          /\ timer'.job \in timer.rest
          /\ timer'.rest = timer.rest \ {timer'.job}
      BY <1>0, <3>1, <3>2, BeginTurnFacts DEF TypeOK
    <3>4. mode = "up" /\ timer.job \notin timer.rest
      BY <1>2 DEF TurnEnds, CronInv, TickInv
    <3>5. UNCHANGED <<stale, file>> /\ store' = Finished(store, timer.job)
      BY <1>2, <2>2 DEF TurnEnds
    <3>6. ASSUME ~stale PROVE timer.rest \subseteq DueJobs(store)'
      <4>1. timer.rest \subseteq DueJobs(store)
        BY <1>2, <3>6 DEF TurnEnds, CronInv, TickInv
      <4>2. \A k \in timer.rest : k \in DOMAIN store'  /\ store'[k] = store[k]
        BY <1>0, <3>4, <3>5, <4>1, FinishedType DEF DueJobs, Waiting
      <4> QED  BY <2>0, <4>1, <4>2 DEF DueJobs, Waiting
    <3> QED  BY <2>0, <3>3, <3>4, <3>5, <3>6 DEF TickInv, TimerCovers, DiskIsCurrent
  <2>3. CASE timer.rest = {}
    <3>1. Commit(Finished(store, timer.job), mode = "up", NoTimer)  BY <1>2, <2>3 DEF TurnEnds
    <3>2. NoTimer \in Timer  BY DEF NoTimer, Timer
    <3> QED  BY <1>0, <2>0, <2>1, <3>1, <3>2, CommitFacts, SavedTick
  <2> QED  BY <2>2, <2>3
<1>3. ASSUME NEW s \in Schedules, AddJob(s) PROVE TickInv'
  <2>1. created + 1 \in JobIds  BY <1>0, <1>3 DEF AddJob, TypeOK, JobIds
  <2>2. IsJobs(Added(store, created + 1, s))  BY <1>0, <2>1, AddedType
  <2> QED  BY <1>3, <2>2, EditTick DEF AddJob
<1>4. ASSUME NEW j \in JobIds, RemoveJob(j) PROVE TickInv'
  <2>1. IsJobs(Removed(store, j))  BY <1>0, RemovedType
  <2> QED  BY <1>4, <2>1, EditTick DEF RemoveJob
<1>5. ASSUME NEW j \in JobIds, NEW on \in BOOLEAN, EnableJob(j, on) PROVE TickInv'
  <2>1. IsJobs(Enabled(store, j, on))  BY <1>0, <1>5, EnabledType DEF EnableJob
  <2> QED  BY <1>5, <2>1, EditTick DEF EnableJob
<1>7. ASSUME NEW r \in Runners, RunJobEnds(r) PROVE TickInv'
  <2>1. IsJobs(Finished(store, runner[r]))  BY <1>0, FinishedType
  <2> QED  BY <1>7, <2>1, EditTick DEF RunJobEnds
<1>8. ASSUME Start PROVE TickInv'
  <2>1. CASE mode' = "up"
    <3>1. IsJobs(Recomputed(file))  BY <1>0, RecomputedType DEF TypeOK
    <3>2. /\ store' = Recomputed(file)
          /\ file' = Recomputed(file)
          /\ ArmTimer(Recomputed(file), TRUE)
      BY <1>8, <2>1 DEF Start
    <3> QED  BY <2>1, <3>1, <3>2, ArmTimerFacts DEF TickInv, TimerCovers, DiskIsCurrent
  <2>2. CASE mode' # "up"
    BY <1>8, <2>2 DEF Start, CronInv, TickInv, TimerCovers, DiskIsCurrent
  <2> QED  BY <2>1, <2>2
<1>9. ASSUME Stop PROVE TickInv'
  BY <1>9 DEF Stop, TickInv, TimerCovers, DiskIsCurrent, NoTimer
<1>10. ASSUME Exit PROVE TickInv'
  BY <1>10 DEF Exit, TickInv, TimerCovers, DiskIsCurrent, NoTimer
<1>11. ASSUME UNCHANGED <<mode, store, timer, stale, now>>,
              file' = file \/ foreign' \/ mode = "down",
              foreign' = foreign \/ foreign' \/ mode = "down"
       PROVE  TickInv'
  <2>1. DueJobs(store)' = DueJobs(store) /\ Waiting(store)' = Waiting(store)
    BY <1>11 DEF DueJobs, Waiting
  <2> QED  BY <1>11, <2>1 DEF CronInv, TickInv, TimerCovers, DiskIsCurrent
<1>12. ASSUME NEW r \in Runners, NEW j \in JobIds, NEW force \in BOOLEAN, RunJob(r, j, force)
       PROVE  TickInv'
  BY <1>11, <1>12 DEF RunJob
<1>13. ASSUME CommandLoads \/ CommandFails \/ UNCHANGED vars PROVE TickInv'
  BY <1>11, <1>13 DEF CommandLoads, CommandFails, vars
<1>14. ASSUME CommandSaves PROVE TickInv'
  <2>1. UNCHANGED <<mode, store, timer, stale, now>> /\ foreign' = (mode # "down")
    BY <1>14 DEF CommandSaves
  <2> QED  BY <1>11, <2>1
<1>15. ASSUME Advance PROVE TickInv'
  <2>1. now \in Nat /\ now' = now + 1
    BY <1>0, <1>15 DEF Advance, TypeOK
  <2>2. UNCHANGED <<mode, store, file, timer, stale, foreign>>
    BY <1>15 DEF Advance
  <2>3. Waiting(store)' = Waiting(store)  BY <2>2 DEF Waiting
  <2>4. DueJobs(store) \subseteq DueJobs(store)'
    <3>1. \A j \in Waiting(store) : store[j].next \in Nat
      BY <1>0 DEF Waiting, IsJobs, Job
    <3> QED  BY <2>1, <2>2, <2>3, <3>1 DEF DueJobs
  <2> QED  BY <2>2, <2>3, <2>4 DEF CronInv, TickInv, TimerCovers, DiskIsCurrent
<1> QED
  BY <1>1, <1>2, <1>3, <1>4, <1>5, <1>7, <1>8, <1>9, <1>10, <1>12, <1>13, <1>14, <1>15 DEF Next

LEMMA CronInvariant == Spec => []CronInv
<1>1. Init => CronInv  BY TypeInit, TickInit DEF CronInv
<1>2. CronInv /\ [Next]_vars => CronInv'  BY TypeStep, TickStep DEF CronInv
<1> QED  BY <1>1, <1>2, PTL DEF Spec

\* No enabled job is out of the timer's reach, whatever is added, removed, enabled or run
\* by hand, in the middle of a tick too, unless a save raised.
THEOREM NoJobIsForgotten == Spec => []TimerCovers
<1>1. CronInv => TimerCovers  BY DEF CronInv, TickInv
<1> QED  BY <1>1, CronInvariant, PTL

\* Between ticks the file is current, unless a save raised or a command wrote it.
THEOREM FileIsCurrent == Spec => []DiskIsCurrent
<1>1. CronInv => DiskIsCurrent  BY DEF CronInv, TickInv
<1> QED  BY <1>1, CronInvariant, PTL

\* Only a timer that fires and the end of a turn begin a turn: of a job that is due, and of one
\* that the tick has still to do.
LEMMA TicksBegin ==
  ASSUME CronInv, [Next]_vars, NEW j \in JobIds, Begins(j)
  PROVE  \/ TimerFires /\ j \in DueJobs(store)
         \/ TurnEnds /\ timer.phase = "turn" /\ j \in timer.rest
<1>0. TypeOK /\ IsJobs(store) /\ timer \in Timer  BY DEF CronInv, TypeOK, Timer
<1>1. CASE TimerFires
  <2>1. CASE DueJobs(store) = {}
    <3>1. Commit(store, mode = "up", NoTimer)  BY <1>1, <2>1 DEF TimerFires
    <3>2. NoTimer \in Timer /\ NoTimer.phase = "none"  BY DEF NoTimer, Timer
    <3>3. timer'.phase # "turn"
      BY <1>0, <3>1, <3>2, CommitFacts, ArmTimerFacts
    <3> QED  BY <3>3 DEF Begins
  <2>2. CASE DueJobs(store) # {}
    <3>1. BeginTurn(DueJobs(store))  BY <1>1, <2>2 DEF TimerFires
    <3>2. DueJobs(store) \in SUBSET JobIds  BY <1>0, WaitingSubset
    <3>3. timer'.job \in DueJobs(store)  BY <1>0, <3>1, <3>2, BeginTurnFacts DEF TypeOK
    <3> QED  BY <1>1, <3>3 DEF Begins
  <2> QED  BY <2>1, <2>2
<1>2. CASE TurnEnds
  <2>1. CASE timer.rest # {}
    <3>1. BeginTurn(timer.rest) /\ timer.phase = "turn"  BY <1>2, <2>1 DEF TurnEnds
    <3>2. timer.rest \in SUBSET JobIds  BY <1>0 DEF Timer
    <3>3. timer'.job \in timer.rest  BY <1>0, <3>1, <3>2, BeginTurnFacts DEF TypeOK
    <3> QED  BY <1>2, <3>1, <3>3 DEF Begins
  <2>2. CASE timer.rest = {}
    <3>1. Commit(Finished(store, timer.job), mode = "up", NoTimer)  BY <1>2, <2>2 DEF TurnEnds
    <3>2. NoTimer \in Timer /\ NoTimer.phase = "none"  BY DEF NoTimer, Timer
    <3>3. IsJobs(Finished(store, timer.job))  BY <1>0, FinishedType
    <3>4. timer'.phase # "turn"
      BY <1>0, <3>1, <3>2, <3>3, CommitFacts, ArmTimerFacts
    <3> QED  BY <3>4 DEF Begins
  <2> QED  BY <2>1, <2>2
<1>3. ASSUME timer' = timer \/ timer'.phase # "turn" PROVE FALSE
  BY <1>3 DEF Begins
<1>4. ASSUME NEW f, IsJobs(f), Edit(f) PROVE FALSE
  <2>1. timer' = timer \/ timer'.phase # "turn"
    BY <1>0, <1>4, EditFacts, ArmTimerFacts
  <2> QED  BY <1>3, <2>1
<1>5. ASSUME NEW s \in Schedules, AddJob(s) PROVE FALSE
  <2>1. created + 1 \in JobIds  BY <1>0, <1>5 DEF AddJob, TypeOK, JobIds
  <2>2. IsJobs(Added(store, created + 1, s))  BY <1>0, <2>1, AddedType
  <2> QED  BY <1>4, <1>5, <2>2 DEF AddJob
<1>6. ASSUME NEW i \in JobIds, RemoveJob(i) PROVE FALSE
  <2>1. IsJobs(Removed(store, i))  BY <1>0, RemovedType
  <2> QED  BY <1>4, <1>6, <2>1 DEF RemoveJob
<1>7. ASSUME NEW i \in JobIds, NEW on \in BOOLEAN, EnableJob(i, on) PROVE FALSE
  <2>1. IsJobs(Enabled(store, i, on))  BY <1>0, <1>7, EnabledType DEF EnableJob
  <2> QED  BY <1>4, <1>7, <2>1 DEF EnableJob
<1>8. ASSUME NEW r \in Runners, RunJobEnds(r) PROVE FALSE
  <2>1. IsJobs(Finished(store, runner[r]))  BY <1>0, FinishedType
  <2> QED  BY <1>4, <1>8, <2>1 DEF RunJobEnds
<1>9. ASSUME Start PROVE FALSE
  <2>1. CASE mode' = "up"
    <3>1. IsJobs(Recomputed(file))  BY <1>0, RecomputedType DEF TypeOK
    <3>2. ArmTimer(Recomputed(file), TRUE)  BY <1>9, <2>1 DEF Start
    <3> QED  BY <1>3, <3>1, <3>2, ArmTimerFacts
  <2>2. CASE mode' # "up"  BY <1>3, <1>9, <2>2 DEF Start
  <2> QED  BY <2>1, <2>2
<1>10. ASSUME Stop \/ Exit PROVE FALSE
  BY <1>3, <1>10 DEF Stop, Exit, NoTimer
<1>11. ASSUME \/ CommandLoads \/ CommandSaves \/ CommandFails \/ Advance \/ UNCHANGED vars
              \/ \E r \in Runners, i \in JobIds, force \in BOOLEAN : RunJob(r, i, force)
       PROVE  FALSE
  BY <1>3, <1>11 DEF CommandLoads, CommandSaves, CommandFails, Advance, RunJob, vars
<1> QED
  BY <1>1, <1>2, <1>5, <1>6, <1>7, <1>8, <1>9, <1>10, <1>11 DEF Next

\* A tick begins only jobs that are in the list, enabled and due at that moment, for any
\* number of jobs and calls.
THEOREM OnlyDueJobsBegin == Spec => BeginsOnlyDue
<1>1. ASSUME CronInv, [Next]_vars, NEW j \in JobIds, Begins(j), ~stale
      PROVE  j \in DueJobs(store)
  BY <1>1, TicksBegin DEF CronInv, TickInv
<1>2. CronInv /\ [Next]_vars => [\A j \in JobIds : Begins(j) /\ ~stale => j \in DueJobs(store)]_vars
  BY <1>1
<1> QED  BY <1>2, CronInvariant, PTL DEF Spec, BeginsOnlyDue

-----------------------------------------------------------------------------
(* One-time jobs *)

Copies == {store, file, cli.jobs}

\* A job that is to be done once is listed for its instant, or not at all.
AtJobs(f) ==
  \A j \in DOMAIN f : f[j].schedule.kind = "at" =>
    /\ f[j].next \in {0, f[j].schedule.ms}
    /\ ~f[j].enabled => f[j].next = 0

\* The lists agree on the schedules, have only jobs that were created, and no job is begun
\* that was not.
Agree ==
  /\ \A f, g \in Copies : \A j \in DOMAIN f \cap DOMAIN g : f[j].schedule = g[j].schedule
  /\ \A f \in Copies : AtJobs(f) /\ \A j \in DOMAIN f : j <= created
  /\ \A j \in JobIds : turns[j] # "never" => j <= created

\* The jobs that a tick has begun or will begin.
Taken(j) == turns[j] = "begun" \/ (timer.phase = "turn" /\ j \in timer.rest)

\* The instant of a job that is to be done at an instant is over.
Past(j) ==
  \A f \in Copies : j \in DOMAIN f /\ f[j].schedule.kind = "at" => f[j].schedule.ms <= now

OnceInv ==
  /\ Agree
  /\ \A j \in JobIds : Taken(j) => Past(j) /\ j <= created
  /\ timer.phase = "turn" =>
       /\ turns[timer.job] = "begun"
       /\ \A j \in timer.rest : OneTime(j) => turns[j] # "begun"
  /\ mode = "up" => \A j \in JobIds : turns[j] = "begun" /\ OneTime(j) =>
       (timer.phase = "turn" /\ timer.job = j) \/ store[j].next = 0
\* A new list f has jobs of the lists there are, and at most the job that is being created.
Comes(f, s) ==
  \A j \in DOMAIN f :
    \/ \E h \in Copies : j \in DOMAIN h /\ f[j].schedule = h[j].schedule
    \/ created' = created + 1 /\ j = created' /\ f[j].schedule = s

LEMMA ListsKeep ==
  ASSUME TypeOK, OnceInv, NEW s, created' \in {created, created + 1}, now' \in Nat, now' >= now,
         \A f \in {store', file', cli'.jobs} : IsJobs(f) /\ AtJobs(f) /\ Comes(f, s),
         \A j \in JobIds : turns'[j] # "never" => j <= created,
         \A j \in JobIds : Taken(j)' => Taken(j) \/ j \in DueJobs(store)
  PROVE  Agree' /\ \A j \in JobIds : Taken(j)' => Past(j)' /\ j <= created'
<1>0. created \in Nat /\ now \in Nat /\ Agree /\ \A f \in Copies : IsJobs(f)
  BY DEF TypeOK, OnceInv, Copies
<1>1. ASSUME NEW f \in {store', file', cli'.jobs}, NEW g \in {store', file', cli'.jobs}, NEW j \in DOMAIN f \cap DOMAIN g
      PROVE  f[j].schedule = g[j].schedule
  BY <1>0, <1>1 DEF Comes, Agree
<1>2. ASSUME NEW f \in {store', file', cli'.jobs}, NEW j \in DOMAIN f PROVE j \in JobIds /\ j <= created'
  <2>1. j \in JobIds
    BY DEF IsJobs
  <2> QED BY <1>0, <1>2, <2>1 DEF Comes, Agree, JobIds
<1>3. ASSUME NEW j \in JobIds, j <= created, Past(j) PROVE Past(j)'
  <2> SUFFICES ASSUME NEW f \in {store', file', cli'.jobs}, j \in DOMAIN f, f[j].schedule.kind = "at"
               PROVE  f[j].schedule.ms <= now'
    BY DEF Past, Copies
  <2>1. PICK h \in Copies : j \in DOMAIN h /\ f[j].schedule = h[j].schedule
    BY <1>0, <1>3 DEF Comes, JobIds
  <2>2. f[j].schedule.ms \in Nat /\ f[j].schedule.ms <= now
    BY <1>3, <2>1 DEF Past, IsJobs, Job, Schedule
  <2> QED BY <1>0, <2>2
<1>4. ASSUME NEW j \in DueJobs(store) PROVE j \in JobIds /\ Past(j) /\ j <= created
  <2>1. j \in DOMAIN store /\ store \in Copies /\ store[j].next # 0 /\ store[j].next <= now
    BY DEF DueJobs, Waiting, Copies
  <2>2. j \in JobIds /\ j <= created
    BY <1>0, <2>1 DEF Agree, IsJobs
  <2>3. store[j].schedule.kind = "at" => store[j].schedule.ms <= now
    BY <1>0, <2>1 DEF Agree, AtJobs
  <2>4. \A h \in Copies : j \in DOMAIN h => h[j].schedule = store[j].schedule
    BY <1>0, <2>1 DEF Agree
  <2> QED BY <2>2, <2>3, <2>4 DEF Past
<1>5. Agree'
  <2>1. \A f, g \in {store', file', cli'.jobs} : \A j \in DOMAIN f \cap DOMAIN g : f[j].schedule = g[j].schedule
    BY <1>1
  <2>2. \A f \in {store', file', cli'.jobs} : AtJobs(f) /\ \A j \in DOMAIN f : j <= created'
    BY <1>2
  <2>3. \A j \in JobIds : turns'[j] # "never" => j <= created'
    BY <1>0 DEF JobIds
  <2> QED BY <2>1, <2>2, <2>3 DEF Agree, Copies, AtJobs
<1>6. ASSUME NEW j \in JobIds, Taken(j)' PROVE Past(j)' /\ j <= created'
  <2>1. Past(j) /\ j <= created
    BY <1>4, <1>6 DEF OnceInv
  <2> QED BY <1>0, <1>3, <2>1 DEF JobIds
<1> QED BY <1>5, <1>6

\* The next run of a job that is to be done at an instant.
LEMMA AtNext ==
  ASSUME NEW s \in Schedules, s.kind = "at"
  PROVE  NextRun(s, now) \in {0, s.ms} /\ (s.ms <= now /\ now \in Nat => NextRun(s, now) = 0)
<1>1. s.ms \in Nat
  BY DEF Schedule
<1> QED BY <1>1 DEF NextRun

\* What the operations make of a list.
LEMMA AddedComes ==
  ASSUME TypeOK, NEW f \in Copies, AtJobs(f), NEW s \in Schedules, created' = created + 1
  PROVE  AtJobs(Added(f, created + 1, s)) /\ Comes(Added(f, created + 1, s), s)
<1>1. DOMAIN Added(f, created + 1, s) = DOMAIN f \cup {created + 1}
  BY DEF Added
<1>2. \A j \in DOMAIN f \cup {created + 1} :
        Added(f, created + 1, s)[j] = IF j = created + 1 THEN NewJob(s) ELSE f[j]
  BY DEF Added
<1>3. NewJob(s).schedule = s /\ NewJob(s).enabled /\ (s.kind = "at" => NewJob(s).next \in {0, s.ms})
  BY AtNext DEF NewJob
<1>4. AtJobs(Added(f, created + 1, s))
  BY <1>1, <1>2, <1>3 DEF AtJobs
<1> QED BY <1>1, <1>2, <1>3, <1>4 DEF Comes

\* g is what a call has made of f, a job at a time.
Follows(g, f) ==
  \A j \in DOMAIN g :
    /\ j \in DOMAIN f /\ g[j].schedule = f[j].schedule
    /\ g[j].next \in {0, f[j].next, NextRun(f[j].schedule, now)}

LEMMA RemovedFollows ==
  ASSUME NEW f, IsJobs(f), AtJobs(f), NEW j
  PROVE  AtJobs(Removed(f, j)) /\ Follows(Removed(f, j), f)
<1>1. DOMAIN Removed(f, j) = DOMAIN f \ {j} /\ \A k \in DOMAIN f \ {j} : Removed(f, j)[k] = f[k]
  BY RemovedType
<1> QED BY <1>1 DEF AtJobs, Follows

LEMMA EnabledFollows ==
  ASSUME TypeOK, NEW f, IsJobs(f), AtJobs(f), NEW j \in DOMAIN f, NEW on \in BOOLEAN
  PROVE  AtJobs(Enabled(f, j, on)) /\ Follows(Enabled(f, j, on), f)
<1>1. f[j].schedule \in Schedules
  BY DEF IsJobs, Job
<1> DEFINE new == [schedule |-> f[j].schedule, enabled |-> on,
                   next |-> IF on THEN NextRun(f[j].schedule, now) ELSE 0]
<1>2. /\ new.schedule = f[j].schedule /\ new.next \in {0, NextRun(f[j].schedule, now)}
      /\ ~new.enabled => new.next = 0
      /\ new.schedule.kind = "at" => new.next \in {0, new.schedule.ms}
  BY <1>1, AtNext
<1>3. Enabled(f, j, on) = [f EXCEPT ![j] = new]
  BY DEF Enabled
<1> HIDE DEF new
<1>4. DOMAIN Enabled(f, j, on) = DOMAIN f /\ \A k \in DOMAIN f : Enabled(f, j, on)[k] = IF k = j THEN new ELSE f[k]
  BY <1>3
<1> QED BY <1>2, <1>4 DEF AtJobs, Follows

\* Nothing is left of a one-time job, and what is listed again has its next run computed.
LEMMA FinishedFollows ==
  ASSUME TypeOK, NEW f, IsJobs(f), AtJobs(f), NEW j
  PROVE  /\ AtJobs(Finished(f, j)) /\ Follows(Finished(f, j), f)
         /\ j \in DOMAIN Finished(f, j) => ~(f[j].schedule.kind = "at" /\ f[j].schedule.delete)
<1>1. CASE j \notin DOMAIN f
  <2>1. Finished(f, j) = f
    BY <1>1 DEF Finished
  <2> QED BY <1>1, <2>1 DEF Follows
<1>2. CASE j \in DOMAIN f /\ f[j].schedule.kind = "at" /\ f[j].schedule.delete
  <2>1. Finished(f, j) = Removed(f, j)
    BY <1>2 DEF Finished
  <2>2. DOMAIN Removed(f, j) = DOMAIN f \ {j}
    BY RemovedType
  <2> QED BY <2>1, <2>2, RemovedFollows
<1>3. CASE j \in DOMAIN f /\ ~(f[j].schedule.kind = "at" /\ f[j].schedule.delete)
  <2> DEFINE new == IF f[j].schedule.kind = "at" THEN Spent(f[j]) ELSE Again(f[j])
  <2>1. /\ new.schedule = f[j].schedule /\ new.next \in {0, NextRun(f[j].schedule, now)}
        /\ new.schedule.kind = "at" => new.next = 0
    BY DEF Spent, Again
  <2>2. Finished(f, j) = [f EXCEPT ![j] = new]
    BY <1>3 DEF Finished
  <2> HIDE DEF new
  <2>3. DOMAIN Finished(f, j) = DOMAIN f /\ \A k \in DOMAIN f : Finished(f, j)[k] = IF k = j THEN new ELSE f[k]
    BY <2>2
  <2> QED BY <1>3, <2>1, <2>3 DEF AtJobs, Follows
<1> QED BY <1>1, <1>2, <1>3

\* A start leaves no instant that is over in the list.
LEMMA RecomputedFollows ==
  ASSUME TypeOK, NEW f, IsJobs(f), AtJobs(f)
  PROVE  /\ AtJobs(Recomputed(f)) /\ Follows(Recomputed(f), f)
         /\ \A j \in DOMAIN Recomputed(f) :
              f[j].schedule.kind = "at" /\ f[j].schedule.ms <= now => Recomputed(f)[j].next = 0
<1>1. DOMAIN Recomputed(f) = DOMAIN f
  BY DEF Recomputed
<1>2. \A j \in DOMAIN f :
        /\ f[j].schedule \in Schedules /\ Recomputed(f)[j].schedule = f[j].schedule
        /\ Recomputed(f)[j].next = IF f[j].enabled THEN NextRun(f[j].schedule, now) ELSE f[j].next
        /\ Recomputed(f)[j].enabled = f[j].enabled
  BY DEF Recomputed, Again, IsJobs, Job
<1>3. now \in Nat
  BY DEF TypeOK
<1> QED BY <1>1, <1>2, <1>3, AtNext DEF AtJobs, Follows
\* A call beside the timer task: a tick that it does not cancel goes on as it was.
LEMMA EditOnce ==
  ASSUME CronInv, OnceInv, NEW f, IsJobs(f), AtJobs(f), Edit(f), NEW s, Comes(f, s),
         created' \in {created, created + 1}, UNCHANGED <<now, mode, cli>>,
         \A j \in DOMAIN f : j <= created =>
            /\ j \in DOMAIN store /\ f[j].schedule = store[j].schedule
            /\ f[j].next \in {0, store[j].next, NextRun(f[j].schedule, now)}
  PROVE  OnceInv'
<1>0. TypeOK /\ now \in Nat /\ created \in Nat /\ IsJobs(store) /\ IsJobs(file) /\ IsJobs(cli.jobs) /\ Agree
      /\ AtJobs(file) /\ AtJobs(cli.jobs)
  BY DEF CronInv, TypeOK, OnceInv, Agree, Copies
<1>1. /\ store' = f /\ cli'.jobs = cli.jobs
      /\ file' \in {f, file, NoJobs}
      /\ \/ turns' = turns
         \/ turns' = [turns EXCEPT ![timer.job] = "cancelled"] /\ turns[timer.job] = "begun"
      /\ turns' = turns \/ timer'.phase # "turn"
      /\ timer.phase = "turn" /\ timer'.phase # "turn" => turns' = [turns EXCEPT ![timer.job] = "cancelled"]
  BY DEF Edit, Commit, OnceInv
<1>2. timer' = timer \/ timer'.phase \in {"none", "sleep"}
  BY <1>0, EditFacts, ArmTimerFacts
<1>3. turns \in [JobIds -> {"never", "begun", "cancelled"}]
  BY <1>0 DEF TypeOK
<1>4. \A j \in JobIds : /\ turns'[j] = "begun" => turns[j] = "begun"
                        /\ turns'[j] # "never" => turns[j] # "never"
  BY <1>1, <1>3
<1>5. Comes(file, s) /\ Comes(cli.jobs, s) /\ Comes(NoJobs, s) /\ AtJobs(NoJobs)
  BY DEF Comes, Copies, NoJobs, AtJobs
<1>6. \A g \in {store', file', cli'.jobs} : IsJobs(g) /\ AtJobs(g) /\ Comes(g, s)
  BY <1>0, <1>1, <1>5, NoJobsType
<1>7. \A j \in JobIds : turns'[j] # "never" => j <= created
  BY <1>0, <1>4 DEF Agree
<1>8. \A j \in JobIds : Taken(j)' => Taken(j)
  BY <1>2, <1>4 DEF Taken
<1>9. Agree' /\ \A j \in JobIds : Taken(j)' => Past(j)' /\ j <= created'
  BY <1>0, <1>6, <1>7, <1>8, ListsKeep
<1>10. ASSUME NEW j \in JobIds, Taken(j), OneTime(j)'
       PROVE  OneTime(j) /\ f[j].next \in {0, store[j].next}
  <2>1. j \in DOMAIN f /\ f[j].schedule.kind = "at" /\ f[j].schedule.delete /\ j <= created
    BY <1>1, <1>10 DEF OneTime, OnceInv
  <2>2. j \in DOMAIN store /\ f[j].schedule = store[j].schedule
    BY <2>1
  <2>3. f[j].schedule \in Schedules /\ f[j].schedule.ms <= now
    BY <1>10, <2>1, <2>2 DEF OnceInv, Past, Copies, IsJobs, Job
  <2>4. NextRun(f[j].schedule, now) = 0
    BY <1>0, <2>1, <2>3, AtNext
  <2> QED BY <2>1, <2>2, <2>4 DEF OneTime
<1>11. timer'.phase = "turn" =>
         /\ turns'[timer'.job] = "begun"
         /\ \A j \in timer'.rest : OneTime(j)' => turns'[j] # "begun"
  <2> SUFFICES ASSUME timer'.phase = "turn"
               PROVE  turns'[timer'.job] = "begun" /\ \A j \in timer'.rest : OneTime(j)' => turns'[j] # "begun"
    OBVIOUS
  <2>1. timer' = timer /\ turns' = turns
    BY <1>1, <1>2
  <2>2. \A j \in timer.rest : j \in JobIds /\ Taken(j)
    BY <1>0, <2>1 DEF TypeOK, Taken
  <2> QED BY <1>10, <2>1, <2>2 DEF OnceInv
<1>12. ASSUME mode' = "up", NEW j \in JobIds, turns'[j] = "begun", OneTime(j)'
       PROVE  (timer'.phase = "turn" /\ timer'.job = j) \/ store'[j].next = 0
  <2>1. turns[j] = "begun" /\ Taken(j)
    BY <1>4, <1>12 DEF Taken
  <2>2. (timer.phase = "turn" /\ timer.job = j) \/ store[j].next = 0
    BY <1>10, <1>12, <2>1 DEF OnceInv
  <2>3. CASE timer.phase = "turn" /\ timer.job = j
    BY <1>1, <1>2, <1>3, <1>12, <2>3
  <2>4. CASE store[j].next = 0
    BY <1>1, <1>10, <1>12, <2>1, <2>4
  <2> QED BY <2>2, <2>3, <2>4
<1> QED BY <1>9, <1>11, <1>12 DEF OnceInv

LEMMA OnceInit == Init => OnceInv
<1> SUFFICES ASSUME Init PROVE OnceInv
  OBVIOUS
<1>1. Copies = {NoJobs} /\ DOMAIN NoJobs = {}
  BY DEF Init, Copies, NoCommand, NoJobs
<1>2. Agree
  BY <1>1 DEF Init, Agree, AtJobs
<1> QED BY <1>2 DEF Init, OnceInv, Taken, NoTimer

\* A list of which a call made another.
LEMMA FollowsComes ==
  ASSUME NEW f \in Copies, NEW g, Follows(g, f), NEW s
  PROVE  Comes(g, s)
BY DEF Follows, Comes
LEMMA OnceTimer ==
  ASSUME CronInv, OnceInv, TimerFires
  PROVE  OnceInv'
<1>0. /\ TypeOK /\ now \in Nat /\ created \in Nat /\ IsJobs(store) /\ IsJobs(file) /\ IsJobs(cli.jobs) /\ Agree
      /\ AtJobs(store) /\ AtJobs(file) /\ AtJobs(cli.jobs) /\ mode = "up" /\ timer.phase = "sleep"
      /\ turns \in [JobIds -> {"never", "begun", "cancelled"}]
  BY DEF CronInv, TickInv, TypeOK, OnceInv, Agree, Copies, TimerFires
<1>1. UNCHANGED <<now, mode, cli, created, store>> /\ file' \in {store, file, NoJobs}
  BY DEF TimerFires, Commit
<1>2. \A j \in JobIds : turns[j] = "begun" /\ OneTime(j) => store[j].next = 0
  BY <1>0 DEF OnceInv
<1>3. \A f \in {store', file', cli'.jobs} : IsJobs(f) /\ AtJobs(f) /\ Comes(f, 0)
  BY <1>0, <1>1, NoJobsType DEF Comes, Copies, NoJobs, AtJobs
<1>4. CASE DueJobs(store) = {}
  <2>1. Commit(store, mode = "up", NoTimer) /\ turns' = turns
    BY <1>4 DEF TimerFires
  <2>2. timer'.phase # "turn"
    <3>1. NoTimer \in Timer /\ NoTimer.phase = "none"
      BY DEF NoTimer, Timer
    <3> QED BY <1>0, <2>1, <3>1, CommitFacts, ArmTimerFacts
  <2>3. \A j \in JobIds : turns'[j] # "never" => j <= created
    BY <1>0, <2>1 DEF Agree
  <2>4. \A j \in JobIds : Taken(j)' => Taken(j)
    BY <2>1, <2>2 DEF Taken
  <2>5. Agree' /\ \A j \in JobIds : Taken(j)' => Past(j)' /\ j <= created'
    BY <1>0, <1>1, <1>3, <2>3, <2>4, ListsKeep
  <2> QED BY <1>1, <1>2, <2>1, <2>2, <2>5 DEF OnceInv, OneTime
<1>5. CASE DueJobs(store) # {}
  <2>1. BeginTurn(DueJobs(store)) /\ DueJobs(store) \in SUBSET JobIds
    BY <1>0, <1>5, WaitingSubset DEF TimerFires
  <2>2. PICK i \in DueJobs(store) : /\ timer'.phase = "turn" /\ timer'.job = i /\ timer'.rest = DueJobs(store) \ {i}
                                    /\ turns' = [turns EXCEPT ![i] = "begun"]
    BY <1>0, <2>1, BeginTurnFacts
  <2>3. i \in JobIds /\ i <= created /\ \A j \in DueJobs(store) : j \in DOMAIN store /\ store[j].next # 0
    BY <1>0, <2>1 DEF Agree, DueJobs, Waiting, Copies
  <2>4. \A j \in JobIds : turns'[j] # "never" => j <= created
    BY <1>0, <2>2, <2>3 DEF Agree
  <2>5. \A j \in JobIds : Taken(j)' => Taken(j) \/ j \in DueJobs(store)
    BY <1>0, <2>2 DEF Taken
  <2>6. Agree' /\ \A j \in JobIds : Taken(j)' => Past(j)' /\ j <= created'
    BY <1>0, <1>1, <1>3, <2>4, <2>5, ListsKeep
  <2>7. \A j \in timer'.rest : OneTime(j)' => turns'[j] # "begun"
    BY <1>0, <1>1, <1>2, <2>1, <2>2, <2>3 DEF OneTime
  <2>8. turns'[timer'.job] = "begun"
    BY <1>0, <2>2, <2>3
  <2>9. \A j \in JobIds : turns'[j] = "begun" /\ OneTime(j)' => (timer'.phase = "turn" /\ timer'.job = j) \/ store'[j].next = 0
    BY <1>0, <1>1, <1>2, <2>2, <2>3 DEF OneTime
  <2> QED BY <2>6, <2>7, <2>8, <2>9 DEF OnceInv
<1> QED BY <1>4, <1>5

LEMMA OnceTurn ==
  ASSUME CronInv, OnceInv, TurnEnds
  PROVE  OnceInv'
<1>d. PICK f, k : f = Finished(store, timer.job) /\ k = timer.job
  OBVIOUS
<1>0. /\ TypeOK /\ now \in Nat /\ created \in Nat /\ IsJobs(store) /\ IsJobs(file) /\ IsJobs(cli.jobs) /\ Agree
      /\ AtJobs(store) /\ AtJobs(file) /\ AtJobs(cli.jobs) /\ mode = "up" /\ timer.phase = "turn" /\ store \in Copies
      /\ turns \in [JobIds -> {"never", "begun", "cancelled"}] /\ timer.rest \in SUBSET JobIds /\ k \notin timer.rest
  BY <1>d DEF CronInv, TickInv, TypeOK, OnceInv, Agree, Copies, TurnEnds
<1>1. UNCHANGED <<now, mode, cli, created>> /\ store' = f /\ file' \in {f, file, NoJobs}
  BY <1>d DEF TurnEnds, Commit
<1>2. IsJobs(f) /\ AtJobs(f) /\ Follows(f, store) /\ Comes(f, 0)
  BY <1>0, <1>d, FinishedType, FinishedFollows, FollowsComes
<1>3. \A g \in {store', file', cli'.jobs} : IsJobs(g) /\ AtJobs(g) /\ Comes(g, 0)
  <2>1. Comes(file, 0) /\ Comes(cli.jobs, 0) /\ Comes(NoJobs, 0) /\ AtJobs(NoJobs)
    BY DEF Comes, Copies, NoJobs, AtJobs
  <2> QED BY <1>0, <1>1, <1>2, <2>1, NoJobsType
<1>4. \A j \in JobIds : OneTime(j)' => OneTime(j) /\ j # k /\ store'[j] = store[j]
  <2>1. \A j \in DOMAIN f : j \in DOMAIN store /\ f[j].schedule = store[j].schedule
    BY <1>2 DEF Follows
  <2>2. \A j \in DOMAIN store \ {k} : f[j] = store[j]
    BY <1>0, <1>d, FinishedType
  <2>3. k \in DOMAIN f => ~(store[k].schedule.kind = "at" /\ store[k].schedule.delete)
    BY <1>0, <1>d, FinishedFollows
  <2> QED BY <1>1, <2>1, <2>2, <2>3 DEF OneTime
<1>5. \A j \in JobIds : turns[j] = "begun" /\ OneTime(j)' => store'[j].next = 0
  BY <1>0, <1>4, <1>d DEF OnceInv
<1>6. CASE timer.rest = {}
  <2>1. Commit(f, mode = "up", NoTimer) /\ turns' = turns
    BY <1>6, <1>d DEF TurnEnds
  <2>2. timer'.phase # "turn"
    <3>1. NoTimer \in Timer /\ NoTimer.phase = "none"
      BY DEF NoTimer, Timer
    <3> QED BY <1>0, <1>2, <2>1, <3>1, CommitFacts, ArmTimerFacts
  <2>3. \A j \in JobIds : turns'[j] # "never" => j <= created
    BY <1>0, <2>1 DEF Agree
  <2>4. \A j \in JobIds : Taken(j)' => Taken(j)
    BY <2>1, <2>2 DEF Taken
  <2>5. Agree' /\ \A j \in JobIds : Taken(j)' => Past(j)' /\ j <= created'
    BY <1>0, <1>1, <1>3, <2>3, <2>4, ListsKeep
  <2> QED BY <1>5, <2>1, <2>2, <2>5 DEF OnceInv
<1>7. CASE timer.rest # {}
  <2>1. BeginTurn(timer.rest)
    BY <1>7 DEF TurnEnds
  <2>2. PICK i \in timer.rest : /\ timer'.phase = "turn" /\ timer'.job = i /\ timer'.rest = timer.rest \ {i}
                                /\ turns' = [turns EXCEPT ![i] = "begun"]
    BY <1>0, <2>1, BeginTurnFacts
  <2>3. i \in JobIds /\ i <= created
    BY <1>0 DEF OnceInv, Taken
  <2>4. \A j \in JobIds : turns'[j] # "never" => j <= created
    BY <1>0, <2>2, <2>3 DEF Agree
  <2>5. \A j \in JobIds : Taken(j)' => Taken(j)
    BY <1>0, <2>2 DEF Taken
  <2>6. Agree' /\ \A j \in JobIds : Taken(j)' => Past(j)' /\ j <= created'
    BY <1>0, <1>1, <1>3, <2>4, <2>5, ListsKeep
  <2>7. \A j \in timer'.rest : OneTime(j)' => turns'[j] # "begun"
    BY <1>0, <1>4, <2>2, <2>3 DEF OnceInv
  <2>8. turns'[timer'.job] = "begun"
    BY <1>0, <2>2, <2>3
  <2>9. \A j \in JobIds : turns'[j] = "begun" /\ OneTime(j)' => (timer'.phase = "turn" /\ timer'.job = j) \/ store'[j].next = 0
    BY <1>0, <1>5, <2>2, <2>3
  <2> QED BY <2>6, <2>7, <2>8, <2>9 DEF OnceInv
<1> QED BY <1>6, <1>7

\* A step that leaves the timer, or ends it, and begins nothing.
LEMMA OnceRest ==
  ASSUME CronInv, OnceInv, turns' = turns, mode' \in {mode, "stopping", "down"},
         timer' = timer \/ (timer'.phase # "turn" /\ mode' # "up"),
         NEW s, created' \in {created, created + 1}, now' \in Nat, now' >= now,
         store' = store \/ (mode' # "up" /\ store' = NoJobs),
         \A f \in {file', cli'.jobs} : IsJobs(f) /\ AtJobs(f) /\ Comes(f, s)
  PROVE  OnceInv'
<1>0. TypeOK /\ IsJobs(store) /\ AtJobs(store) /\ Agree /\ store \in Copies
  BY DEF CronInv, TypeOK, OnceInv, Agree, Copies
<1>1. \A f \in {store', file', cli'.jobs} : IsJobs(f) /\ AtJobs(f) /\ Comes(f, s)
  BY <1>0, NoJobsType DEF Comes, Copies, NoJobs, AtJobs
<1>2. \A j \in JobIds : turns'[j] # "never" => j <= created
  BY <1>0 DEF Agree
<1>3. \A j \in JobIds : Taken(j)' => Taken(j)
  BY DEF Taken
<1>4. Agree' /\ \A j \in JobIds : Taken(j)' => Past(j)' /\ j <= created'
  BY <1>0, <1>1, <1>2, <1>3, ListsKeep
<1>5. \A j \in JobIds : OneTime(j)' => OneTime(j) /\ store'[j] = store[j]
  BY DEF OneTime, NoJobs
<1>6. timer'.phase = "turn" =>
        turns'[timer'.job] = "begun" /\ \A j \in timer'.rest : OneTime(j)' => turns'[j] # "begun"
  <2>1. \A j \in timer.rest : j \in JobIds
    BY <1>0 DEF TypeOK
  <2> QED BY <1>5, <2>1 DEF OnceInv, CronInv, TickInv
<1>7. mode' = "up" => \A j \in JobIds : turns'[j] = "begun" /\ OneTime(j)' =>
        (timer'.phase = "turn" /\ timer'.job = j) \/ store'[j].next = 0
  BY <1>5 DEF OnceInv
<1> QED BY <1>4, <1>6, <1>7 DEF OnceInv
LEMMA OnceStep ==
  ASSUME CronInv, OnceInv, [Next]_vars
  PROVE  OnceInv'
<1>0. /\ TypeOK /\ now \in Nat /\ created \in Nat /\ IsJobs(store) /\ IsJobs(file) /\ IsJobs(cli.jobs)
      /\ AtJobs(store) /\ AtJobs(file) /\ AtJobs(cli.jobs) /\ store \in Copies /\ file \in Copies /\ cli.jobs \in Copies
  BY DEF CronInv, TypeOK, OnceInv, Agree, Copies
<1>n. IsJobs(NoJobs) /\ AtJobs(NoJobs) /\ \A s : Comes(NoJobs, s) /\ \A f \in Copies : Comes(f, s)
  BY NoJobsType DEF NoJobs, AtJobs, Comes
<1>1. ASSUME NEW s \in Schedules, AddJob(s) PROVE OnceInv'
  <2>1. created' = created + 1 /\ created + 1 \in JobIds /\ UNCHANGED <<now, mode, cli>>
    BY <1>0, <1>1 DEF AddJob, TypeOK, JobIds
  <2>2. PICK f : f = Added(store, created + 1, s)
    OBVIOUS
  <2>3. IsJobs(f) /\ AtJobs(f) /\ Comes(f, s)
    BY <1>0, <2>1, <2>2, AddedType, AddedComes
  <2>4. \A j \in DOMAIN f : j <= created =>
            /\ j \in DOMAIN store /\ f[j].schedule = store[j].schedule
            /\ f[j].next \in {0, store[j].next, NextRun(f[j].schedule, now)}
    BY <1>0, <2>2 DEF Added
  <2>5. Edit(f)
    BY <1>1, <2>2 DEF AddJob
  <2> QED BY <2>1, <2>3, <2>4, <2>5, EditOnce
<1>2. ASSUME NEW f, IsJobs(f), AtJobs(f), Follows(f, store), Edit(f), UNCHANGED <<now, mode, cli, created>>
      PROVE  OnceInv'
  <2>1. Comes(f, 0)
    BY <1>0, <1>2, FollowsComes
  <2>2. \A j \in DOMAIN f : j <= created =>
            /\ j \in DOMAIN store /\ f[j].schedule = store[j].schedule
            /\ f[j].next \in {0, store[j].next, NextRun(f[j].schedule, now)}
    BY <1>2 DEF Follows
  <2> QED BY <1>2, <2>1, <2>2, EditOnce
<1>3. ASSUME NEW j \in JobIds, RemoveJob(j) PROVE OnceInv'
  <2>1. IsJobs(Removed(store, j)) /\ AtJobs(Removed(store, j)) /\ Follows(Removed(store, j), store)
    BY <1>0, RemovedType, RemovedFollows
  <2> QED BY <1>2, <1>3, <2>1 DEF RemoveJob
<1>4. ASSUME NEW j \in JobIds, NEW on \in BOOLEAN, EnableJob(j, on) PROVE OnceInv'
  <2>1. IsJobs(Enabled(store, j, on)) /\ AtJobs(Enabled(store, j, on)) /\ Follows(Enabled(store, j, on), store)
    BY <1>0, <1>4, EnabledType, EnabledFollows DEF EnableJob
  <2> QED BY <1>2, <1>4, <2>1 DEF EnableJob
<1>5. ASSUME NEW r \in Runners, RunJobEnds(r) PROVE OnceInv'
  <2>1. /\ IsJobs(Finished(store, runner[r])) /\ AtJobs(Finished(store, runner[r]))
        /\ Follows(Finished(store, runner[r]), store)
    BY <1>0, FinishedType, FinishedFollows
  <2> QED BY <1>2, <1>5, <2>1 DEF RunJobEnds
<1>6. ASSUME Start PROVE OnceInv'
  <2>1. CASE mode' = "up"
    <3>1. PICK f : f = Recomputed(file)
      OBVIOUS
    <3>2. /\ store' = f /\ file' = f /\ timer'.phase # "turn" /\ UNCHANGED <<now, cli, created, turns>>
      <4>1. IsJobs(Recomputed(file))
        BY <1>0, RecomputedType
      <4> QED BY <1>6, <2>1, <3>1, <4>1, ArmTimerFacts DEF Start
    <3>3. IsJobs(f) /\ AtJobs(f) /\ Follows(f, file) /\ Comes(f, 0)
      BY <1>0, <3>1, RecomputedType, RecomputedFollows, FollowsComes
    <3>4. \A g \in {store', file', cli'.jobs} : IsJobs(g) /\ AtJobs(g) /\ Comes(g, 0)
      BY <1>0, <1>n, <3>2, <3>3
    <3>5. \A j \in JobIds : turns'[j] # "never" => j <= created
      BY <3>2 DEF OnceInv, Agree
    <3>6. \A j \in JobIds : Taken(j)' => Taken(j)
      BY <3>2 DEF Taken
    <3>7. Agree' /\ \A j \in JobIds : Taken(j)' => Past(j)' /\ j <= created'
      BY <1>0, <3>2, <3>4, <3>5, <3>6, ListsKeep
    <3>8. ASSUME NEW j \in JobIds, turns'[j] = "begun", OneTime(j)' PROVE store'[j].next = 0
      <4>1. j \in DOMAIN f /\ f[j].schedule.kind = "at" /\ j \in DOMAIN file /\ f[j].schedule = file[j].schedule
        BY <3>2, <3>3, <3>8 DEF OneTime, Follows
      <4>2. file[j].schedule.ms <= now
        BY <1>0, <3>2, <3>8, <4>1 DEF OnceInv, Taken, Past
      <4> QED BY <1>0, <3>1, <3>2, <4>1, <4>2, RecomputedFollows
    <3> QED BY <3>2, <3>7, <3>8 DEF OnceInv
  <2>2. CASE mode' # "up"
    <3>1. /\ file' \in {file, NoJobs} /\ mode' = "down" /\ mode = "down"
          /\ UNCHANGED <<store, timer, now, cli, created, turns>>
      BY <1>6, <2>2 DEF Start
    <3>2. \A f \in {file', cli'.jobs} : IsJobs(f) /\ AtJobs(f) /\ Comes(f, 0)
      BY <1>0, <1>n, <3>1
    <3> QED BY <1>0, <3>1, <3>2, OnceRest
  <2> QED BY <2>1, <2>2
<1>7. ASSUME Stop \/ Exit PROVE OnceInv'
  <2>1. /\ mode' \in {"stopping", "down"} /\ timer' = NoTimer /\ file' \in {file, NoJobs} /\ store' \in {store, NoJobs}
        /\ UNCHANGED <<now, cli, created, turns>>
    BY <1>7 DEF Stop, Exit
  <2>2. \A f \in {file', cli'.jobs} : IsJobs(f) /\ AtJobs(f) /\ Comes(f, 0)
    BY <1>0, <1>n, <2>1
  <2>3. timer'.phase # "turn"
    BY <2>1 DEF NoTimer
  <2> QED BY <1>0, <2>1, <2>2, <2>3, OnceRest
<1>8. ASSUME CommandLoads \/ CommandFails \/ Advance \/ UNCHANGED vars
             \/ \E r \in Runners, j \in JobIds, force \in BOOLEAN : RunJob(r, j, force)
      PROVE  OnceInv'
  <2>1. /\ cli'.jobs \in {cli.jobs, file, NoJobs} /\ now' \in {now, now + 1}
        /\ UNCHANGED <<mode, store, file, timer, created, turns>>
    BY <1>8 DEF CommandLoads, CommandFails, NoCommand, Advance, RunJob, vars
  <2>2. \A f \in {file', cli'.jobs} : IsJobs(f) /\ AtJobs(f) /\ Comes(f, 0)
    BY <1>0, <1>n, <2>1
  <2>3. now' \in Nat /\ now' >= now
    BY <1>0, <2>1
  <2> QED BY <1>0, <2>1, <2>2, <2>3, OnceRest
<1>9. ASSUME CommandSaves PROVE OnceInv'
  <2>1. cli'.jobs = NoJobs /\ UNCHANGED <<now, mode, store, timer, turns>>
    BY <1>9 DEF CommandSaves, NoCommand
  <2>2. ASSUME NEW s, IsJobs(file'), AtJobs(file'), Comes(file', s), created' \in {created, created + 1}
        PROVE  OnceInv'
    <3>1. \A f \in {file', cli'.jobs} : IsJobs(f) /\ AtJobs(f) /\ Comes(f, s)
      BY <1>n, <2>1, <2>2
    <3> QED BY <1>0, <2>1, <2>2, <3>1, OnceRest
  <2>3. ASSUME NEW s \in Schedules, created < MaxJobs, created' = created + 1,
               file' = Added(cli.jobs, created + 1, s)
        PROVE  OnceInv'
    <3>1. created + 1 \in JobIds
      BY <1>0, <2>3 DEF TypeOK, JobIds
    <3>2. IsJobs(file') /\ AtJobs(file') /\ Comes(file', s)
      BY <1>0, <2>3, <3>1, AddedType, AddedComes
    <3> QED BY <2>2, <2>3, <3>2
  <2>4. ASSUME UNCHANGED created, NEW j \in DOMAIN cli.jobs,
               \/ file' = Removed(cli.jobs, j)
               \/ \E on \in BOOLEAN : file' = Enabled(cli.jobs, j, on)
               \/ file' = Finished(cli.jobs, j)
        PROVE  OnceInv'
    <3>1. IsJobs(file') /\ AtJobs(file') /\ Follows(file', cli.jobs)
      <4>1. CASE file' = Removed(cli.jobs, j)
        BY <1>0, <4>1, RemovedType, RemovedFollows
      <4>2. ASSUME NEW on \in BOOLEAN, file' = Enabled(cli.jobs, j, on)
            PROVE  IsJobs(file') /\ AtJobs(file') /\ Follows(file', cli.jobs)
        BY <1>0, <4>2, EnabledType, EnabledFollows
      <4>3. CASE file' = Finished(cli.jobs, j)
        BY <1>0, <4>3, FinishedType, FinishedFollows
      <4> QED BY <2>4, <4>1, <4>2, <4>3
    <3>2. Comes(file', 0)
      BY <1>0, <3>1, FollowsComes
    <3> QED BY <2>2, <2>4, <3>1, <3>2
  <2> QED BY <1>9, <2>3, <2>4 DEF CommandSaves
<1> QED
  BY <1>1, <1>3, <1>4, <1>5, <1>6, <1>7, <1>8, <1>9, OnceTimer, OnceTurn DEF Next

\* The timer begins a one-time job again only if a call cancelled its turn: no restart, manual
\* run, failed save or command brings it back, for any number of jobs and any schedules.
THEOREM OnlyCancelledRepeat == Spec => RepeatsOnlyCancelled
<1>1. Init => OnceInv
  BY OnceInit
<1>2. OnceInv /\ CronInv /\ [Next]_vars => OnceInv'
  BY OnceStep
<1>3. ASSUME CronInv, OnceInv, [Next]_vars, NEW j \in JobIds, Begins(j), OneTime(j)
      PROVE  turns[j] # "begun"
  <2>1. CASE TimerFires /\ j \in DueJobs(store)
    <3>1. store[j].next # 0 /\ mode = "up" /\ timer.phase # "turn"
      BY <1>3, <2>1 DEF DueJobs, Waiting, TimerFires, CronInv, TickInv, TypeOK
    <3> QED BY <1>3, <3>1 DEF OnceInv
  <2>2. CASE TurnEnds /\ timer.phase = "turn" /\ j \in timer.rest
    BY <1>3, <2>2 DEF OnceInv
  <2> QED BY <1>3, <2>1, <2>2, TicksBegin
<1>4. CronInv /\ OnceInv /\ [Next]_vars => [\A j \in JobIds : Begins(j) /\ OneTime(j) => turns[j] # "begun"]_vars
  BY <1>3
<1> QED BY <1>1, <1>2, <1>4, CronInvariant, PTL DEF Spec, RepeatsOnlyCancelled

-------------------------------------------------------------------------------
(* The nodes and the cron service in one run.                                 *)

\* Whatever the run of MCGateway does is a behaviour of each part: what is proved of the
\* nodes and of the cron service holds of the run too.
THEOREM GatewayIsParts == GatewaySpec => NodeSpec /\ Spec
<1>1. GatewayInit => NodeInit /\ Init  BY DEF GatewayInit
<1>2. [GatewayNext]_<<part, nodeVars, vars>> => [NodeNext]_nodeVars /\ [Next]_vars
  BY DEF GatewayNext, NodePart, CronPart
<1> QED  BY <1>1, <1>2, PTL DEF GatewaySpec, NodeSpec, Spec

\* Every variable of both parts is of its type, in the run of the two.
THEOREM GatewayTyped == GatewaySpec => []GatewayTypesOK
<1>1. NodeTypeOK /\ TypeOK => GatewayTypesOK  BY DEF GatewayTypesOK
<1> QED  BY <1>1, GatewayIsParts, NodeTypesCorrect, CronTypes, PTL
===============================================================================
