--------------------------- MODULE LaneQueue_proofs ---------------------------
(***************************************************************************)
(* What LaneQueue guarantees for every number of requests, sessions,       *)
(* connections and waiters, and for every cap on the queues.               *)
(***************************************************************************)
EXTENDS LaneQueue, TLAPS

-------------------------------------------------------------------------------
(* The four values a completion computes have the types of their dictionaries.*)
LEMMA CompletedTypes ==
  ASSUME TypeOK, NEW run \in RunIds, NEW status \in Statuses,
         NEW s \in Sessions \cup {NoSession}
  PROVE  /\ JobsCompleted(run, status, s)
              \in [RunIds -> [status : Statuses, session : Sessions \cup {NoSession}]]
         /\ LaneReleased(run, s) \in [Sessions -> RunIds \cup {NoRun}]
         /\ FutureResolved(run) \in [RunIds -> {"none", "pending", "done", "cancelled"}]
         /\ WaitersWoken(run, status) \in
              [Waiters -> [state : {"idle", "waiting", "woken", "answered", "timeout",
                                    "cancelled"},
                           run : RunIds \cup {NoRun}, seen : Statuses]]
BY ZenonT(40) DEF TypeOK, JobsCompleted, LaneReleased, FutureResolved, WaitersWoken

\* A completion, with or without a next item, keeps the types.
LEMMA CompleteTypes ==
  ASSUME LaneAssumption, TypeOK, NEW r \in Requests, NEW p \in Phases,
         NEW status \in Statuses, NEW s \in Sessions \cup {NoSession},
         Complete(r, p, status, s),
         session' = session, open' = open
  PROVE  TypeOK'
<1>1. KeyOf[r] \in RunIds
  BY DEF LaneAssumption
<1>2. CASE route[r] = "node"
  <2>1. CompleteAgentJob(KeyOf[r], status, s) /\ phase' = [phase EXCEPT ![r] = p]
        /\ UNCHANGED <<pending, emitter, route>>
    BY <1>2 DEF Complete
  <2> QED BY <1>1, <2>1, CompletedTypes DEF TypeOK, CompleteAgentJob
<1>3. CASE route[r] # "node" /\ (s = NoSession \/ pending[s] = <<>>)
  <2>1. CompleteAgentJob(KeyOf[r], status, s) /\ phase' = [phase EXCEPT ![r] = p]
        /\ UNCHANGED <<pending, emitter, route>>
    BY <1>3 DEF Complete, CompleteAndTrigger
  <2> QED BY <1>1, <2>1, CompletedTypes DEF TypeOK, CompleteAgentJob
<1>4. CASE route[r] # "node" /\ s # NoSession /\ pending[s] # <<>>
  <2> DEFINE run == KeyOf[r]
             jb == JobsCompleted(run, status, s)
             ln == LaneReleased(run, s)
             ft == FutureResolved(run)
             next == Head(pending[s])
             key == KeyOf[next]
             fresh == CanRegister(jb, ln, key, s)
  <2>1. /\ pending' = [pending EXCEPT ![s] = Tail(@)]
        /\ jobs' = IF fresh THEN JobsRegistered(jb, key, s) ELSE jb
        /\ lane' = IF fresh THEN LaneTaken(ln, key, s) ELSE ln
        /\ futures' = IF fresh THEN FutureCreated(ft, key) ELSE ft
        /\ aborts' = aborts \ {run}
        /\ waiter' = WaitersWoken(run, status)
        /\ phase' = [phase EXCEPT ![r] = p, ![next] = "starting"]
        /\ emitter' = [emitter EXCEPT ![next] = emitter[r]]
        /\ route' = [route EXCEPT ![next] = "dequeued"]
    BY <1>4 DEF Complete, CompleteAndTrigger
  <2>2. s \in Sessions /\ pending[s] \in Seq(Requests)
    BY <1>4 DEF TypeOK
  <2>3. next \in Requests /\ Tail(pending[s]) \in Seq(Requests)
    BY <1>4, <2>2
  <2>4. key \in RunIds
    BY <2>3 DEF LaneAssumption
  <2>5. jobs' \in [RunIds -> [status : Statuses, session : Sessions \cup {NoSession}]]
    BY <1>1, <2>1, <2>2, <2>4, CompletedTypes DEF JobsRegistered, Statuses
  <2>6. /\ lane' \in [Sessions -> RunIds \cup {NoRun}]
        /\ futures' \in [RunIds -> {"none", "pending", "done", "cancelled"}]
    <3> HIDE DEF fresh
    <3>1. /\ LaneTaken(ln, key, s) \in [Sessions -> RunIds \cup {NoRun}]
          /\ ln \in [Sessions -> RunIds \cup {NoRun}]
      BY <1>1, <2>4, CompletedTypes DEF LaneTaken
    <3>2. /\ FutureCreated(ft, key) \in [RunIds -> {"none", "pending", "done", "cancelled"}]
          /\ ft \in [RunIds -> {"none", "pending", "done", "cancelled"}]
      BY <1>1, <2>4, CompletedTypes DEF FutureCreated
    <3> QED BY <2>1, <3>1, <3>2
  <2>7. waiter' \in [Waiters -> [state : {"idle", "waiting", "woken", "answered", "timeout",
                                          "cancelled"},
                                 run : RunIds \cup {NoRun}, seen : Statuses]]
    BY <1>1, <2>1, CompletedTypes
  <2>8. phase' \in [Requests -> Phases]
    BY <2>1, <2>3 DEF TypeOK, Phases
  <2>9. pending' \in [Sessions -> Seq(Requests)]
    BY <2>1, <2>2, <2>3 DEF TypeOK
  <2> HIDE DEF run, jb, ln, ft, next, key, fresh
  <2>10. /\ emitter' \in [Requests -> Conns \cup {NoConn}]
         /\ route' \in [Requests -> {"none", "direct", "dequeued", "node"}]
    BY <2>1, <2>3 DEF TypeOK
  <2> QED BY <2>1, <2>5, <2>6, <2>7, <2>8, <2>9, <2>10 DEF TypeOK
<1> QED BY <1>2, <1>3, <1>4

\* Registering a run in its arrival action keeps the registry's types.
LEMMA RegisterTypes ==
  ASSUME TypeOK, NEW run \in RunIds, NEW s \in Sessions, Register(run, s)
  PROVE  /\ jobs' \in [RunIds -> [status : Statuses, session : Sessions \cup {NoSession}]]
         /\ lane' \in [Sessions -> RunIds \cup {NoRun}]
         /\ futures' \in [RunIds -> {"none", "pending", "done", "cancelled"}]
BY DEF TypeOK, Register, JobsRegistered, LaneTaken, FutureCreated, Statuses

LEMMA TypeOKInit == LaneAssumption => (Init => TypeOK)
BY DEF LaneAssumption, Init, TypeOK, Statuses, Phases

LEMMA TypeOKNext == LaneAssumption /\ TypeOK /\ [Next]_vars => TypeOK'
<1> SUFFICES ASSUME LaneAssumption, TypeOK, [Next]_vars PROVE TypeOK'
  OBVIOUS
<1>1. ASSUME NEW r \in Requests, NEW s \in Sessions, NEW c \in Conns, ChatSendBusy(r, s, c)
      PROVE TypeOK'
  <2>1. phase' \in [Requests -> Phases] /\ pending' \in [Sessions -> Seq(Requests)]
    <3>1. Append(pending[s], r) \in Seq(Requests)
      BY DEF TypeOK
    <3>2. CASE LaneEnqueue(r, s) /\ phase' = [phase EXCEPT ![r] = "queued"]
      BY <3>1, <3>2 DEF TypeOK, LaneEnqueue, Phases
    <3>3. CASE UNCHANGED pending /\ phase' = [phase EXCEPT ![r] = "queue_full"]
      BY <3>3 DEF TypeOK, Phases
    <3> QED BY <1>1, <3>2, <3>3 DEF ChatSendBusy
  <2>2. /\ session' \in [Requests -> Sessions \cup {NoSession}]
        /\ emitter' \in [Requests -> Conns \cup {NoConn}]
    BY <1>1 DEF TypeOK, ChatSendBusy, Arrives
  <2> QED BY <1>1, <2>1, <2>2 DEF TypeOK, ChatSendBusy, Arrives
<1>2. ASSUME NEW r \in Requests, NEW s \in Sessions, NEW c \in Conns, ChatSendFree(r, s, c)
      PROVE TypeOK'
  <2>1. KeyOf[r] \in RunIds
    BY DEF LaneAssumption
  <2>2. phase' \in [Requests -> Phases]
    BY <1>2 DEF TypeOK, ChatSendFree, Phases
  <2>3. /\ route' \in [Requests -> {"none", "direct", "dequeued", "node"}]
        /\ session' \in [Requests -> Sessions \cup {NoSession}]
        /\ emitter' \in [Requests -> Conns \cup {NoConn}]
    <3>1. UNCHANGED route \/ route' = [route EXCEPT ![r] = "direct"]
      BY <1>2 DEF ChatSendFree
    <3>2. session' = [session EXCEPT ![r] = s] /\ emitter' = [emitter EXCEPT ![r] = c]
      BY <1>2 DEF ChatSendFree, Arrives
    <3> QED BY <3>1, <3>2 DEF TypeOK
  <2>4. CASE Register(KeyOf[r], s)
    BY <1>2, <2>1, <2>2, <2>3, <2>4, RegisterTypes DEF TypeOK, ChatSendFree, Arrives
  <2>5. CASE UNCHANGED <<jobs, lane, futures>>
    BY <1>2, <2>2, <2>3, <2>5 DEF TypeOK, ChatSendFree, Arrives
  <2> QED BY <1>2, <2>4, <2>5 DEF ChatSendFree
<1>3. ASSUME NEW r \in Requests, NEW s \in Sessions, NEW c \in Conns, NodeRequest(r, s, c)
      PROVE TypeOK'
  <2>1. KeyOf[r] \in RunIds
    BY DEF LaneAssumption
  <2>2. phase' \in [Requests -> Phases]
    BY <1>3 DEF TypeOK, NodeRequest, Phases
  <2>3. /\ route' \in [Requests -> {"none", "direct", "dequeued", "node"}]
        /\ session' \in [Requests -> Sessions \cup {NoSession}]
        /\ emitter' \in [Requests -> Conns \cup {NoConn}]
    BY <1>3 DEF TypeOK, NodeRequest, Arrives
  <2>4. CASE Register(KeyOf[r], s)
    BY <1>3, <2>1, <2>2, <2>3, <2>4, RegisterTypes DEF TypeOK, NodeRequest, Arrives
  <2>5. CASE UNCHANGED <<jobs, lane, futures>>
    BY <1>3, <2>2, <2>3, <2>5 DEF TypeOK, NodeRequest, Arrives
  <2> QED BY <1>3, <2>4, <2>5 DEF NodeRequest
<1>4. ASSUME NEW r \in Requests, TaskStep(r) PROVE TypeOK'
  <2>1. OwnSession(r) \in Sessions \cup {NoSession} /\ session[r] \in Sessions \cup {NoSession}
    BY DEF TypeOK, OwnSession, LaneAssumption
  <2>2. {"ok", "error", "aborted"} \subseteq Statuses /\ {"announcing", "ended"} \subseteq Phases
    BY DEF Statuses, Phases
  <2>3. CASE EmitStart(r) \/ EmitStartRaises(r) \/ Announce(r)
    <3>1. PICK p \in Phases : phase' = [phase EXCEPT ![r] = p]
      BY <2>3 DEF EmitStart, EmitStartRaises, Announce, Phases
    <3>2. UNCHANGED <<registry, pending, session, emitter, route, waiter, open>>
      BY <2>3 DEF EmitStart, EmitStartRaises, Announce
    <3> QED BY <3>1, <3>2 DEF TypeOK, registry
  <2>4. CASE AgentReplies(r)
    <3>1. PICK s \in Sessions \cup {NoSession} : Complete(r, "announcing", "ok", s)
      BY <2>1, <2>4 DEF AgentReplies
    <3> QED BY <2>2, <2>4, <3>1, CompleteTypes DEF AgentReplies
  <2>5. CASE AgentAborts(r)
    <3>1. PICK s \in Sessions \cup {NoSession}, st \in {"ok", "aborted"} :
             Complete(r, "announcing", st, s)
      BY <2>1, <2>5 DEF AgentAborts
    <3> QED BY <2>2, <2>5, <3>1, CompleteTypes DEF AgentAborts
  <2>6. CASE AgentRaises(r)
    BY <2>1, <2>2, <2>6, CompleteTypes DEF AgentRaises
  <2>7. CASE AnnounceRaises(r)
    BY <2>1, <2>2, <2>7, CompleteTypes DEF AnnounceRaises
  <2> QED BY <1>4, <2>3, <2>4, <2>5, <2>6, <2>7 DEF TaskStep
<1>5. ASSUME NEW run \in Abortable, ChatAbort(run) PROVE TypeOK'
  BY <1>5 DEF TypeOK, ChatAbort, LaneAssumption
<1>6. ASSUME NEW w \in Waiters, NEW run \in RunIds, AgentWait(w, run) PROVE TypeOK'
  <2>1. jobs[run].status \in Statuses /\ "none" \in Statuses
    BY DEF TypeOK, Statuses
  <2>2. \E st \in {"waiting", "answered", "timeout", "cancelled"}, seen \in Statuses :
           SetWaiter(w, st, run, seen)
    BY <1>6, <2>1 DEF AgentWait
  <2>3. waiter' \in [Waiters -> [state : {"idle", "waiting", "woken", "answered", "timeout",
                                         "cancelled"},
                                run : RunIds \cup {NoRun}, seen : Statuses]]
    BY <2>2 DEF TypeOK, SetWaiter
  <2> QED BY <1>6, <2>3 DEF TypeOK, AgentWait, registry
<1>7. ASSUME NEW w \in Waiters, WaiterResumes(w) PROVE TypeOK'
  <2> DEFINE W == [state : {"idle", "waiting", "woken", "answered", "timeout", "cancelled"},
                   run : RunIds \cup {NoRun}, seen : Statuses]
  <2>1. [waiter[w] EXCEPT !.state = "answered"] \in W
    <3>1. \A x \in W : [x EXCEPT !.state = "answered"] \in W
      OBVIOUS
    <3>2. waiter[w] \in W
      BY DEF TypeOK
    <3> QED BY <3>1, <3>2, Zenon
  <2>2. waiter' \in [Waiters -> W]
    <3>1. waiter \in [Waiters -> W] /\ waiter' = [waiter EXCEPT ![w] = [waiter[w] EXCEPT !.state = "answered"]]
      BY <1>7 DEF TypeOK, WaiterResumes
    <3> HIDE DEF W
    <3> QED BY <2>1, <3>1
  <2> QED BY <1>7, <2>2 DEF TypeOK, WaiterResumes, registry
<1>8. ASSUME NEW w \in Waiters, WaitTimesOut(w) PROVE TypeOK'
  <2> DEFINE W == [state : {"idle", "waiting", "woken", "answered", "timeout", "cancelled"},
                   run : RunIds \cup {NoRun}, seen : Statuses]
  <2>1. \A v \in Waiters, st \in {"timeout", "cancelled"} : [waiter[v] EXCEPT !.state = st] \in W
    <3>1. \A x \in W, st \in {"timeout", "cancelled"} : [x EXCEPT !.state = st] \in W
      OBVIOUS
    <3>2. \A v \in Waiters : waiter[v] \in W
      BY DEF TypeOK
    <3> QED BY <3>1, <3>2, Zenon
  <2>2. waiter' \in [Waiters -> W]
    <3>1. waiter \in [Waiters -> W]
      BY DEF TypeOK
    <3> HIDE DEF W
    <3> QED BY <1>8, <2>1, <3>1 DEF WaitTimesOut
  <2>3. futures' \in [RunIds -> {"none", "pending", "done", "cancelled"}]
    BY <1>8 DEF TypeOK, WaitTimesOut
  <2> QED BY <1>8, <2>2, <2>3 DEF TypeOK, WaitTimesOut
<1>9. ASSUME NEW c \in Conns, Disconnect(c) PROVE TypeOK'
  BY <1>9 DEF TypeOK, Disconnect, registry
<1>10. CASE UNCHANGED vars
  BY <1>10 DEF TypeOK, vars
<1> QED BY <1>1, <1>2, <1>3, <1>4, <1>5, <1>6, <1>7, <1>8, <1>9, <1>10 DEF Next

\* The registry, the tasks and the waiters keep their types.
THEOREM TypeCorrect == Spec => []TypeOK
<1>1. Init => TypeOK
  BY LaneAssumption, TypeOKInit
<1>2. TypeOK /\ [Next]_vars => TypeOK'
  BY LaneAssumption, TypeOKNext
<1> QED BY <1>1, <1>2, PTL DEF Spec

-------------------------------------------------------------------------------
(* The two shapes of a completion: no item is taken from a queue, or the      *)
(* oldest item of the record's session is, registered or not.                 *)
Untriggered(r, p, status, s) ==
  /\ CompleteAgentJob(KeyOf[r], status, s)
  /\ phase' = [phase EXCEPT ![r] = p]
  /\ UNCHANGED <<pending, emitter, route>>

Triggered(r, p, status, s, next) ==
  LET jb == JobsCompleted(KeyOf[r], status, s)
      ln == LaneReleased(KeyOf[r], s)
      ft == FutureResolved(KeyOf[r])
  IN /\ s \in Sessions
     /\ pending[s] # <<>>
     /\ next = Head(pending[s])
     /\ pending' = [pending EXCEPT ![s] = Tail(@)]
     /\ aborts' = aborts \ {KeyOf[r]}
     /\ waiter' = WaitersWoken(KeyOf[r], status)
     /\ phase' = [phase EXCEPT ![r] = p, ![next] = "starting"]
     /\ emitter' = [emitter EXCEPT ![next] = emitter[r]]
     /\ route' = [route EXCEPT ![next] = "dequeued"]
     /\ \/ /\ CanRegister(jb, ln, KeyOf[next], s)
           /\ jobs' = JobsRegistered(jb, KeyOf[next], s)
           /\ lane' = LaneTaken(ln, KeyOf[next], s)
           /\ futures' = FutureCreated(ft, KeyOf[next])
        \/ /\ ~CanRegister(jb, ln, KeyOf[next], s)
           /\ jobs' = jb
           /\ lane' = ln
           /\ futures' = ft

LEMMA CompleteCases ==
  ASSUME LaneAssumption, TypeOK, NEW r \in Requests, NEW p \in Phases,
         NEW status \in Statuses, NEW s \in Sessions \cup {NoSession},
         Complete(r, p, status, s)
  PROVE  \/ /\ Untriggered(r, p, status, s)
            /\ route[r] = "node" \/ s = NoSession \/ pending[s] = <<>>
         \/ /\ route[r] # "node"
            /\ \E next \in Requests : Triggered(r, p, status, s, next)
<1>1. CASE route[r] = "node"
  BY <1>1 DEF Complete, Untriggered
<1>2. CASE route[r] # "node" /\ (s = NoSession \/ pending[s] = <<>>)
  BY <1>2 DEF Complete, CompleteAndTrigger, Untriggered
<1>3. CASE route[r] # "node" /\ s # NoSession /\ pending[s] # <<>>
  <2>1. s \in Sessions /\ pending[s] \in Seq(Requests)
    BY <1>3 DEF TypeOK
  <2>2. Head(pending[s]) \in Requests
    BY <1>3, <2>1
  <2>3. Triggered(r, p, status, s, Head(pending[s]))
    BY <1>3, <2>1 DEF Complete, CompleteAndTrigger, Triggered
  <2> QED BY <1>3, <2>2, <2>3
<1> QED BY <1>1, <1>2, <1>3

\* A task step either leaves everything but its own phase alone or completes a job.
LEMMA TaskStepCases ==
  ASSUME LaneAssumption, TypeOK, NEW r \in Requests, TaskStep(r)
  PROVE  /\ session' = session /\ open' = open
         /\ \/ /\ phase[r] = "starting" \/ phase[r] = "announcing"
               /\ \E p \in {"running", "dead", "ended"} :
                     /\ phase' = [phase EXCEPT ![r] = p]
                     /\ p = "running" => phase[r] = "starting"
               /\ UNCHANGED <<jobs, lane, futures, aborts, pending, emitter, route, waiter>>
            \/ /\ \/ phase[r] = "running"
                  \/ /\ phase[r] = "announcing"
                     /\ emitter[r] \notin open \/ TraceMayFail
               /\ \E p \in {"announcing", "ended"}, st \in {"ok", "error", "aborted"},
                     s \in Sessions \cup {NoSession} :
                     /\ Complete(r, p, st, s)
                     /\ s = OwnSession(r) \/ s = session[r]
<1>1. OwnSession(r) \in Sessions \cup {NoSession} /\ session[r] \in Sessions \cup {NoSession}
  BY DEF TypeOK, OwnSession, LaneAssumption
<1>2. CASE EmitStart(r) \/ EmitStartRaises(r) \/ Announce(r)
  BY <1>2 DEF EmitStart, EmitStartRaises, Announce, registry
<1>3. CASE AgentReplies(r)
  BY <1>1, <1>3 DEF AgentReplies
<1>4. CASE AgentAborts(r)
  BY <1>1, <1>4 DEF AgentAborts
<1>5. CASE AgentRaises(r)
  BY <1>1, <1>5 DEF AgentRaises
<1>6. CASE AnnounceRaises(r)
  BY <1>1, <1>6 DEF AnnounceRaises
<1> QED BY <1>2, <1>3, <1>4, <1>5, <1>6 DEF TaskStep

-------------------------------------------------------------------------------
(* Waiters.  A future is pending only while its run is running, and a parked  *)
(* call waits on a pending future: together they are inductive.               *)
PendingRuns == \A i \in RunIds : futures[i] = "pending" => jobs[i].status = "running"

ParkedOnPending ==
  \A w \in Waiters : waiter[w].state = "waiting" =>
     waiter[w].run \in RunIds /\ futures[waiter[w].run] = "pending"

WaiterInv == TypeOK /\ PendingRuns /\ ParkedOnPending

LEMMA CompleteKeepsWaiters ==
  ASSUME LaneAssumption, WaiterInv, NEW r \in Requests, NEW p \in Phases,
         NEW status \in {"ok", "error", "aborted"}, NEW s \in Sessions \cup {NoSession},
         Complete(r, p, status, s)
  PROVE  PendingRuns' /\ ParkedOnPending'
<1> DEFINE run == KeyOf[r]
           jb == JobsCompleted(run, status, s)
           ft == FutureResolved(run)
<1>1. run \in RunIds /\ TypeOK /\ status \in Statuses
  BY DEF LaneAssumption, WaiterInv, Statuses
<1>2. \A i \in RunIds : ft[i] = "pending" => jb[i].status = "running" /\ i # run
  BY <1>1 DEF WaiterInv, PendingRuns, FutureResolved, JobsCompleted, TypeOK
<1>3. \A w \in Waiters : WaitersWoken(run, status)[w].state = "waiting" =>
         /\ waiter[w].state = "waiting" /\ waiter[w].run # run
         /\ WaitersWoken(run, status)[w] = waiter[w]
  BY <1>1 DEF WaitersWoken, TypeOK
<1>4. \A w \in Waiters : WaitersWoken(run, status)[w].state = "waiting" =>
         /\ WaitersWoken(run, status)[w].run \in RunIds
         /\ ft[WaitersWoken(run, status)[w].run] = "pending"
  BY <1>1, <1>3 DEF WaiterInv, ParkedOnPending, FutureResolved, TypeOK
<1>5. ft \in [RunIds -> {"none", "pending", "done", "cancelled"}]
      /\ jb \in [RunIds -> [status : Statuses, session : Sessions \cup {NoSession}]]
  BY <1>1, CompletedTypes
<1>6. CASE Untriggered(r, p, status, s)
  <2>1. jobs' = jb /\ futures' = ft /\ waiter' = WaitersWoken(run, status)
    BY <1>6 DEF Untriggered, CompleteAgentJob
  <2> HIDE DEF jb, ft, run
  <2> QED BY <2>1, <1>2, <1>4 DEF PendingRuns, ParkedOnPending
<1>7. ASSUME NEW next \in Requests, Triggered(r, p, status, s, next)
      PROVE  PendingRuns' /\ ParkedOnPending'
  <2>1. waiter' = WaitersWoken(run, status)
    BY <1>7 DEF Triggered
  <2>2. CASE jobs' = jb /\ futures' = ft
    <3> HIDE DEF jb, ft, run
    <3> QED BY <2>1, <2>2, <1>2, <1>4 DEF PendingRuns, ParkedOnPending
  <2>3. CASE /\ jobs' = JobsRegistered(jb, KeyOf[next], s)
             /\ futures' = FutureCreated(ft, KeyOf[next])
    <3>1. KeyOf[next] \in RunIds
      BY DEF LaneAssumption
    <3> HIDE DEF jb, ft, run
    <3>2. \A i \in RunIds : /\ futures'[i] = IF i = KeyOf[next] THEN "pending" ELSE ft[i]
                            /\ i # KeyOf[next] => jobs'[i] = jb[i]
                            /\ jobs'[KeyOf[next]].status = "running"
      BY <2>3, <3>1, <1>5 DEF JobsRegistered, FutureCreated
    <3> QED BY <2>1, <3>1, <3>2, <1>2, <1>4 DEF PendingRuns, ParkedOnPending
  <2> QED BY <1>7, <2>2, <2>3 DEF Triggered
<1>8. p \in Phases /\ s \in Sessions \cup {NoSession}
  OBVIOUS
<1> HIDE DEF run, jb, ft
<1> QED BY <1>1, <1>6, <1>7, CompleteCases

LEMMA RegisterKeepsWaiters ==
  ASSUME WaiterInv, NEW run \in RunIds, NEW s \in Sessions, Register(run, s),
         waiter' = waiter
  PROVE  PendingRuns' /\ ParkedOnPending'
BY DEF WaiterInv, PendingRuns, ParkedOnPending, Register, JobsRegistered, FutureCreated, TypeOK

LEMMA WaiterInvNext == LaneAssumption /\ WaiterInv /\ [Next]_vars => WaiterInv'
<1> SUFFICES ASSUME LaneAssumption, WaiterInv, [Next]_vars PROVE WaiterInv'
  OBVIOUS
<1>0. TypeOK /\ TypeOK'
  BY TypeOKNext DEF WaiterInv
<1> SUFFICES PendingRuns' /\ ParkedOnPending'
  BY <1>0 DEF WaiterInv
<1>1. CASE UNCHANGED <<jobs, futures, waiter>>
  BY <1>1 DEF WaiterInv, PendingRuns, ParkedOnPending
<1>2. ASSUME NEW r \in Requests, NEW s \in Sessions, NEW c \in Conns,
             ChatSendBusy(r, s, c) \/ ChatSendFree(r, s, c) \/ NodeRequest(r, s, c)
      PROVE  PendingRuns' /\ ParkedOnPending'
  <2>1. KeyOf[r] \in RunIds
    BY DEF LaneAssumption
  <2>2. waiter' = waiter /\ (Register(KeyOf[r], s) \/ UNCHANGED <<jobs, futures>>)
    BY <1>2 DEF ChatSendBusy, ChatSendFree, NodeRequest, Arrives
  <2> QED BY <1>1, <2>1, <2>2, RegisterKeepsWaiters
<1>3. ASSUME NEW r \in Requests, TaskStep(r) PROVE PendingRuns' /\ ParkedOnPending'
  <2>1. {"announcing", "ended"} \subseteq Phases
    BY DEF Phases
  <2>2. \/ UNCHANGED <<jobs, futures, waiter>>
        \/ \E p \in {"announcing", "ended"}, st \in {"ok", "error", "aborted"},
              s \in Sessions \cup {NoSession} : Complete(r, p, st, s)
    BY <1>0, <1>3, TaskStepCases
  <2> QED BY <1>1, <2>1, <2>2, CompleteKeepsWaiters
<1>4. ASSUME NEW w \in Waiters, NEW run \in RunIds, AgentWait(w, run)
      PROVE  PendingRuns' /\ ParkedOnPending'
  <2>1. \E st \in {"waiting", "answered", "timeout", "cancelled"}, seen \in Statuses :
           /\ SetWaiter(w, st, run, seen)
           /\ st = "waiting" => futures[run] = "pending"
    <3>1. jobs[run].status \in Statuses /\ "none" \in Statuses
      BY <1>0 DEF TypeOK, Statuses
    <3> QED BY <1>4, <3>1 DEF AgentWait
  <2>2. UNCHANGED <<jobs, futures>>
    BY <1>4 DEF AgentWait, registry
  <2> QED BY <1>0, <2>1, <2>2 DEF WaiterInv, PendingRuns, ParkedOnPending, SetWaiter, TypeOK
<1>5. ASSUME NEW w \in Waiters, WaiterResumes(w) PROVE PendingRuns' /\ ParkedOnPending'
  BY <1>0, <1>5 DEF WaiterResumes, WaiterInv, PendingRuns, ParkedOnPending, registry, TypeOK
<1>6. ASSUME NEW w \in Waiters, WaitTimesOut(w) PROVE PendingRuns' /\ ParkedOnPending'
  <2>1. waiter[w].run \in RunIds
    BY <1>6 DEF WaitTimesOut, WaiterInv, ParkedOnPending
  <2>2. \A i \in RunIds : futures'[i] = IF i = waiter[w].run THEN "cancelled" ELSE futures[i]
    BY <1>0, <1>6, <2>1 DEF WaitTimesOut, TypeOK
  <2>3. \A v \in Waiters : waiter'[v].state = "waiting" =>
           waiter'[v] = waiter[v] /\ waiter[v].run # waiter[w].run
    BY <1>0, <1>6 DEF WaitTimesOut, TypeOK
  <2>4. jobs' = jobs
    BY <1>6 DEF WaitTimesOut
  <2> QED BY <2>1, <2>2, <2>3, <2>4 DEF WaiterInv, PendingRuns, ParkedOnPending
<1>7. ASSUME NEW run \in Abortable, ChatAbort(run) PROVE PendingRuns' /\ ParkedOnPending'
  BY <1>1, <1>7 DEF ChatAbort
<1>8. ASSUME NEW c \in Conns, Disconnect(c) PROVE PendingRuns' /\ ParkedOnPending'
  BY <1>1, <1>8 DEF Disconnect, registry
<1>9. CASE UNCHANGED vars
  BY <1>1, <1>9 DEF vars
<1> QED BY <1>2, <1>3, <1>4, <1>5, <1>6, <1>7, <1>8, <1>9 DEF Next

\* No call of agent.wait is ever parked on a run that is over: whatever ids clients
\* reuse, whichever connections close and whoever times out or aborts.
THEOREM WaitersAreServed == Spec => []WaiterHasPendingRun
<1>1. Init => WaiterInv
  BY LaneAssumption, TypeOKInit DEF Init, WaiterInv, PendingRuns, ParkedOnPending
<1>2. WaiterInv /\ [Next]_vars => WaiterInv'
  BY LaneAssumption, WaiterInvNext
<1>3. WaiterInv => WaiterHasPendingRun
  BY DEF WaiterInv, PendingRuns, ParkedOnPending, WaiterHasPendingRun
<1> QED BY <1>1, <1>2, <1>3, PTL DEF Spec

-------------------------------------------------------------------------------
(* Queues.  Entries are queued requests of the queue's own session, none      *)
(* twice, and every queued request is an entry.                               *)
EntriesQueued ==
  \A s \in Sessions : \A i \in DOMAIN pending[s] :
     phase[pending[s][i]] = "queued" /\ session[pending[s][i]] = s
EntriesDistinct ==
  \A s \in Sessions : \A i, j \in DOMAIN pending[s] : pending[s][i] = pending[s][j] => i = j
QueuedEntered ==
  \A r \in Requests : phase[r] = "queued" =>
     session[r] \in Sessions /\ \E i \in DOMAIN pending[session[r]] : pending[session[r]][i] = r
Capped == \A s \in Sessions : Len(pending[s]) <= MaxPending

QueueInv == TypeOK /\ EntriesQueued /\ EntriesDistinct /\ QueuedEntered /\ Capped

LEMMA QueueInvImplies == QueueInv => QueueHoldsQueued
BY DEF QueueInv, EntriesQueued, EntriesDistinct, QueuedEntered, Capped, QueueHoldsQueued, TypeOK

\* A step that only moves requests which are neither queued nor become queued.
LEMMA QueuesAlone ==
  ASSUME QueueInv, pending' = pending,
         \A r \in Requests :
           /\ phase[r] = "queued" => phase'[r] = "queued" /\ session'[r] = session[r]
           /\ phase'[r] = "queued" => phase[r] = "queued"
  PROVE  EntriesQueued' /\ EntriesDistinct' /\ QueuedEntered' /\ Capped'
<1>1. \A s \in Sessions : \A i \in DOMAIN pending[s] : pending[s][i] \in Requests
  BY DEF QueueInv, TypeOK
<1> QED BY <1>1 DEF QueueInv, EntriesQueued, EntriesDistinct, QueuedEntered, Capped

\* Popping the head of a queue and starting it.
LEMMA PopKeepsQueues ==
  ASSUME LaneAssumption, QueueInv, NEW r \in Requests, NEW p \in Phases \ {"queued"},
         NEW s \in Sessions,
         NEW next \in Requests, phase[r] # "queued",
         pending[s] # <<>>, next = Head(pending[s]),
         pending' = [pending EXCEPT ![s] = Tail(@)],
         phase' = [phase EXCEPT ![r] = p, ![next] = "starting"], session' = session
  PROVE  EntriesQueued' /\ EntriesDistinct' /\ QueuedEntered' /\ Capped'
<1>1. /\ pending \in [Sessions -> Seq(Requests)] /\ phase \in [Requests -> Phases]
      /\ pending[s] \in Seq(Requests)
  BY DEF QueueInv, TypeOK
<1>2. /\ Len(pending[s]) \in Nat /\ Len(pending[s]) > 0
      /\ DOMAIN pending[s] = 1..Len(pending[s])
      /\ DOMAIN Tail(pending[s]) = 1..(Len(pending[s]) - 1)
      /\ Len(Tail(pending[s])) = Len(pending[s]) - 1
      /\ \A i \in 1..(Len(pending[s]) - 1) : Tail(pending[s])[i] = pending[s][i + 1]
      /\ next = pending[s][1]
  BY <1>1
<1>3. /\ pending'[s] = Tail(pending[s])
      /\ \A x \in Sessions : x # s => pending'[x] = pending[x]
  BY <1>1
<1>4. phase[next] = "queued" /\ session[next] = s
  BY <1>2 DEF QueueInv, EntriesQueued
<1>5. \A q \in Requests : q # next /\ phase[q] = "queued" => phase'[q] = "queued"
  BY <1>1
<1>6. \A q \in Requests : phase'[q] = "queued" => phase[q] = "queued" /\ q # next
  BY <1>1
<1>7. \A x \in Sessions : x # s => \A i \in DOMAIN pending[x] :
         pending[x][i] \in Requests /\ pending[x][i] # next
  BY <1>1, <1>4 DEF QueueInv, EntriesQueued
<1>8. \A i \in 1..(Len(pending[s]) - 1) : pending[s][i + 1] \in Requests \ {next}
  <2> TAKE i \in 1..(Len(pending[s]) - 1)
  <2>1. i + 1 \in DOMAIN pending[s] /\ 1 \in DOMAIN pending[s] /\ i + 1 # 1
    BY <1>2
  <2> QED BY <1>1, <1>2, <2>1 DEF QueueInv, EntriesDistinct
<1>9. EntriesQueued'
  <2> SUFFICES ASSUME NEW x \in Sessions, NEW i \in DOMAIN pending'[x]
               PROVE  phase'[pending'[x][i]] = "queued" /\ session'[pending'[x][i]] = x
    BY DEF EntriesQueued
  <2>1. CASE x = s
    <3>1. i \in 1..(Len(pending[s]) - 1) /\ pending'[x][i] = pending[s][i + 1]
      BY <1>2, <1>3, <2>1
    <3>2. i + 1 \in DOMAIN pending[s] /\ pending[s][i + 1] \in Requests \ {next}
      BY <1>2, <1>8, <3>1
    <3>3. phase[pending[s][i + 1]] = "queued" /\ session[pending[s][i + 1]] = s
      BY <3>2 DEF QueueInv, EntriesQueued
    <3> QED BY <1>5, <2>1, <3>1, <3>2, <3>3
  <2>2. CASE x # s
    <3>1. i \in DOMAIN pending[x] /\ pending'[x][i] = pending[x][i]
      BY <1>3, <2>2
    <3>2. pending[x][i] \in Requests \ {next}
      BY <1>7, <2>2, <3>1
    <3>3. phase[pending[x][i]] = "queued" /\ session[pending[x][i]] = x
      BY <3>1 DEF QueueInv, EntriesQueued
    <3> QED BY <1>5, <3>1, <3>2, <3>3
  <2> QED BY <2>1, <2>2
<1>10. EntriesDistinct'
  <2>1. \A i, j \in DOMAIN Tail(pending[s]) : Tail(pending[s])[i] = Tail(pending[s])[j] => i = j
    <3> TAKE i, j \in DOMAIN Tail(pending[s])
    <3>1. /\ i + 1 \in DOMAIN pending[s] /\ j + 1 \in DOMAIN pending[s]
          /\ Tail(pending[s])[i] = pending[s][i + 1] /\ Tail(pending[s])[j] = pending[s][j + 1]
      BY <1>2
    <3>2. pending[s][i + 1] = pending[s][j + 1] => i + 1 = j + 1
      BY <3>1 DEF QueueInv, EntriesDistinct
    <3> QED BY <1>2, <3>1, <3>2
  <2> QED BY <1>3, <2>1 DEF QueueInv, EntriesDistinct
<1>11. QueuedEntered'
  <2> SUFFICES ASSUME NEW q \in Requests, phase'[q] = "queued"
               PROVE  /\ session[q] \in Sessions
                      /\ \E i \in DOMAIN pending'[session[q]] : pending'[session[q]][i] = q
    BY DEF QueuedEntered
  <2>1. phase[q] = "queued" /\ q # next
    BY <1>6
  <2>2. session[q] \in Sessions
        /\ \E i \in DOMAIN pending[session[q]] : pending[session[q]][i] = q
    BY <2>1 DEF QueueInv, QueuedEntered
  <2>3. CASE session[q] # s
    BY <1>3, <2>2, <2>3
  <2>4. CASE session[q] = s
    <3>1. PICK i \in DOMAIN pending[s] : pending[s][i] = q
      BY <2>2, <2>4
    <3>2. i # 1 /\ i \in 1..Len(pending[s])
      BY <1>2, <2>1, <3>1
    <3>3. i - 1 \in 1..(Len(pending[s]) - 1) /\ (i - 1) + 1 = i
      BY <1>2, <3>2
    <3>4. i - 1 \in DOMAIN Tail(pending[s]) /\ Tail(pending[s])[i - 1] = q
      BY <1>2, <3>1, <3>3
    <3> QED BY <1>3, <2>4, <3>4
  <2> QED BY <2>3, <2>4
<1>12. Capped'
  <2>1. MaxPending \in Nat /\ Len(pending[s]) <= MaxPending
    BY DEF LaneAssumption, QueueInv, Capped
  <2> QED BY <1>2, <1>3, <2>1 DEF QueueInv, Capped
<1> QED BY <1>9, <1>10, <1>11, <1>12

LEMMA AppendKeepsQueues ==
  ASSUME LaneAssumption, QueueInv, NEW r \in Requests, NEW s \in Sessions,
         phase[r] = "unsent", ~LaneFull(s), LaneEnqueue(r, s),
         phase' = [phase EXCEPT ![r] = "queued"], session' = [session EXCEPT ![r] = s]
  PROVE  EntriesQueued' /\ EntriesDistinct' /\ QueuedEntered' /\ Capped'
<1> DEFINE n == Len(pending[s])
<1>1. /\ pending \in [Sessions -> Seq(Requests)] /\ phase \in [Requests -> Phases]
      /\ session \in [Requests -> Sessions \cup {NoSession}]
      /\ pending[s] \in Seq(Requests) /\ n \in Nat /\ DOMAIN pending[s] = 1..n
  BY DEF QueueInv, TypeOK
<1>2. /\ DOMAIN pending'[s] = 1..(n + 1) /\ Len(pending'[s]) = n + 1
      /\ pending'[s][n + 1] = r
      /\ \A i \in 1..n : pending'[s][i] = pending[s][i]
      /\ \A x \in Sessions : x # s => pending'[x] = pending[x]
  BY <1>1 DEF LaneEnqueue
<1>3. \A x \in Sessions : \A i \in DOMAIN pending[x] :
         /\ pending[x][i] \in Requests \ {r}
         /\ phase'[pending[x][i]] = "queued" /\ session'[pending[x][i]] = x
  <2> TAKE x \in Sessions
  <2>1. pending[x] \in Seq(Requests)
    BY <1>1
  <2> TAKE i \in DOMAIN pending[x]
  <2>2. pending[x][i] \in Requests /\ phase[pending[x][i]] = "queued" /\ session[pending[x][i]] = x
    BY <2>1 DEF QueueInv, EntriesQueued
  <2> QED BY <1>1, <2>2
<1>4. phase'[r] = "queued" /\ session'[r] = s
  BY <1>1
<1>5. EntriesQueued'
  <2>1. \A i \in DOMAIN pending'[s] : phase'[pending'[s][i]] = "queued" /\ session'[pending'[s][i]] = s
    <3> TAKE i \in DOMAIN pending'[s]
    <3>1. i = n + 1 \/ i \in 1..n
      BY <1>1, <1>2
    <3> QED BY <1>1, <1>2, <1>3, <1>4, <3>1
  <2>2. ASSUME NEW x \in Sessions, x # s, NEW i \in DOMAIN pending'[x]
        PROVE  phase'[pending'[x][i]] = "queued" /\ session'[pending'[x][i]] = x
    <3>1. pending'[x] = pending[x]
      BY <1>2, <2>2
    <3> QED BY <1>3, <2>2, <3>1
  <2> QED BY <2>1, <2>2 DEF EntriesQueued
<1>6. EntriesDistinct'
  <2>1. \A i, j \in DOMAIN pending'[s] : pending'[s][i] = pending'[s][j] => i = j
    <3> TAKE i, j \in DOMAIN pending'[s]
    <3>1. (i = n + 1 \/ i \in 1..n) /\ (j = n + 1 \/ j \in 1..n)
      BY <1>1, <1>2
    <3>2. CASE i \in 1..n /\ j \in 1..n
      BY <1>1, <1>2, <3>2 DEF QueueInv, EntriesDistinct
    <3>3. CASE i = n + 1 \/ j = n + 1
      BY <1>1, <1>2, <1>3, <3>1, <3>3
    <3> QED BY <3>1, <3>2, <3>3
  <2> QED BY <1>2, <2>1 DEF QueueInv, EntriesDistinct
<1>7. QueuedEntered'
  <2> SUFFICES ASSUME NEW q \in Requests, phase'[q] = "queued"
               PROVE  /\ session'[q] \in Sessions
                      /\ \E i \in DOMAIN pending'[session'[q]] : pending'[session'[q]][i] = q
    BY DEF QueuedEntered
  <2>1. CASE q = r
    BY <1>1, <1>2, <1>4, <2>1
  <2>2. CASE q # r
    <3>1. phase[q] = "queued" /\ session'[q] = session[q]
      BY <1>1, <2>2
    <3>2. PICK i \in DOMAIN pending[session[q]] : pending[session[q]][i] = q
      BY <3>1 DEF QueueInv, QueuedEntered
    <3>3. session[q] \in Sessions
      BY <3>1 DEF QueueInv, QueuedEntered
    <3>4. i \in DOMAIN pending'[session[q]] /\ pending'[session[q]][i] = q
      <4>1. CASE session[q] = s
        <5>1. i \in 1..n /\ i \in 1..(n + 1)
          BY <1>1, <3>2, <4>1
        <5> QED BY <1>2, <3>2, <4>1, <5>1
      <4>2. CASE session[q] # s
        BY <1>2, <3>2, <3>3, <4>2
      <4> QED BY <4>1, <4>2
    <3> QED BY <3>1, <3>3, <3>4
  <2> QED BY <2>1, <2>2
<1>8. Capped'
  <2>1. MaxPending \in Nat /\ n < MaxPending
    BY <1>1 DEF LaneAssumption, LaneFull
  <2>2. Len(pending'[s]) <= MaxPending
    <3> HIDE DEF n
    <3> QED BY <1>1, <1>2, <2>1
  <2>3. \A x \in Sessions : x # s => Len(pending'[x]) <= MaxPending
    <3>1. \A x \in Sessions : Len(pending[x]) <= MaxPending
      BY DEF QueueInv, Capped
    <3> QED BY <1>2, <3>1
  <2> QED BY <2>2, <2>3 DEF Capped
<1> QED BY <1>5, <1>6, <1>7, <1>8

LEMMA QueueInvNext == LaneAssumption /\ QueueInv /\ [Next]_vars => QueueInv'
<1> SUFFICES ASSUME LaneAssumption, QueueInv, [Next]_vars PROVE QueueInv'
  OBVIOUS
<1>0. TypeOK /\ TypeOK'
  BY TypeOKNext DEF QueueInv
<1> SUFFICES EntriesQueued' /\ EntriesDistinct' /\ QueuedEntered' /\ Capped'
  BY <1>0 DEF QueueInv
<1>1. CASE UNCHANGED <<pending, phase, session>>
  BY <1>1, QueuesAlone
<1>2. ASSUME NEW r \in Requests, NEW s \in Sessions, NEW c \in Conns, Arrives(r, s, c),
             NEW p \in Phases \ {"queued"}, phase' = [phase EXCEPT ![r] = p], pending' = pending
      PROVE  EntriesQueued' /\ EntriesDistinct' /\ QueuedEntered' /\ Capped'
  <2>1. \A q \in Requests :
           /\ phase[q] = "queued" => phase'[q] = "queued" /\ session'[q] = session[q]
           /\ phase'[q] = "queued" => phase[q] = "queued"
    BY <1>0, <1>2 DEF Arrives, TypeOK
  <2> QED BY <1>2, <2>1, QueuesAlone
<1>3. ASSUME NEW r \in Requests, NEW s \in Sessions, NEW c \in Conns, ChatSendBusy(r, s, c)
      PROVE  EntriesQueued' /\ EntriesDistinct' /\ QueuedEntered' /\ Capped'
  <2>1. Arrives(r, s, c) /\ phase[r] = "unsent" /\ session' = [session EXCEPT ![r] = s]
    BY <1>3 DEF ChatSendBusy, Arrives
  <2>2. CASE ~LaneFull(s) /\ LaneEnqueue(r, s) /\ phase' = [phase EXCEPT ![r] = "queued"]
    BY <2>1, <2>2, AppendKeepsQueues
  <2>3. CASE phase' = [phase EXCEPT ![r] = "queue_full"] /\ UNCHANGED pending
    <3>1. "queue_full" \in Phases \ {"queued"}
      BY DEF Phases
    <3> QED BY <1>2, <2>1, <2>3, <3>1
  <2> QED BY <1>3, <2>2, <2>3 DEF ChatSendBusy
<1>4. ASSUME NEW r \in Requests, NEW s \in Sessions, NEW c \in Conns,
             ChatSendFree(r, s, c) \/ NodeRequest(r, s, c)
      PROVE  EntriesQueued' /\ EntriesDistinct' /\ QueuedEntered' /\ Capped'
  <2>1. /\ Arrives(r, s, c) /\ pending' = pending
        /\ \E p \in {"starting", "in_flight"} : phase' = [phase EXCEPT ![r] = p]
    BY <1>4 DEF ChatSendFree, NodeRequest
  <2>2. {"starting", "in_flight"} \subseteq Phases \ {"queued"}
    BY DEF Phases
  <2> QED BY <1>2, <2>1, <2>2
<1>5. ASSUME NEW r \in Requests, TaskStep(r)
      PROVE  EntriesQueued' /\ EntriesDistinct' /\ QueuedEntered' /\ Capped'
  <2>1. /\ session' = session /\ phase[r] # "queued"
        /\ \/ /\ pending' = pending
              /\ \E p \in {"running", "dead", "ended"} : phase' = [phase EXCEPT ![r] = p]
           \/ \E p \in {"announcing", "ended"}, st \in {"ok", "error", "aborted"},
                 s \in Sessions \cup {NoSession} : Complete(r, p, st, s)
    BY <1>0, <1>5, TaskStepCases
  <2>2. ASSUME NEW p \in Phases \ {"queued"}, phase' = [phase EXCEPT ![r] = p], pending' = pending
        PROVE  EntriesQueued' /\ EntriesDistinct' /\ QueuedEntered' /\ Capped'
    BY <1>0, <2>1, <2>2, QueuesAlone DEF TypeOK
  <2>3. {"running", "announcing", "dead", "ended"} \subseteq Phases \ {"queued"}
    BY DEF Phases
  <2>4. ASSUME NEW p \in {"announcing", "ended"}, NEW st \in {"ok", "error", "aborted"},
               NEW s \in Sessions \cup {NoSession}, Complete(r, p, st, s)
        PROVE  EntriesQueued' /\ EntriesDistinct' /\ QueuedEntered' /\ Capped'
    <3>1. st \in Statuses /\ p \in Phases \ {"queued"}
      BY <2>3 DEF Statuses
    <3>2. CASE Untriggered(r, p, st, s)
      BY <2>2, <3>1, <3>2 DEF Untriggered
    <3>3. CASE \E next \in Requests : Triggered(r, p, st, s, next)
      BY <2>1, <3>1, <3>3, PopKeepsQueues DEF Triggered
    <3> QED BY <1>0, <2>4, <3>1, <3>2, <3>3, CompleteCases
  <2> QED BY <2>1, <2>2, <2>3, <2>4
<1>6. ASSUME NEW run \in Abortable, ChatAbort(run) PROVE UNCHANGED <<pending, phase, session>>
  BY <1>6 DEF ChatAbort
<1>7. ASSUME NEW w \in Waiters, NEW run \in RunIds, AgentWait(w, run)
      PROVE  UNCHANGED <<pending, phase, session>>
  BY <1>7 DEF AgentWait
<1>8. ASSUME NEW w \in Waiters, WaiterResumes(w) \/ WaitTimesOut(w)
      PROVE  UNCHANGED <<pending, phase, session>>
  BY <1>8 DEF WaiterResumes, WaitTimesOut
<1>9. ASSUME NEW c \in Conns, Disconnect(c) PROVE UNCHANGED <<pending, phase, session>>
  BY <1>9 DEF Disconnect
<1>10. CASE UNCHANGED vars
  BY <1>1, <1>10 DEF vars
<1> QED BY <1>1, <1>3, <1>4, <1>5, <1>6, <1>7, <1>8, <1>9, <1>10 DEF Next

\* No accepted request is lost from its queue or entered twice, no queue outgrows the
\* cap: whatever ids are reused, completed twice, or cut off by a closed connection.
THEOREM QueuesAreSound == Spec => []QueueHoldsQueued
<1>1. Init => QueueInv
  BY LaneAssumption, TypeOKInit DEF Init, QueueInv, EntriesQueued, EntriesDistinct, QueuedEntered, Capped,
                    LaneAssumption
<1>2. QueueInv /\ [Next]_vars => QueueInv'
  BY LaneAssumption, QueueInvNext
<1> QED BY <1>1, <1>2, QueueInvImplies, PTL DEF Spec

-------------------------------------------------------------------------------
(* Lanes.  The record of a run id that one request alone uses stays blank     *)
(* until that request is registered, and while it runs it has that request's  *)
(* session; so whoever completes the job frees the very lane it holds.        *)
BlankBefore ==
  \A r \in Requests : UsedOnce(KeyOf[r]) /\ phase[r] \in {"unsent", "queued"} =>
     jobs[KeyOf[r]].status = "none"
RunsAtHome ==
  \A r \in Requests : UsedOnce(KeyOf[r]) /\ jobs[KeyOf[r]].status = "running" =>
     jobs[KeyOf[r]].session = session[r]

\* Whoever is named on a lane was registered there by a request of that session.
HoldersKnown ==
  \A s \in Sessions : lane[s] # NoRun =>
     \E r \in Requests : KeyOf[r] = lane[s] /\ session[r] = s /\ Begun(r)

LaneInv == QueueInv /\ JobHoldsLane /\ BlankBefore /\ RunsAtHome /\ HoldersKnown

\* Two dictionaries of run records and lanes that agree on every id used once.
InStep(jb, ln) ==
  \A i \in RunIds, x \in Sessions : UsedOnce(i) =>
     (ln[x] = i <=> jb[i].status = "running" /\ jb[i].session = x)

\* The registry right after a completion and before the lane is triggered.
LEMMA ReleasedTogether ==
  ASSUME LaneAssumption, LaneInv, NEW r \in Requests, NEW status \in {"ok", "error", "aborted"},
         NEW s \in Sessions \cup {NoSession}, s = OwnSession(r) \/ s = session[r]
  PROVE  /\ InStep(JobsCompleted(KeyOf[r], status, s), LaneReleased(KeyOf[r], s))
         /\ \A i \in RunIds : i # KeyOf[r] => JobsCompleted(KeyOf[r], status, s)[i] = jobs[i]
         /\ JobsCompleted(KeyOf[r], status, s)[KeyOf[r]].status = status
<1>1. /\ KeyOf[r] \in RunIds /\ jobs \in [RunIds -> [status : Statuses, session : Sessions \cup {NoSession}]]
      /\ lane \in [Sessions -> RunIds \cup {NoRun}] /\ NoRun \notin RunIds
  BY DEF LaneAssumption, LaneInv, QueueInv, TypeOK
<1>2. UsedOnce(KeyOf[r]) /\ jobs[KeyOf[r]].status = "running" => jobs[KeyOf[r]].session = s
  BY DEF LaneInv, RunsAtHome, OwnSession
<1>3. /\ \A i \in RunIds : i # KeyOf[r] => JobsCompleted(KeyOf[r], status, s)[i] = jobs[i]
      /\ JobsCompleted(KeyOf[r], status, s)[KeyOf[r]].status = status
      /\ status # "running"
  BY <1>1 DEF JobsCompleted
<1>4. \A x \in Sessions : LaneReleased(KeyOf[r], s)[x] =
                            IF x = s /\ lane[x] = KeyOf[r] THEN NoRun ELSE lane[x]
  BY DEF LaneReleased
<1>5. \A i \in RunIds, x \in Sessions : UsedOnce(i) =>
         (lane[x] = i <=> jobs[i].status = "running" /\ jobs[i].session = x)
  BY DEF LaneInv, JobHoldsLane
<1> DEFINE jb == JobsCompleted(KeyOf[r], status, s)
           ln == LaneReleased(KeyOf[r], s)
<1>6. ASSUME NEW i \in RunIds, NEW x \in Sessions, UsedOnce(i)
      PROVE  ln[x] = i <=> jb[i].status = "running" /\ jb[i].session = x
  <2>1. lane[x] = i <=> jobs[i].status = "running" /\ jobs[i].session = x
    BY <1>5, <1>6
  <2>2. CASE i # KeyOf[r]
    <3>1. jb[i] = jobs[i] /\ (ln[x] = i <=> lane[x] = i)
      BY <1>1, <1>3, <1>4, <2>2
    <3> QED BY <2>1, <3>1
  <2>3. CASE i = KeyOf[r]
    <3>1. jb[i].status # "running"
      BY <1>3, <2>3
    <3>2. lane[x] = i => x = s
      BY <1>2, <1>6, <2>1, <2>3
    <3>3. ln[x] # i
      BY <1>1, <1>4, <2>3, <3>2
    <3> QED BY <3>1, <3>3
  <2> QED BY <2>2, <2>3
<1> QED BY <1>3, <1>6 DEF InStep

\* Registering a run on a free lane, seen from any registry that is in step.
LEMMA TakenTogether ==
  ASSUME NEW jb \in [RunIds -> [status : Statuses, session : Sessions \cup {NoSession}]],
         NEW ln \in [Sessions -> RunIds \cup {NoRun}],
         NEW run \in RunIds, NEW s \in Sessions, NoRun \notin RunIds,
         CanRegister(jb, ln, run, s), InStep(jb, ln)
  PROVE  /\ InStep(JobsRegistered(jb, run, s), LaneTaken(ln, run, s))
         /\ \A i \in RunIds : i # run => JobsRegistered(jb, run, s)[i] = jb[i]
         /\ JobsRegistered(jb, run, s)[run].session = s
         /\ \A x \in Sessions : LaneTaken(ln, run, s)[x] = IF x = s THEN run ELSE ln[x]
<1>1. /\ \A i \in RunIds : i # run => JobsRegistered(jb, run, s)[i] = jb[i]
      /\ JobsRegistered(jb, run, s)[run] = [status |-> "running", session |-> s]
      /\ \A x \in Sessions : LaneTaken(ln, run, s)[x] = IF x = s THEN run ELSE ln[x]
  BY DEF JobsRegistered, LaneTaken
<1>2. ln[s] = NoRun /\ jb[run].status # "running"
  BY DEF CanRegister
<1>3. ASSUME NEW i \in RunIds, NEW x \in Sessions, UsedOnce(i)
      PROVE  LaneTaken(ln, run, s)[x] = i <=>
                JobsRegistered(jb, run, s)[i].status = "running" /\ JobsRegistered(jb, run, s)[i].session = x
  <2>1. ln[x] = i <=> jb[i].status = "running" /\ jb[i].session = x
    BY <1>3 DEF InStep
  <2>2. CASE i # run
    <3>1. JobsRegistered(jb, run, s)[i] = jb[i]
      BY <1>1, <2>2
    <3>2. LaneTaken(ln, run, s)[x] = i <=> ln[x] = i
      BY <1>1, <1>2, <2>2
    <3> QED BY <2>1, <3>1, <3>2
  <2>3. CASE i = run
    BY <1>1, <1>2, <2>1, <2>3
  <2> QED BY <2>2, <2>3
<1> QED BY <1>1, <1>3 DEF InStep

LEMMA CompleteKeepsLanes ==
  ASSUME LaneAssumption, LaneInv, NEW r \in Requests, NEW p \in {"announcing", "ended"},
         NEW status \in {"ok", "error", "aborted"}, NEW s \in Sessions \cup {NoSession},
         s = OwnSession(r) \/ s = session[r], phase[r] \notin {"unsent", "queued"},
         Complete(r, p, status, s), session' = session
  PROVE  JobHoldsLane' /\ BlankBefore' /\ RunsAtHome' /\ HoldersKnown'
<1> DEFINE jb == JobsCompleted(KeyOf[r], status, s)
           ln == LaneReleased(KeyOf[r], s)
<1>1. /\ TypeOK /\ status \in Statuses /\ p \in Phases /\ KeyOf[r] \in RunIds /\ NoRun \notin RunIds
      /\ \A q \in Requests : KeyOf[q] \in RunIds
  BY DEF LaneInv, QueueInv, Statuses, Phases, LaneAssumption
<1>2. /\ jb \in [RunIds -> [status : Statuses, session : Sessions \cup {NoSession}]]
      /\ ln \in [Sessions -> RunIds \cup {NoRun}]
  BY <1>1, CompletedTypes
<1>3. /\ InStep(jb, ln)
      /\ \A i \in RunIds : i # KeyOf[r] => jb[i] = jobs[i]
      /\ jb[KeyOf[r]].status # "running"
  BY ReleasedTogether
<1>4. \A q \in Requests : UsedOnce(KeyOf[q]) /\ q # r => KeyOf[q] # KeyOf[r]
  BY DEF UsedOnce
<1>5. /\ \A q \in Requests : UsedOnce(KeyOf[q]) /\ phase[q] \in {"unsent", "queued"} =>
            jobs[KeyOf[q]].status = "none"
      /\ \A q \in Requests : UsedOnce(KeyOf[q]) /\ jobs[KeyOf[q]].status = "running" =>
            jobs[KeyOf[q]].session = session[q]
      /\ \A x \in Sessions : lane[x] # NoRun =>
            \E q \in Requests : KeyOf[q] = lane[x] /\ session[q] = x /\ Begun(q)
  BY DEF LaneInv, BlankBefore, RunsAtHome, HoldersKnown
<1>6. phase \in [Requests -> Phases]
  BY <1>1 DEF TypeOK
<1>7. \A x \in Sessions : ln[x] = lane[x] \/ ln[x] = NoRun
  BY DEF LaneReleased
<1>8. CASE Untriggered(r, p, status, s)
  <2>1. jobs' = jb /\ lane' = ln /\ phase' = [phase EXCEPT ![r] = p]
    BY <1>8 DEF Untriggered, CompleteAgentJob
  <2>2. \A q \in Requests : /\ phase'[q] \in {"unsent", "queued"} =>
                                 q # r /\ phase[q] \in {"unsent", "queued"}
                            /\ Begun(q) => Begun(q)'
    BY <1>6, <2>1 DEF Begun
  <2> HIDE DEF jb, ln
  <2>3. JobHoldsLane' /\ BlankBefore' /\ RunsAtHome'
    BY <1>1, <1>3, <1>4, <1>5, <2>1, <2>2 DEF InStep, JobHoldsLane, BlankBefore, RunsAtHome
  <2>4. HoldersKnown'
    BY <1>5, <1>7, <2>1, <2>2 DEF HoldersKnown
  <2> QED BY <2>3, <2>4
<1>9. ASSUME NEW next \in Requests, Triggered(r, p, status, s, next)
      PROVE  JobHoldsLane' /\ BlankBefore' /\ RunsAtHome' /\ HoldersKnown'
  <2>1. /\ s \in Sessions /\ pending[s] # <<>> /\ next = Head(pending[s])
        /\ phase' = [phase EXCEPT ![r] = p, ![next] = "starting"]
    BY <1>9 DEF Triggered
  <2>2. phase[next] = "queued" /\ session[next] = s
    <3>1. pending[s] \in Seq(Requests)
      BY <1>1, <2>1 DEF TypeOK
    <3>2. 1 \in DOMAIN pending[s] /\ next = pending[s][1]
      BY <2>1, <3>1
    <3> QED BY <2>1, <3>2 DEF LaneInv, QueueInv, EntriesQueued
  <2>3. \A q \in Requests : /\ phase'[q] \in {"unsent", "queued"} =>
                                 q # r /\ q # next /\ phase[q] \in {"unsent", "queued"}
                            /\ Begun(q) => Begun(q)'
                            /\ q = next => Begun(q)'
    BY <1>6, <2>1 DEF Begun
  <2>4. \A q \in Requests : UsedOnce(KeyOf[q]) /\ q # next => KeyOf[q] # KeyOf[next]
    BY DEF UsedOnce
  <2>5. CASE jobs' = jb /\ lane' = ln
    <3> HIDE DEF jb, ln
    <3>1. JobHoldsLane' /\ BlankBefore' /\ RunsAtHome'
      BY <1>1, <1>3, <1>4, <1>5, <2>3, <2>5 DEF InStep, JobHoldsLane, BlankBefore, RunsAtHome
    <3>2. HoldersKnown'
      BY <1>5, <1>7, <2>3, <2>5 DEF HoldersKnown
    <3> QED BY <3>1, <3>2
  <2>6. CASE /\ CanRegister(jb, ln, KeyOf[next], s)
             /\ jobs' = JobsRegistered(jb, KeyOf[next], s)
             /\ lane' = LaneTaken(ln, KeyOf[next], s)
    <3> HIDE DEF jb, ln
    <3>1. /\ InStep(jobs', lane')
          /\ \A i \in RunIds : i # KeyOf[next] => jobs'[i] = jb[i]
          /\ jobs'[KeyOf[next]].session = s
          /\ \A x \in Sessions : lane'[x] = IF x = s THEN KeyOf[next] ELSE ln[x]
      BY <1>1, <1>2, <1>3, <2>1, <2>6, TakenTogether
    <3>2. JobHoldsLane'
      BY <3>1 DEF InStep, JobHoldsLane
    <3>3. BlankBefore'
      BY <1>1, <1>3, <1>4, <1>5, <2>3, <2>4, <3>1 DEF BlankBefore
    <3>4. RunsAtHome'
      <4> SUFFICES ASSUME NEW q \in Requests, UsedOnce(KeyOf[q]), jobs'[KeyOf[q]].status = "running"
                   PROVE  jobs'[KeyOf[q]].session = session[q]
        BY DEF RunsAtHome
      <4>1. CASE q = next
        BY <2>2, <3>1, <4>1
      <4>2. CASE q # next
        <5>1. KeyOf[q] \in RunIds /\ jobs'[KeyOf[q]] = jb[KeyOf[q]]
          BY <1>1, <2>4, <3>1, <4>2
        <5>2. KeyOf[q] # KeyOf[r]
          BY <1>3, <5>1
        <5> QED BY <1>3, <1>5, <5>1, <5>2
      <4> QED BY <4>1, <4>2
    <3>5. HoldersKnown'
      BY <1>5, <1>7, <2>2, <2>3, <3>1 DEF HoldersKnown
    <3> QED BY <3>2, <3>3, <3>4, <3>5
  <2> QED BY <1>9, <2>5, <2>6 DEF Triggered
<1> HIDE DEF jb, ln
<1> QED BY <1>1, <1>8, <1>9, CompleteCases

LEMMA LaneInvNext == LaneAssumption /\ LaneInv /\ [Next]_vars => LaneInv'
<1> SUFFICES ASSUME LaneAssumption, LaneInv, [Next]_vars PROVE LaneInv'
  OBVIOUS
<1>0. TypeOK /\ QueueInv'
  BY QueueInvNext DEF LaneInv, QueueInv
<1> SUFFICES JobHoldsLane' /\ BlankBefore' /\ RunsAtHome' /\ HoldersKnown'
  BY <1>0 DEF LaneInv
<1>1. ASSUME UNCHANGED <<jobs, lane, session>>,
             \A q \in Requests : /\ phase'[q] \in {"unsent", "queued"} => phase[q] \in {"unsent", "queued"}
                                 /\ Begun(q) => Begun(q)'
      PROVE  JobHoldsLane' /\ BlankBefore' /\ RunsAtHome' /\ HoldersKnown'
  BY <1>1 DEF LaneInv, JobHoldsLane, BlankBefore, RunsAtHome, HoldersKnown
<1>2. ASSUME NEW r \in Requests, NEW s \in Sessions, NEW c \in Conns, Arrives(r, s, c),
             NEW p \in {"queued", "queue_full", "starting", "in_flight"},
             phase' = [phase EXCEPT ![r] = p],
             \/ UNCHANGED <<jobs, lane>>
             \/ p = "starting" /\ CanRegister(jobs, lane, KeyOf[r], s) /\ Register(KeyOf[r], s)
      PROVE  JobHoldsLane' /\ BlankBefore' /\ RunsAtHome' /\ HoldersKnown'
  <2>1. /\ phase[r] = "unsent" /\ session' = [session EXCEPT ![r] = s]
        /\ KeyOf[r] \in RunIds /\ NoRun \notin RunIds
        /\ \A q \in Requests : KeyOf[q] \in RunIds
        /\ \A q \in Requests : UsedOnce(KeyOf[q]) /\ q # r => KeyOf[q] # KeyOf[r]
    BY <1>2 DEF Arrives, LaneAssumption, UsedOnce
  <2>2. /\ UsedOnce(KeyOf[r]) => jobs[KeyOf[r]].status = "none"
        /\ \A q \in Requests : UsedOnce(KeyOf[q]) /\ phase[q] \in {"unsent", "queued"} =>
              jobs[KeyOf[q]].status = "none"
        /\ \A q \in Requests : UsedOnce(KeyOf[q]) /\ jobs[KeyOf[q]].status = "running" =>
              jobs[KeyOf[q]].session = session[q]
        /\ \A x \in Sessions : lane[x] # NoRun =>
              \E q \in Requests : KeyOf[q] = lane[x] /\ session[q] = x /\ Begun(q)
        /\ InStep(jobs, lane)
    BY <2>1 DEF LaneInv, BlankBefore, RunsAtHome, HoldersKnown, JobHoldsLane, InStep
  <2>3. \A q \in Requests : /\ q # r => session'[q] = session[q] /\ phase'[q] = phase[q]
                            /\ q = r => session'[q] = s /\ phase'[q] = p
    BY <1>0, <1>2, <2>1 DEF TypeOK
  <2>4. \A q \in Requests : Begun(q) => q # r /\ Begun(q)'
    BY <2>1, <2>3 DEF Begun
  <2>5. CASE UNCHANGED <<jobs, lane>>
    <3>1. JobHoldsLane' /\ BlankBefore' /\ RunsAtHome'
      BY <2>1, <2>2, <2>3, <2>5 DEF InStep, JobHoldsLane, BlankBefore, RunsAtHome
    <3>2. HoldersKnown'
      BY <2>2, <2>3, <2>4, <2>5 DEF HoldersKnown
    <3> QED BY <3>1, <3>2
  <2>6. CASE p = "starting" /\ CanRegister(jobs, lane, KeyOf[r], s) /\ Register(KeyOf[r], s)
    <3>1. /\ jobs \in [RunIds -> [status : Statuses, session : Sessions \cup {NoSession}]]
          /\ lane \in [Sessions -> RunIds \cup {NoRun}]
          /\ CanRegister(jobs, lane, KeyOf[r], s)
          /\ jobs' = JobsRegistered(jobs, KeyOf[r], s) /\ lane' = LaneTaken(lane, KeyOf[r], s)
      BY <1>0, <2>6 DEF TypeOK, Register
    <3>2. /\ InStep(jobs', lane')
          /\ \A i \in RunIds : i # KeyOf[r] => jobs'[i] = jobs[i]
          /\ jobs'[KeyOf[r]].session = s
          /\ \A x \in Sessions : lane'[x] = IF x = s THEN KeyOf[r] ELSE lane[x]
      BY <2>1, <2>2, <3>1, TakenTogether
    <3>3. JobHoldsLane'
      BY <3>2 DEF InStep, JobHoldsLane
    <3>4. BlankBefore'
      BY <2>1, <2>2, <2>3, <2>6, <3>2 DEF BlankBefore
    <3>5. RunsAtHome'
      BY <2>1, <2>2, <2>3, <3>2 DEF RunsAtHome
    <3>6. HoldersKnown'
      <4>1. Begun(r)' /\ session'[r] = s
        BY <2>3, <2>6 DEF Begun
      <4> QED BY <2>2, <2>3, <2>4, <3>2, <4>1 DEF HoldersKnown
    <3> QED BY <3>3, <3>4, <3>5, <3>6
  <2> QED BY <1>2, <2>5, <2>6
<1>3. ASSUME NEW r \in Requests, NEW s \in Sessions, NEW c \in Conns,
             ChatSendBusy(r, s, c) \/ ChatSendFree(r, s, c) \/ NodeRequest(r, s, c)
      PROVE  JobHoldsLane' /\ BlankBefore' /\ RunsAtHome' /\ HoldersKnown'
  <2>1. \E p \in {"queued", "queue_full", "starting", "in_flight"} :
           /\ Arrives(r, s, c)
           /\ phase' = [phase EXCEPT ![r] = p]
           /\ \/ UNCHANGED <<jobs, lane>>
              \/ p = "starting" /\ CanRegister(jobs, lane, KeyOf[r], s) /\ Register(KeyOf[r], s)
    BY <1>3 DEF ChatSendBusy, ChatSendFree, NodeRequest
  <2> QED BY <1>2, <2>1
<1>4. ASSUME NEW r \in Requests, TaskStep(r)
      PROVE  JobHoldsLane' /\ BlankBefore' /\ RunsAtHome' /\ HoldersKnown'
  <2>1. /\ session' = session /\ phase[r] \notin {"unsent", "queued"}
        /\ \/ /\ UNCHANGED <<jobs, lane>>
              /\ \E p \in {"running", "dead", "ended"} : phase' = [phase EXCEPT ![r] = p]
           \/ \E p \in {"announcing", "ended"}, st \in {"ok", "error", "aborted"},
                 s \in Sessions \cup {NoSession} :
                 Complete(r, p, st, s) /\ (s = OwnSession(r) \/ s = session[r])
    BY <1>0, <1>4, TaskStepCases
  <2>2. CASE /\ UNCHANGED <<jobs, lane>>
             /\ \E p \in {"running", "dead", "ended"} : phase' = [phase EXCEPT ![r] = p]
    <3>1. \A q \in Requests : /\ phase'[q] \in {"unsent", "queued"} => phase[q] \in {"unsent", "queued"}
                              /\ Begun(q) => Begun(q)'
      BY <1>0, <2>2 DEF TypeOK, Begun
    <3> QED BY <1>1, <2>1, <2>2, <3>1
  <2> QED BY <2>1, <2>2, CompleteKeepsLanes
<1>5. ASSUME NEW run \in Abortable, ChatAbort(run) PROVE UNCHANGED <<jobs, lane, session, phase>>
  BY <1>5 DEF ChatAbort
<1>6. ASSUME NEW w \in Waiters, NEW run \in RunIds, AgentWait(w, run)
      PROVE  UNCHANGED <<jobs, lane, session, phase>>
  BY <1>6 DEF AgentWait, registry
<1>7. ASSUME NEW w \in Waiters, WaiterResumes(w) \/ WaitTimesOut(w)
      PROVE  UNCHANGED <<jobs, lane, session, phase>>
  BY <1>7 DEF WaiterResumes, WaitTimesOut, registry
<1>8. ASSUME NEW c \in Conns, Disconnect(c) PROVE UNCHANGED <<jobs, lane, session, phase>>
  BY <1>8 DEF Disconnect, registry
<1>9. CASE UNCHANGED <<jobs, lane, session, phase>>
  BY <1>1, <1>9 DEF Begun
<1>10. CASE UNCHANGED vars
  BY <1>9, <1>10 DEF vars
<1> QED BY <1>3, <1>4, <1>5, <1>6, <1>7, <1>8, <1>9, <1>10 DEF Next

LEMMA LaneInvInit == LaneAssumption => (Init => LaneInv)
BY TypeOKInit DEF Init, LaneInv, QueueInv, EntriesQueued, EntriesDistinct, QueuedEntered, Capped,
                  LaneAssumption, JobHoldsLane, BlankBefore, RunsAtHome, HoldersKnown

\* For every run id that one request alone uses the lanes and the run records agree,
\* whatever other requests share, and with node requests, closed connections, aborts and
\* jobs completed twice.
THEOREM LanesAgree == Spec => []JobHoldsLane
<1>1. Init => LaneInv
  BY LaneAssumption, LaneInvInit
<1>2. LaneInv /\ [Next]_vars => LaneInv'
  BY LaneAssumption, LaneInvNext
<1>3. LaneInv => JobHoldsLane
  BY DEF LaneInv
<1> QED BY <1>1, <1>2, <1>3, PTL DEF Spec

-------------------------------------------------------------------------------
(* One run per session.  It needs fresh ids and more: a connection that       *)
(* closes, a trace that cannot be stored or a node request breaks it (see the *)
(* run lane_overlap).  Without them every executing task holds its lane.      *)
FreshIds == \A r, q \in Requests : KeyOf[r] = KeyOf[q] => r = q

LEMMA FreshUsedOnce == FreshIds => \A i : UsedOnce(i)
BY DEF FreshIds, UsedOnce

Reliable == NodeRequests = {} /\ Unreliable = {} /\ ~TraceMayFail

EmittersOpen ==
  /\ open = Conns
  /\ \A r \in Requests : phase[r] \notin {"unsent", "queued"} => emitter[r] \in Conns
HoldersExecute ==
  \A r \in Requests : Executing(r) => session[r] \in Sessions /\ lane[session[r]] = KeyOf[r]

ReliableInv == LaneInv /\ EmittersOpen /\ HoldersExecute

LEMMA CompleteKeepsHolders ==
  ASSUME LaneAssumption, FreshIds, ReliableInv, NEW r \in Requests,
         NEW p \in {"announcing", "ended"}, NEW status \in {"ok", "error", "aborted"},
         NEW s \in Sessions \cup {NoSession}, s = OwnSession(r) \/ s = session[r],
         phase[r] = "running", Complete(r, p, status, s), session' = session, open' = open
  PROVE  EmittersOpen' /\ HoldersExecute'
<1> DEFINE jb == JobsCompleted(KeyOf[r], status, s)
           ln == LaneReleased(KeyOf[r], s)
<1>1. /\ TypeOK /\ status \in Statuses /\ p \in Phases /\ KeyOf[r] \in RunIds /\ NoRun \notin RunIds
      /\ \A q \in Requests : KeyOf[q] \in RunIds
      /\ \A q \in Requests : q # r => KeyOf[q] # KeyOf[r]
      /\ phase \in [Requests -> Phases]
  BY DEF ReliableInv, LaneInv, QueueInv, Statuses, Phases, LaneAssumption, FreshIds, TypeOK
<1>2. session[r] \in Sessions /\ lane[session[r]] = KeyOf[r]
  BY DEF ReliableInv, HoldersExecute, Executing
<1>3. s = session[r]
  <2>1. jobs[KeyOf[r]].status = "running" /\ jobs[KeyOf[r]].session = session[r]
    BY <1>1, <1>2, FreshUsedOnce DEF ReliableInv, LaneInv, JobHoldsLane
  <2> QED BY <2>1 DEF OwnSession
<1>4. \A x \in Sessions : ln[x] = IF x = s THEN NoRun ELSE lane[x]
  BY <1>2, <1>3, <1>1 DEF LaneReleased, ReliableInv, LaneInv, JobHoldsLane
<1>5. \A q \in Requests : q # r /\ Executing(q) =>
         session[q] \in Sessions /\ session[q] # s /\ lane[session[q]] = KeyOf[q]
  BY <1>1, <1>2, <1>3 DEF ReliableInv, HoldersExecute
<1>6. emitter[r] \in Conns /\ open = Conns
  BY DEF ReliableInv, EmittersOpen
<1>7. CASE Untriggered(r, p, status, s)
  <2>1. lane' = ln /\ phase' = [phase EXCEPT ![r] = p] /\ emitter' = emitter
    BY <1>7 DEF Untriggered, CompleteAgentJob
  <2>2. \A q \in Requests : Executing(q)' => q # r /\ Executing(q)
    BY <1>1, <2>1 DEF Executing
  <2> HIDE DEF jb, ln
  <2>3. HoldersExecute'
    BY <1>4, <1>5, <2>1, <2>2 DEF HoldersExecute
  <2>4. EmittersOpen'
    BY <1>1, <1>6, <2>1 DEF ReliableInv, EmittersOpen
  <2> QED BY <2>3, <2>4
<1>8. ASSUME NEW next \in Requests, Triggered(r, p, status, s, next)
      PROVE  EmittersOpen' /\ HoldersExecute'
  <2>1. /\ s \in Sessions /\ pending[s] # <<>> /\ next = Head(pending[s])
        /\ phase' = [phase EXCEPT ![r] = p, ![next] = "starting"]
        /\ emitter' = [emitter EXCEPT ![next] = emitter[r]]
    BY <1>8 DEF Triggered
  <2>2. phase[next] = "queued" /\ session[next] = s
    <3>1. pending[s] \in Seq(Requests)
      BY <1>1, <2>1 DEF TypeOK
    <3>2. 1 \in DOMAIN pending[s] /\ next = pending[s][1]
      BY <2>1, <3>1
    <3> QED BY <2>1, <3>2 DEF ReliableInv, LaneInv, QueueInv, EntriesQueued
  <2>3. next # r /\ KeyOf[next] # KeyOf[r] /\ KeyOf[next] \in RunIds
    BY <1>1, <2>2
  <2>4. CanRegister(jb, ln, KeyOf[next], s)
    <3>1. jobs[KeyOf[next]].status = "none"
      BY <2>2, FreshUsedOnce DEF ReliableInv, LaneInv, BlankBefore
    <3>2. jb[KeyOf[next]] = jobs[KeyOf[next]]
      BY <1>1, <2>3 DEF JobsCompleted, TypeOK
    <3> HIDE DEF jb, ln
    <3> QED BY <1>4, <2>1, <3>1, <3>2 DEF CanRegister
  <2>5. lane' = LaneTaken(ln, KeyOf[next], s)
    BY <1>8, <2>4 DEF Triggered
  <2>6. \A x \in Sessions : lane'[x] = IF x = s THEN KeyOf[next] ELSE lane[x]
    <3>1. ln \in [Sessions -> RunIds \cup {NoRun}]
      BY <1>1, CompletedTypes
    <3> HIDE DEF ln
    <3> QED BY <1>4, <2>5, <3>1 DEF LaneTaken
  <2>7. \A q \in Requests : Executing(q)' => q = next \/ (q # r /\ Executing(q))
    BY <1>1, <2>1 DEF Executing
  <2> HIDE DEF jb, ln
  <2>8. HoldersExecute'
    BY <1>5, <2>1, <2>2, <2>6, <2>7 DEF HoldersExecute
  <2>9. EmittersOpen'
    BY <1>1, <1>6, <2>1, <2>2 DEF ReliableInv, EmittersOpen, TypeOK
  <2> QED BY <2>8, <2>9
<1> HIDE DEF jb, ln
<1> QED BY <1>1, <1>7, <1>8, CompleteCases

LEMMA ReliableInvNext ==
  LaneAssumption /\ FreshIds /\ Reliable /\ ReliableInv /\ [Next]_vars => ReliableInv'
<1> SUFFICES ASSUME LaneAssumption, FreshIds, Reliable, ReliableInv, [Next]_vars
             PROVE  ReliableInv'
  OBVIOUS
<1>0. TypeOK /\ LaneInv'
  BY LaneInvNext DEF ReliableInv, LaneInv, QueueInv
<1> SUFFICES EmittersOpen' /\ HoldersExecute'
  BY <1>0 DEF ReliableInv
<1>1. CASE UNCHANGED <<lane, session, phase, emitter, open>>
  BY <1>1 DEF ReliableInv, EmittersOpen, HoldersExecute, Executing
<1>2. ASSUME NEW r \in Requests, NEW s \in Sessions, NEW c \in Conns,
             ChatSendBusy(r, s, c) \/ ChatSendFree(r, s, c) \/ NodeRequest(r, s, c)
      PROVE  EmittersOpen' /\ HoldersExecute'
  <2>1. /\ phase[r] = "unsent" /\ session' = [session EXCEPT ![r] = s]
        /\ emitter' = [emitter EXCEPT ![r] = c] /\ open' = open
        /\ \/ lane' = lane /\ \E p \in {"queued", "queue_full", "in_flight"} :
                                 phase' = [phase EXCEPT ![r] = p]
           \/ /\ lane[s] = NoRun /\ lane' = [lane EXCEPT ![s] = KeyOf[r]]
              /\ phase' = [phase EXCEPT ![r] = "starting"]
    BY <1>2 DEF ChatSendBusy, ChatSendFree, NodeRequest, Arrives, Register, LaneTaken,
                CanRegister, Reliable
  <2>2. /\ lane \in [Sessions -> RunIds \cup {NoRun}]
        /\ session \in [Requests -> Sessions \cup {NoSession}]
        /\ phase \in [Requests -> Phases] /\ emitter \in [Requests -> Conns \cup {NoConn}]
        /\ KeyOf \in [Requests -> RunIds] /\ NoRun \notin RunIds
    BY <1>0 DEF TypeOK, LaneAssumption
  <2>3. EmittersOpen'
    BY <2>1, <2>2 DEF ReliableInv, EmittersOpen
  <2>4. HoldersExecute'
    BY <2>1, <2>2 DEF ReliableInv, HoldersExecute, Executing
  <2> QED BY <2>3, <2>4
<1>3. ASSUME NEW r \in Requests, TaskStep(r) PROVE EmittersOpen' /\ HoldersExecute'
  <2>1. phase[r] = "announcing" => emitter[r] \in open /\ ~TraceMayFail
    BY DEF ReliableInv, EmittersOpen, Reliable
  <2>2. /\ session' = session /\ open' = open
        /\ \/ /\ lane' = lane /\ emitter' = emitter
              /\ phase[r] \in {"starting", "announcing"}
              /\ \E p \in {"running", "dead", "ended"} :
                    phase' = [phase EXCEPT ![r] = p] /\ (p = "running" => phase[r] = "starting")
           \/ /\ phase[r] = "running"
              /\ \E p \in {"announcing", "ended"}, st \in {"ok", "error", "aborted"},
                    s \in Sessions \cup {NoSession} :
                    Complete(r, p, st, s) /\ (s = OwnSession(r) \/ s = session[r])
    BY <1>0, <1>3, <2>1, TaskStepCases
  <2>3. CASE /\ lane' = lane /\ emitter' = emitter
             /\ phase[r] \in {"starting", "announcing"}
             /\ \E p \in {"running", "dead", "ended"} :
                   phase' = [phase EXCEPT ![r] = p] /\ (p = "running" => phase[r] = "starting")
    <3>1. phase \in [Requests -> Phases]
      BY <1>0 DEF TypeOK
    <3>2. \A q \in Requests : /\ Executing(q)' => Executing(q)
                              /\ phase'[q] \notin {"unsent", "queued"} =>
                                   phase[q] \notin {"unsent", "queued"}
      BY <2>3, <3>1 DEF Executing
    <3> QED BY <2>2, <2>3, <3>2 DEF ReliableInv, EmittersOpen, HoldersExecute
  <2> QED BY <2>2, <2>3, CompleteKeepsHolders
<1>4. ASSUME NEW run \in Abortable, ChatAbort(run)
      PROVE  UNCHANGED <<lane, session, phase, emitter, open>>
  BY <1>4 DEF ChatAbort
<1>5. ASSUME NEW w \in Waiters, NEW run \in RunIds, AgentWait(w, run)
      PROVE  UNCHANGED <<lane, session, phase, emitter, open>>
  BY <1>5 DEF AgentWait, registry
<1>6. ASSUME NEW w \in Waiters, WaiterResumes(w) \/ WaitTimesOut(w)
      PROVE  UNCHANGED <<lane, session, phase, emitter, open>>
  BY <1>6 DEF WaiterResumes, WaitTimesOut, registry
<1>7. ASSUME NEW c \in Conns, Disconnect(c) PROVE FALSE
  BY <1>7 DEF Disconnect, Reliable
<1>8. CASE UNCHANGED vars
  BY <1>1, <1>8 DEF vars
<1> QED BY <1>1, <1>2, <1>3, <1>4, <1>5, <1>6, <1>7, <1>8 DEF Next

\* While run ids are fresh, connections stay open, traces can be stored and no node
\* sends requests, no two tasks of one session ever execute together.
THEOREM OneAtATime == ASSUME FreshIds, Reliable PROVE Spec => []OneRunPerSession
<1>1. Init => ReliableInv
  BY LaneAssumption, LaneInvInit DEF Init, ReliableInv, EmittersOpen, HoldersExecute, Executing
<1>2. ReliableInv /\ [Next]_vars => ReliableInv'
  BY LaneAssumption, ReliableInvNext
<1>3. ReliableInv => OneRunPerSession
  BY DEF ReliableInv, HoldersExecute, OneRunPerSession, FreshIds
<1> QED BY <1>1, <1>2, <1>3, PTL DEF Spec

-------------------------------------------------------------------------------
(* Answers.  A run id that one request alone uses is blank until that request *)
(* starts, is not over before its agent is, and is over once agent.wait told  *)
(* anyone so; only its own task can then change its status again.             *)
Finished == {"ok", "error", "aborted"}

DoneIsOver == \A i \in RunIds : futures[i] = "done" => jobs[i].status \in Finished
AloneBlank ==
  \A r \in Requests : UsedOnce(KeyOf[r]) /\ phase[r] \in {"unsent", "queued"} =>
     jobs[KeyOf[r]].status = "none" /\ futures[KeyOf[r]] = "none"
AloneOpen ==
  \A r \in Requests : UsedOnce(KeyOf[r]) /\ Executing(r) =>
     jobs[KeyOf[r]].status \in {"none", "running"}

\* What excuses a changed answer: the trace store, or the task's closed connection.
Excused(i) == TraceMayFail \/ \E r \in Requests : KeyOf[r] = i /\ emitter[r] \notin open

ToldIsTrue ==
  \A w \in Waiters : waiter[w].state \in {"woken", "answered"} =>
     /\ waiter[w].run \in RunIds
     /\ UsedOnce(waiter[w].run) =>
          /\ jobs[waiter[w].run].status \in Finished
          /\ jobs[waiter[w].run].status = waiter[w].seen \/ Excused(waiter[w].run)

AnswerInv == WaiterInv /\ QueueInv /\ DoneIsOver /\ AloneBlank /\ AloneOpen /\ ToldIsTrue

LEMMA AnswerInvImplies == AnswerInv => AnswerIsFinal
BY DEF AnswerInv, ToldIsTrue, AnswerIsFinal, UsedOnce, Excused

\* An excuse lasts once its request has started: its emitter no longer changes and a
\* closed connection stays closed.
LEMMA ExcuseLasts ==
  ASSUME AnswerInv, NEW i \in RunIds, UsedOnce(i), jobs[i].status \in Finished, Excused(i),
         open' \subseteq open,
         \A q \in Requests : phase[q] \notin {"unsent", "queued"} => emitter'[q] = emitter[q]
  PROVE  Excused(i)'
<1>1. CASE TraceMayFail
  BY <1>1 DEF Excused
<1>2. CASE \E r \in Requests : KeyOf[r] = i /\ emitter[r] \notin open
  <2>1. PICK r \in Requests : KeyOf[r] = i /\ emitter[r] \notin open
    BY <1>2
  <2>2. phase[r] \notin {"unsent", "queued"}
    BY <2>1 DEF AnswerInv, AloneBlank, Finished
  <2> QED BY <2>1, <2>2 DEF Excused
<1> QED BY <1>1, <1>2 DEF Excused

\* A step in which the records of the finished runs of lone requests stay what they are.
LEMMA ToldAlone ==
  ASSUME AnswerInv, open' \subseteq open,
         \A q \in Requests : phase[q] \notin {"unsent", "queued"} => emitter'[q] = emitter[q],
         \A i \in RunIds : UsedOnce(i) /\ jobs[i].status \in Finished => jobs'[i].status = jobs[i].status,
         \A w \in Waiters : waiter'[w].state \in {"woken", "answered"} =>
            /\ waiter[w].state \in {"woken", "answered"}
            /\ waiter'[w].run = waiter[w].run /\ waiter'[w].seen = waiter[w].seen
  PROVE  ToldIsTrue'
<1> SUFFICES ASSUME NEW w \in Waiters, waiter'[w].state \in {"woken", "answered"},
                    NEW i, i = waiter'[w].run
             PROVE  /\ i \in RunIds
                    /\ UsedOnce(i) => /\ jobs'[i].status \in Finished
                                      /\ jobs'[i].status = waiter'[w].seen \/ Excused(i)'
  BY DEF ToldIsTrue, Excused, UsedOnce
<1>1. /\ waiter[w].run = i /\ waiter'[w].seen = waiter[w].seen /\ i \in RunIds
      /\ UsedOnce(i) => /\ jobs[i].status \in Finished
                        /\ jobs[i].status = waiter[w].seen \/ Excused(i)
  BY DEF AnswerInv, ToldIsTrue
<1>2. CASE UsedOnce(i)
  <2>1. jobs'[i].status = jobs[i].status /\ jobs[i].status \in Finished
    BY <1>1, <1>2
  <2>2. Excused(i) => Excused(i)'
    BY <1>1, <1>2, <2>1, ExcuseLasts
  <2> QED BY <1>1, <1>2, <2>1, <2>2
<1> QED BY <1>1, <1>2

\* Only the status of the completing run becomes another, and a run that was over
\* before it is completed again has its excuse.
LEMMA CompleteKeepsAnswers ==
  ASSUME LaneAssumption, AnswerInv, NEW r \in Requests, NEW p \in {"announcing", "ended"},
         NEW status \in {"ok", "error", "aborted"}, NEW s \in Sessions \cup {NoSession},
         phase[r] = "running" \/ (phase[r] = "announcing" /\ (emitter[r] \notin open \/ TraceMayFail)),
         Complete(r, p, status, s), session' = session, open' = open
  PROVE  DoneIsOver' /\ AloneBlank' /\ AloneOpen' /\ ToldIsTrue'
<1> DEFINE run == KeyOf[r]
           jb == JobsCompleted(run, status, s)
           ft == FutureResolved(run)
           wt == WaitersWoken(run, status)
<1>1. /\ TypeOK /\ status \in Statuses /\ p \in Phases /\ run \in RunIds /\ status \in Finished
      /\ \A q \in Requests : KeyOf[q] \in RunIds
      /\ phase \in [Requests -> Phases]
  BY DEF AnswerInv, QueueInv, Statuses, Phases, Finished, LaneAssumption, TypeOK
<1>2. /\ \A i \in RunIds : i # run => jb[i] = jobs[i] /\ ft[i] = futures[i]
      /\ jb[run].status = status /\ ft[run] # "pending"
      /\ ft[run] = "none" => futures[run] = "none"
  BY <1>1 DEF JobsCompleted, FutureResolved, TypeOK
<1>3. \A w \in Waiters : wt[w].state \in {"woken", "answered"} =>
         \/ /\ waiter[w].state \in {"woken", "answered"} /\ wt[w] = waiter[w]
         \/ /\ waiter[w].state \in {"waiting", "woken"}
            /\ wt[w].run = waiter[w].run /\ waiter[w].run = run /\ wt[w].seen = status
  BY <1>1 DEF WaitersWoken, TypeOK
<1>4. jb \in [RunIds -> [status : Statuses, session : Sessions \cup {NoSession}]]
      /\ ft \in [RunIds -> {"none", "pending", "done", "cancelled"}]
  BY <1>1, CompletedTypes
\* Right after the completion, before the queue is looked at.
<1>5. ASSUME emitter' = emitter \/ \A q \in Requests : phase[q] \notin {"unsent", "queued"} => emitter'[q] = emitter[q],
             NEW i \in RunIds, UsedOnce(i), NEW w \in Waiters, wt[w].state \in {"woken", "answered"},
             wt[w].run = i
      PROVE  /\ jb[i].status \in Finished
             /\ jb[i].status = wt[w].seen \/ Excused(i)'
  <2>1. CASE wt[w].seen = status /\ i = run
    BY <1>1, <1>2, <2>1
  <2>2. CASE waiter[w].state \in {"woken", "answered"} /\ wt[w] = waiter[w]
    <3>1. jobs[i].status \in Finished /\ (jobs[i].status = waiter[w].seen \/ Excused(i))
      BY <1>5, <2>2 DEF AnswerInv, ToldIsTrue
    <3>2. Excused(i) => Excused(i)'
      BY <1>5, <3>1, ExcuseLasts
    <3>3. CASE i # run
      BY <1>2, <2>2, <3>1, <3>2, <3>3
    <3>4. CASE i = run
      <4>1. phase[r] # "running"
        BY <1>5, <3>1, <3>4 DEF AnswerInv, AloneOpen, Executing, Finished
      <4>2. Excused(i)
        BY <3>4, <4>1 DEF Excused
      <4> QED BY <1>1, <1>2, <3>2, <3>4, <4>2
    <3> QED BY <3>3, <3>4
  <2> QED BY <1>3, <1>5, <2>1, <2>2
<1>6. \A w \in Waiters : wt[w].state \in {"woken", "answered"} => wt[w].run \in RunIds
  BY <1>1, <1>3 DEF AnswerInv, ToldIsTrue
<1>7. CASE Untriggered(r, p, status, s)
  <2>1. /\ jobs' = jb /\ futures' = ft /\ waiter' = wt /\ emitter' = emitter
        /\ phase' = [phase EXCEPT ![r] = p]
    BY <1>7 DEF Untriggered, CompleteAgentJob
  <2>2. \A q \in Requests : q # r => phase'[q] = phase[q]
    BY <2>1, <1>1
  <2>3. phase'[r] = p
    BY <2>1, <1>1
  <2> HIDE DEF run, jb, ft, wt
  <2>4. DoneIsOver'
    BY <1>1, <1>2, <2>1 DEF AnswerInv, DoneIsOver
  <2>5. ASSUME NEW q \in Requests, UsedOnce(KeyOf[q]), phase'[q] \in {"unsent", "queued"} \/ Executing(q)'
        PROVE  q # r /\ KeyOf[q] # run /\ phase'[q] = phase[q]
    BY <2>2, <2>3, <2>5 DEF UsedOnce, Executing, run
  <2>6. AloneBlank'
    BY <1>1, <1>2, <2>1, <2>5 DEF AnswerInv, AloneBlank, UsedOnce
  <2>7. AloneOpen'
    <3>1. \A q \in Requests : UsedOnce(KeyOf[q]) /\ Executing(q)' =>
             Executing(q) /\ jobs'[KeyOf[q]] = jobs[KeyOf[q]]
      BY <1>1, <1>2, <2>1, <2>5 DEF Executing
    <3> QED BY <3>1 DEF AnswerInv, AloneOpen, UsedOnce
  <2>8. ToldIsTrue'
    BY <1>5, <1>6, <2>1 DEF ToldIsTrue, UsedOnce, Excused
  <2> QED BY <2>4, <2>6, <2>7, <2>8
<1>8. ASSUME NEW next \in Requests, Triggered(r, p, status, s, next)
      PROVE  DoneIsOver' /\ AloneBlank' /\ AloneOpen' /\ ToldIsTrue'
  <2> DEFINE key == KeyOf[next]
  <2>1. /\ s \in Sessions /\ pending[s] # <<>> /\ next = Head(pending[s])
        /\ phase' = [phase EXCEPT ![r] = p, ![next] = "starting"]
        /\ emitter' = [emitter EXCEPT ![next] = emitter[r]]
        /\ waiter' = wt
    BY <1>8 DEF Triggered
  <2>2. phase[next] = "queued"
    <3>1. pending[s] \in Seq(Requests)
      BY <1>1, <2>1 DEF TypeOK
    <3>2. 1 \in DOMAIN pending[s] /\ next = pending[s][1]
      BY <2>1, <3>1
    <3> QED BY <2>1, <3>2 DEF AnswerInv, QueueInv, EntriesQueued
  <2>3. next # r /\ key \in RunIds
    BY <1>1, <2>2
  <2>4. /\ \A q \in Requests : q # r /\ q # next => phase'[q] = phase[q]
        /\ phase'[r] = p /\ phase'[next] = "starting"
    BY <1>1, <2>1, <2>3
  <2>5. \A q \in Requests : phase[q] \notin {"unsent", "queued"} => emitter'[q] = emitter[q]
    BY <1>1, <2>1, <2>2 DEF TypeOK
  <2>6. \/ jobs' = jb /\ futures' = ft
        \/ jobs' = JobsRegistered(jb, key, s) /\ futures' = FutureCreated(ft, key)
    BY <1>8 DEF Triggered
  <2> HIDE DEF run, jb, ft, wt, key
  <2>7. /\ \A i \in RunIds : i # key => jobs'[i] = jb[i] /\ futures'[i] = ft[i]
        /\ \/ jobs'[key].status = "running" /\ futures'[key] = "pending"
           \/ jobs'[key] = jb[key] /\ futures'[key] = ft[key]
    BY <1>4, <2>3, <2>6 DEF JobsRegistered, FutureCreated
  <2>8. UsedOnce(key) => /\ key # run /\ jb[key] = jobs[key]
                         /\ jobs[key].status = "none" /\ futures[key] = "none"
    <3> SUFFICES ASSUME UsedOnce(key)
                 PROVE  key # run /\ jb[key] = jobs[key]
                        /\ jobs[key].status = "none" /\ futures[key] = "none"
      OBVIOUS
    <3>1. key # run
      BY <2>3 DEF UsedOnce, key, run
    <3>2. jobs[key].status = "none" /\ futures[key] = "none"
      BY <2>2 DEF AnswerInv, AloneBlank, key
    <3> QED BY <1>2, <2>3, <3>1, <3>2
  <2>9. DoneIsOver'
    BY <1>1, <1>2, <2>7 DEF AnswerInv, DoneIsOver
  <2>10. ASSUME NEW q \in Requests, UsedOnce(KeyOf[q]), q # next,
                phase'[q] \in {"unsent", "queued"} \/ Executing(q)'
         PROVE  /\ q # r /\ KeyOf[q] # run /\ KeyOf[q] # key /\ phase'[q] = phase[q]
                /\ jobs'[KeyOf[q]] = jobs[KeyOf[q]] /\ futures'[KeyOf[q]] = futures[KeyOf[q]]
    <3>1. q # r /\ phase'[q] = phase[q]
      BY <2>4, <2>10 DEF Executing
    <3>2. KeyOf[q] # run /\ KeyOf[q] # key
      BY <2>10, <3>1 DEF UsedOnce, run, key
    <3> QED BY <1>1, <1>2, <2>7, <3>1, <3>2
  <2>11. AloneBlank'
    <3>1. \A q \in Requests : phase'[q] \in {"unsent", "queued"} => q # next
      BY <2>4
    <3> QED BY <2>10, <3>1 DEF AnswerInv, AloneBlank, UsedOnce
  <2>12. AloneOpen'
    <3> SUFFICES ASSUME NEW q \in Requests, UsedOnce(KeyOf[q]), Executing(q)'
                 PROVE  jobs'[KeyOf[q]].status \in {"none", "running"}
      BY DEF AloneOpen, UsedOnce
    <3>1. CASE q = next
      BY <2>7, <2>8, <3>1 DEF key
    <3>2. CASE q # next
      <4>1. Executing(q) /\ jobs'[KeyOf[q]] = jobs[KeyOf[q]]
        BY <2>10, <3>2 DEF Executing
      <4> QED BY <4>1 DEF AnswerInv, AloneOpen
    <3> QED BY <3>1, <3>2
  <2>13. ToldIsTrue'
    <3> SUFFICES ASSUME NEW w \in Waiters, wt[w].state \in {"woken", "answered"},
                        NEW i, i = wt[w].run, UsedOnce(i)
                 PROVE  /\ jobs'[i].status \in Finished
                        /\ jobs'[i].status = wt[w].seen \/ Excused(i)'
      BY <1>6, <2>1 DEF ToldIsTrue, UsedOnce, Excused
    <3>1. i \in RunIds
      BY <1>6
    <3>2. jb[i].status \in Finished /\ (jb[i].status = wt[w].seen \/ Excused(i)')
      BY <1>5, <2>5, <3>1
    <3>3. i # key
      BY <2>8, <3>2 DEF Finished
    <3> QED BY <2>7, <3>1, <3>2, <3>3
  <2> QED BY <2>9, <2>11, <2>12, <2>13
<1> HIDE DEF run, jb, ft, wt
<1> QED BY <1>1, <1>7, <1>8, CompleteCases DEF AnswerInv

LEMMA AnswerInvNext == LaneAssumption /\ AnswerInv /\ [Next]_vars => AnswerInv'
<1> SUFFICES ASSUME LaneAssumption, AnswerInv, [Next]_vars PROVE AnswerInv'
  OBVIOUS
<1>0. TypeOK /\ WaiterInv' /\ QueueInv'
  BY WaiterInvNext, QueueInvNext DEF AnswerInv, QueueInv
<1> SUFFICES DoneIsOver' /\ AloneBlank' /\ AloneOpen' /\ ToldIsTrue'
  BY <1>0 DEF AnswerInv
<1>1. CASE UNCHANGED <<jobs, futures, phase, emitter, open, waiter>>
  BY <1>1 DEF AnswerInv, DoneIsOver, AloneBlank, AloneOpen, ToldIsTrue, Excused, UsedOnce, Executing
<1>2. ASSUME NEW r \in Requests, NEW s \in Sessions, NEW c \in Conns,
             ChatSendBusy(r, s, c) \/ ChatSendFree(r, s, c) \/ NodeRequest(r, s, c)
      PROVE  DoneIsOver' /\ AloneBlank' /\ AloneOpen' /\ ToldIsTrue'
  <2>1. /\ phase[r] = "unsent" /\ waiter' = waiter /\ open' = open
        /\ emitter' = [emitter EXCEPT ![r] = c]
        /\ \/ /\ \E p \in {"queued", "queue_full", "in_flight", "starting"} :
                    phase' = [phase EXCEPT ![r] = p]
              /\ UNCHANGED <<jobs, futures>>
           \/ Register(KeyOf[r], s) /\ phase' = [phase EXCEPT ![r] = "starting"]
    BY <1>2 DEF ChatSendBusy, ChatSendFree, NodeRequest, Arrives
  <2>2. /\ phase \in [Requests -> Phases] /\ emitter \in [Requests -> Conns \cup {NoConn}]
        /\ KeyOf[r] \in RunIds /\ \A q \in Requests : KeyOf[q] \in RunIds
    BY <1>0 DEF TypeOK, LaneAssumption
  <2>3. /\ \A q \in Requests : q # r => phase'[q] = phase[q] /\ emitter'[q] = emitter[q]
        /\ phase'[r] # "unsent" /\ phase'[r] # "running"
    BY <2>1, <2>2
  <2>4. \A i \in RunIds : i # KeyOf[r] => jobs'[i] = jobs[i] /\ futures'[i] = futures[i]
    BY <1>0, <2>1, <2>2 DEF Register, JobsRegistered, FutureCreated, TypeOK
  <2>5. \/ jobs'[KeyOf[r]] = jobs[KeyOf[r]] /\ futures'[KeyOf[r]] = futures[KeyOf[r]]
        \/ /\ jobs'[KeyOf[r]].status = "running" /\ futures'[KeyOf[r]] = "pending"
           /\ phase'[r] = "starting"
    BY <1>0, <2>1, <2>2 DEF Register, JobsRegistered, FutureCreated, TypeOK
  <2>6. UsedOnce(KeyOf[r]) => jobs[KeyOf[r]].status = "none" /\ futures[KeyOf[r]] = "none"
    BY <2>1 DEF AnswerInv, AloneBlank
  <2>7. \A q \in Requests : UsedOnce(KeyOf[q]) /\ q # r =>
           jobs'[KeyOf[q]] = jobs[KeyOf[q]] /\ futures'[KeyOf[q]] = futures[KeyOf[q]]
    BY <2>2, <2>4 DEF UsedOnce
  <2>8. DoneIsOver'
    <3> SUFFICES ASSUME NEW i \in RunIds, futures'[i] = "done" PROVE jobs'[i].status \in Finished
      BY DEF DoneIsOver
    <3>1. jobs'[i] = jobs[i] /\ futures'[i] = futures[i]
      BY <2>4, <2>5
    <3> QED BY <3>1 DEF AnswerInv, DoneIsOver
  <2>9. AloneBlank'
    <3> SUFFICES ASSUME NEW q \in Requests, UsedOnce(KeyOf[q]), phase'[q] \in {"unsent", "queued"}
                 PROVE  jobs'[KeyOf[q]].status = "none" /\ futures'[KeyOf[q]] = "none"
      BY DEF AloneBlank, UsedOnce
    <3>1. CASE q = r
      BY <2>5, <2>6, <3>1
    <3>2. CASE q # r
      BY <2>3, <2>7, <3>2 DEF AnswerInv, AloneBlank
    <3> QED BY <3>1, <3>2
  <2>10. AloneOpen'
    <3> SUFFICES ASSUME NEW q \in Requests, UsedOnce(KeyOf[q]), Executing(q)'
                 PROVE  jobs'[KeyOf[q]].status \in {"none", "running"}
      BY DEF AloneOpen, UsedOnce
    <3>1. CASE q = r
      BY <2>5, <2>6, <3>1
    <3>2. CASE q # r
      BY <2>3, <2>7, <3>2 DEF AnswerInv, AloneOpen, Executing
    <3> QED BY <3>1, <3>2
  <2>11. ToldIsTrue'
    <3>1. \A i \in RunIds : UsedOnce(i) /\ jobs[i].status \in Finished => jobs'[i].status = jobs[i].status
      BY <2>4, <2>6 DEF Finished
    <3>2. \A q \in Requests : phase[q] \notin {"unsent", "queued"} => emitter'[q] = emitter[q]
      BY <2>1, <2>3
    <3> QED BY <2>1, <3>1, <3>2, ToldAlone
  <2> QED BY <2>8, <2>9, <2>10, <2>11
<1>3. ASSUME NEW r \in Requests, TaskStep(r)
      PROVE  DoneIsOver' /\ AloneBlank' /\ AloneOpen' /\ ToldIsTrue'
  <2>1. /\ session' = session /\ open' = open
        /\ \/ /\ phase[r] = "starting" \/ phase[r] = "announcing"
              /\ \E p \in {"running", "dead", "ended"} :
                    /\ phase' = [phase EXCEPT ![r] = p]
                    /\ p = "running" => phase[r] = "starting"
              /\ UNCHANGED <<jobs, futures, emitter, waiter>>
           \/ /\ \/ phase[r] = "running"
                 \/ phase[r] = "announcing" /\ (emitter[r] \notin open \/ TraceMayFail)
              /\ \E p \in {"announcing", "ended"}, st \in {"ok", "error", "aborted"},
                    s \in Sessions \cup {NoSession} : Complete(r, p, st, s)
    BY <1>0, <1>3, TaskStepCases
  <2>2. ASSUME phase[r] = "starting" \/ phase[r] = "announcing",
               NEW p \in {"running", "dead", "ended"}, phase' = [phase EXCEPT ![r] = p],
               p = "running" => phase[r] = "starting",
               UNCHANGED <<jobs, futures, emitter, waiter>>
        PROVE  DoneIsOver' /\ AloneBlank' /\ AloneOpen' /\ ToldIsTrue'
    <3>1. \A q \in Requests : /\ phase'[q] \in {"unsent", "queued"} => phase'[q] = phase[q]
                              /\ Executing(q)' => Executing(q)
      BY <1>0, <2>2 DEF Executing, TypeOK
    <3>2. ToldIsTrue'
      BY <2>1, <2>2 DEF AnswerInv, ToldIsTrue, Excused, UsedOnce
    <3> QED BY <2>2, <3>1, <3>2 DEF AnswerInv, DoneIsOver, AloneBlank, AloneOpen, UsedOnce
  <2> QED BY <2>1, <2>2, CompleteKeepsAnswers
<1>4. ASSUME NEW w \in Waiters, NEW run \in RunIds, AgentWait(w, run)
      PROVE  DoneIsOver' /\ AloneBlank' /\ AloneOpen' /\ ToldIsTrue'
  <2>1. UNCHANGED <<jobs, futures, phase, emitter, open>>
    BY <1>4 DEF AgentWait, registry
  <2>2. \E st \in {"waiting", "answered", "timeout", "cancelled"}, seen \in Statuses :
           /\ SetWaiter(w, st, run, seen)
           /\ st = "answered" => seen = jobs[run].status /\ jobs[run].status \in Finished
    <3>1. jobs[run].status \in Statuses /\ "none" \in Statuses
      BY <1>0 DEF TypeOK, Statuses
    <3>2. futures[run] = "done" => jobs[run].status \in Finished
      BY DEF AnswerInv, DoneIsOver
    <3> QED BY <1>4, <3>1, <3>2 DEF AgentWait, Finished
  <2>3. ToldIsTrue'
    BY <1>0, <2>1, <2>2 DEF AnswerInv, ToldIsTrue, Excused, UsedOnce, SetWaiter, TypeOK
  <2> QED BY <2>1, <2>3 DEF AnswerInv, DoneIsOver, AloneBlank, AloneOpen, UsedOnce, Executing
<1>5. ASSUME NEW w \in Waiters, WaiterResumes(w)
      PROVE  DoneIsOver' /\ AloneBlank' /\ AloneOpen' /\ ToldIsTrue'
  <2>1. UNCHANGED <<jobs, futures, phase, emitter, open>>
    BY <1>5 DEF WaiterResumes, registry
  <2>2. \A v \in Waiters : waiter'[v].state \in {"woken", "answered"} =>
           /\ waiter[v].state \in {"woken", "answered"}
           /\ waiter'[v].run = waiter[v].run /\ waiter'[v].seen = waiter[v].seen
    BY <1>0, <1>5 DEF WaiterResumes, TypeOK
  <2>3. ToldIsTrue'
    BY <2>1, <2>2, ToldAlone
  <2> QED BY <2>1, <2>3 DEF AnswerInv, DoneIsOver, AloneBlank, AloneOpen, UsedOnce, Executing
<1>6. ASSUME NEW w \in Waiters, WaitTimesOut(w)
      PROVE  DoneIsOver' /\ AloneBlank' /\ AloneOpen' /\ ToldIsTrue'
  <2>1. UNCHANGED <<jobs, phase, emitter, open>>
    BY <1>6 DEF WaitTimesOut
  <2>2. \A v \in Waiters : waiter'[v].state \in {"woken", "answered"} =>
           waiter[v].state \in {"woken", "answered"} /\ waiter'[v] = waiter[v]
    BY <1>0, <1>6 DEF WaitTimesOut, TypeOK
  <2>3. ToldIsTrue'
    BY <2>1, <2>2, ToldAlone
  <2>4. /\ waiter[w].run \in RunIds /\ futures[waiter[w].run] = "pending"
        /\ \A i \in RunIds : futures'[i] = IF i = waiter[w].run THEN "cancelled" ELSE futures[i]
    BY <1>0, <1>6 DEF WaitTimesOut, TypeOK, AnswerInv, WaiterInv, ParkedOnPending
  <2>5. DoneIsOver'
    BY <2>1, <2>4 DEF AnswerInv, DoneIsOver
  <2>6. \A r \in Requests : KeyOf[r] \in RunIds
    BY DEF LaneAssumption
  <2>7. AloneBlank'
    BY <2>1, <2>4, <2>6 DEF AnswerInv, AloneBlank, UsedOnce
  <2> QED BY <2>1, <2>3, <2>5, <2>7 DEF AnswerInv, AloneOpen, UsedOnce, Executing
<1>7. ASSUME NEW run \in Abortable, ChatAbort(run)
      PROVE  UNCHANGED <<jobs, futures, phase, emitter, open, waiter>>
  BY <1>7 DEF ChatAbort
<1>8. ASSUME NEW c \in Conns, Disconnect(c)
      PROVE  DoneIsOver' /\ AloneBlank' /\ AloneOpen' /\ ToldIsTrue'
  <2>1. UNCHANGED <<jobs, futures, phase, emitter, waiter>> /\ open' \subseteq open
    BY <1>8 DEF Disconnect, registry
  <2>2. ToldIsTrue'
    BY <2>1, ToldAlone
  <2> QED BY <2>1, <2>2 DEF AnswerInv, DoneIsOver, AloneBlank, AloneOpen, UsedOnce, Executing
<1>9. CASE UNCHANGED vars
  BY <1>1, <1>9 DEF vars
<1> QED BY <1>1, <1>2, <1>3, <1>4, <1>5, <1>6, <1>7, <1>8, <1>9 DEF Next

\* What agent.wait told a caller stays the run's status, whoever aborts, times out or
\* completes: only an id used again, a closed connection or a failed trace changes it.
THEOREM AnswersStay == Spec => []AnswerIsFinal
<1>1. Init => AnswerInv
  <2> SUFFICES ASSUME Init PROVE AnswerInv
    OBVIOUS
  <2>1. WaiterInv
    BY LaneAssumption, TypeOKInit DEF Init, WaiterInv, PendingRuns, ParkedOnPending
  <2>2. QueueInv
    BY LaneAssumption, TypeOKInit
       DEF Init, QueueInv, EntriesQueued, EntriesDistinct, QueuedEntered, Capped, LaneAssumption
  <2>3. \A r \in Requests : KeyOf[r] \in RunIds
    BY LaneAssumption DEF LaneAssumption
  <2> QED BY <2>1, <2>2, <2>3
          DEF Init, AnswerInv, DoneIsOver, AloneBlank, AloneOpen, ToldIsTrue, Executing
<1>2. AnswerInv /\ [Next]_vars => AnswerInv'
  BY LaneAssumption, AnswerInvNext
<1> QED BY <1>1, <1>2, AnswerInvImplies, PTL DEF Spec

-------------------------------------------------------------------------------
(* Waiting work.  Whoever frees a lane is the request that was registered on  *)
(* it, and it registers the oldest waiting request in the same step: unless   *)
(* it is a node's task, which does not look at the queue, or an id is used    *)
(* again, so that the record of another run completes or refuses.             *)
NodesKnown ==
  \A r \in Requests : /\ phase[r] = "unsent" => session[r] = NoSession
                      /\ route[r] = "node" => r \in NodeRequests

\* Only clients' requests with ids of their own have begun in the session.
Clean(s) ==
  \A r \in Requests :
     session[r] = s /\ Begun(r) => r \notin NodeRequests /\ UsedOnce(KeyOf[r])

StrandInv == LaneInv /\ NodesKnown /\ NoStrandedQueue

\* A request whose run holds a lane of a clean session is the only one of its id.
LEMMA HolderIsOwn ==
  ASSUME LaneInv, NEW x \in Sessions, Clean(x), lane[x] # NoRun,
         NEW r \in Requests, KeyOf[r] = lane[x]
  PROVE  /\ UsedOnce(KeyOf[r]) /\ session[r] = x
         /\ r \notin NodeRequests
<1>1. PICK q \in Requests : KeyOf[q] = lane[x] /\ session[q] = x /\ Begun(q)
  BY DEF LaneInv, HoldersKnown
<1>2. UsedOnce(KeyOf[q]) /\ q \notin NodeRequests
  BY <1>1 DEF Clean
<1>3. q = r
  BY <1>1, <1>2 DEF UsedOnce
<1> QED BY <1>1, <1>2, <1>3

LEMMA CompleteStrandsNone ==
  ASSUME LaneAssumption, StrandInv, NEW r \in Requests, NEW p \in {"announcing", "ended"},
         NEW status \in {"ok", "error", "aborted"}, NEW s \in Sessions \cup {NoSession},
         s = OwnSession(r) \/ s = session[r], phase[r] \notin {"unsent", "queued"}, Begun(r),
         Complete(r, p, status, s), session' = session
  PROVE  NodesKnown' /\ NoStrandedQueue'
<1> DEFINE jb == JobsCompleted(KeyOf[r], status, s)
           ln == LaneReleased(KeyOf[r], s)
<1>1. /\ TypeOK /\ LaneInv /\ status \in Statuses /\ p \in Phases /\ KeyOf[r] \in RunIds
      /\ NoRun \notin RunIds /\ \A q \in Requests : KeyOf[q] \in RunIds
      /\ phase \in [Requests -> Phases] /\ route \in [Requests -> {"none", "direct", "dequeued", "node"}]
  BY DEF StrandInv, LaneInv, QueueInv, Statuses, Phases, LaneAssumption, TypeOK
<1>2. \A x \in Sessions : ln[x] = IF x = s /\ lane[x] = KeyOf[r] THEN NoRun ELSE lane[x]
  BY DEF LaneReleased
\* A step that lets more requests begin leaves a session clean only if it was.
<1>3. ASSUME \A q \in Requests : Begun(q) => Begun(q)', NEW x \in Sessions, Clean(x)'
      PROVE  Clean(x)
  BY <1>3 DEF Clean
\* In a clean session the lane that r frees is that of its own session.
<1>4. \A x \in Sessions : Clean(x) /\ ln[x] # lane[x] =>
         /\ x = s /\ ln[x] = NoRun /\ route[r] # "node"
         /\ session[r] = x
  <2> SUFFICES ASSUME NEW x \in Sessions, Clean(x), ln[x] # lane[x]
               PROVE  x = s /\ ln[x] = NoRun /\ route[r] # "node" /\ session[r] = x
    OBVIOUS
  <2>1. x = s /\ lane[x] = KeyOf[r] /\ ln[x] = NoRun /\ lane[x] # NoRun
    BY <1>1, <1>2
  <2>2. session[r] = x /\ r \notin NodeRequests
    BY <1>1, <2>1, HolderIsOwn
  <2>3. route[r] # "node"
    BY <2>2 DEF StrandInv, NodesKnown
  <2> QED BY <2>1, <2>2, <2>3
<1>5. \A x \in Sessions : Clean(x) /\ pending[x] # <<>> => lane[x] # NoRun
  BY DEF StrandInv, NoStrandedQueue, Clean
<1>6. CASE Untriggered(r, p, status, s) /\ (route[r] = "node" \/ s = NoSession \/ pending[s] = <<>>)
  <2>1. /\ lane' = ln /\ phase' = [phase EXCEPT ![r] = p] /\ route' = route /\ pending' = pending
    BY <1>6 DEF Untriggered, CompleteAgentJob
  <2> HIDE DEF jb, ln
  <2>2. NodesKnown'
    BY <1>1, <2>1 DEF StrandInv, NodesKnown
  <2>3. \A q \in Requests : Begun(q) => Begun(q)'
    BY <1>1, <2>1 DEF Begun
  <2>4. ASSUME NEW x \in Sessions, Clean(x)', pending[x] # <<>>
        PROVE  ln[x] # NoRun
    <3>1. Clean(x) /\ lane[x] # NoRun
      BY <1>3, <1>5, <2>3, <2>4
    <3>2. ln[x] = lane[x]
      BY <1>4, <1>6, <2>4, <3>1 DEF LaneAssumption
    <3> QED BY <3>1, <3>2
  <2>5. NoStrandedQueue'
    BY <2>1, <2>4 DEF NoStrandedQueue, Clean
  <2> QED BY <2>2, <2>5
<1>7. ASSUME NEW next \in Requests, Triggered(r, p, status, s, next)
      PROVE  NodesKnown' /\ NoStrandedQueue'
  <2>1. /\ s \in Sessions /\ pending[s] # <<>> /\ next = Head(pending[s])
        /\ phase' = [phase EXCEPT ![r] = p, ![next] = "starting"]
        /\ route' = [route EXCEPT ![next] = "dequeued"]
        /\ pending' = [pending EXCEPT ![s] = Tail(@)]
    BY <1>7 DEF Triggered
  <2>2. phase[next] = "queued" /\ session[next] = s
    <3>1. pending[s] \in Seq(Requests)
      BY <1>1, <2>1 DEF TypeOK
    <3>2. 1 \in DOMAIN pending[s] /\ next = pending[s][1]
      BY <2>1, <3>1
    <3> QED BY <2>1, <3>2 DEF StrandInv, LaneInv, QueueInv, EntriesQueued
  <2>3. next # r /\ KeyOf[next] \in RunIds
    BY <1>1, <2>2
  <2>4. NodesKnown'
    BY <1>1, <2>1 DEF StrandInv, NodesKnown
  <2>5. \A q \in Requests : (Begun(q) => Begun(q)') /\ (q = next => Begun(q)')
    BY <1>1, <2>1 DEF Begun
  <2>6. UsedOnce(KeyOf[next]) => jb[KeyOf[next]].status = "none"
    <3> SUFFICES ASSUME UsedOnce(KeyOf[next]) PROVE jb[KeyOf[next]].status = "none"
      OBVIOUS
    <3>1. jobs[KeyOf[next]].status = "none"
      BY <2>2 DEF StrandInv, LaneInv, BlankBefore
    <3>2. KeyOf[next] # KeyOf[r]
      BY <2>3 DEF UsedOnce
    <3> QED BY <1>1, <2>3, <3>1, <3>2 DEF JobsCompleted, TypeOK
  <2>7. ln \in [Sessions -> RunIds \cup {NoRun}]
    BY <1>1, CompletedTypes
  <2> HIDE DEF jb, ln
  <2>8. ASSUME UsedOnce(KeyOf[next]) PROVE lane'[s] # NoRun
    <3>1. ln[s] = NoRun => CanRegister(jb, ln, KeyOf[next], s)
      BY <2>6, <2>8 DEF CanRegister
    <3>2. lane' = LaneTaken(ln, KeyOf[next], s) \/ (lane' = ln /\ ln[s] # NoRun)
      BY <1>7, <3>1 DEF Triggered, jb, ln
    <3> QED BY <1>1, <2>1, <2>3, <2>7, <3>2 DEF LaneTaken
  <2>9. \A x \in Sessions : x # s => lane'[x] = lane[x]
    <3>1. lane' = LaneTaken(ln, KeyOf[next], s) \/ lane' = ln
      BY <1>7 DEF Triggered, ln
    <3> QED BY <1>2, <2>1, <2>7, <3>1 DEF LaneTaken
  <2>10. ASSUME NEW x \in Sessions, Clean(x)', pending'[x] # <<>>
         PROVE  lane'[x] # NoRun
    <3>1. Clean(x)
      BY <1>3, <2>5, <2>10
    <3>2. CASE x = s
      <4>1. UsedOnce(KeyOf[next])
        BY <2>2, <2>5, <2>10, <3>2 DEF Clean
      <4> QED BY <2>8, <3>2, <4>1
    <3>3. CASE x # s
      BY <1>1, <1>5, <2>1, <2>9, <2>10, <3>1, <3>3 DEF TypeOK
    <3> QED BY <3>2, <3>3
  <2>11. NoStrandedQueue'
    BY <2>10 DEF NoStrandedQueue, Clean
  <2> QED BY <2>4, <2>11
<1> HIDE DEF jb, ln
<1> QED BY <1>1, <1>6, <1>7, CompleteCases

LEMMA StrandInvNext == LaneAssumption /\ StrandInv /\ [Next]_vars => StrandInv'
<1> SUFFICES ASSUME LaneAssumption, StrandInv, [Next]_vars PROVE StrandInv'
  OBVIOUS
<1>0. TypeOK /\ LaneInv'
  BY LaneInvNext DEF StrandInv, LaneInv, QueueInv
<1> SUFFICES NodesKnown' /\ NoStrandedQueue'
  BY <1>0 DEF StrandInv
<1>1. CASE UNCHANGED <<lane, pending, phase, session, route>>
  BY <1>1 DEF StrandInv, NodesKnown, NoStrandedQueue, Begun
<1>2. ASSUME NEW r \in Requests, NEW s \in Sessions, NEW c \in Conns,
             ChatSendBusy(r, s, c) \/ ChatSendFree(r, s, c) \/ NodeRequest(r, s, c)
      PROVE  NodesKnown' /\ NoStrandedQueue'
  <2>1. /\ phase[r] = "unsent" /\ session' = [session EXCEPT ![r] = s]
        /\ \E p \in {"queued", "queue_full", "in_flight", "starting"} :
              phase' = [phase EXCEPT ![r] = p]
        /\ \E d \in {"direct", "node"} : /\ route' = [route EXCEPT ![r] = d] \/ route' = route
                                         /\ d = "node" => r \in NodeRequests
        /\ lane' = lane \/ lane' = [lane EXCEPT ![s] = KeyOf[r]]
        /\ \/ pending' = pending
           \/ lane[s] # NoRun /\ pending' = [pending EXCEPT ![s] = Append(@, r)]
    BY <1>2 DEF ChatSendBusy, ChatSendFree, NodeRequest, Arrives, Register, LaneTaken,
                LaneEnqueue, LaneCanRun
  <2>2. /\ lane \in [Sessions -> RunIds \cup {NoRun}] /\ KeyOf[r] \in RunIds /\ NoRun \notin RunIds
        /\ session \in [Requests -> Sessions \cup {NoSession}] /\ NoSession \notin Sessions
        /\ phase \in [Requests -> Phases] /\ route \in [Requests -> {"none", "direct", "dequeued", "node"}]
        /\ pending \in [Sessions -> Seq(Requests)] /\ NodeRequests \subseteq Requests
    BY <1>0 DEF TypeOK, LaneAssumption
  <2>3. NodesKnown'
    BY <2>1, <2>2 DEF StrandInv, NodesKnown
  <2>4. ASSUME NEW x \in Sessions, Clean(x)', pending'[x] # <<>>
        PROVE  lane'[x] # NoRun
    <3>1. \A q \in Requests : Begun(q) => session'[q] = session[q] /\ Begun(q)'
      BY <2>1, <2>2 DEF Begun
    <3>2. Clean(x)
      BY <2>4, <3>1 DEF Clean
    <3>3. pending[x] # <<>> => lane[x] # NoRun
      BY <3>2 DEF StrandInv, NoStrandedQueue, Clean
    <3>4. pending'[x] = pending[x] \/ lane[x] # NoRun
      BY <2>1, <2>2
    <3>5. lane'[x] = lane[x] \/ lane'[x] # NoRun
      BY <2>1, <2>2
    <3> QED BY <2>4, <3>3, <3>4, <3>5
  <2>5. NoStrandedQueue'
    BY <2>4 DEF NoStrandedQueue, Clean
  <2> QED BY <2>3, <2>5
<1>3. ASSUME NEW r \in Requests, TaskStep(r) PROVE NodesKnown' /\ NoStrandedQueue'
  <2>1. /\ session' = session /\ phase[r] \notin {"unsent", "queued"} /\ Begun(r)
        /\ \/ /\ UNCHANGED <<lane, pending, route>>
              /\ \E p \in {"running", "dead", "ended"} : phase' = [phase EXCEPT ![r] = p]
           \/ \E p \in {"announcing", "ended"}, st \in {"ok", "error", "aborted"},
                 s \in Sessions \cup {NoSession} :
                 Complete(r, p, st, s) /\ (s = OwnSession(r) \/ s = session[r])
    BY <1>0, <1>3, TaskStepCases DEF Begun
  <2>2. CASE /\ UNCHANGED <<lane, pending, route>>
             /\ \E p \in {"running", "dead", "ended"} : phase' = [phase EXCEPT ![r] = p]
    <3>1. phase \in [Requests -> Phases]
      BY <1>0 DEF TypeOK
    <3>2. \A q \in Requests : /\ Begun(q) <=> Begun(q)'
                              /\ phase'[q] = "unsent" => phase[q] = "unsent"
      BY <2>1, <2>2, <3>1 DEF Begun
    <3> QED BY <2>1, <2>2, <3>2 DEF StrandInv, NodesKnown, NoStrandedQueue
  <2> QED BY <2>1, <2>2, CompleteStrandsNone
<1>4. ASSUME NEW run \in Abortable, ChatAbort(run)
      PROVE  UNCHANGED <<lane, pending, phase, session, route>>
  BY <1>4 DEF ChatAbort
<1>5. ASSUME NEW w \in Waiters, NEW run \in RunIds, AgentWait(w, run)
      PROVE  UNCHANGED <<lane, pending, phase, session, route>>
  BY <1>5 DEF AgentWait, registry
<1>6. ASSUME NEW w \in Waiters, WaiterResumes(w) \/ WaitTimesOut(w)
      PROVE  UNCHANGED <<lane, pending, phase, session, route>>
  BY <1>6 DEF WaiterResumes, WaitTimesOut, registry
<1>7. ASSUME NEW c \in Conns, Disconnect(c)
      PROVE  UNCHANGED <<lane, pending, phase, session, route>>
  BY <1>7 DEF Disconnect, registry
<1>8. CASE UNCHANGED vars
  BY <1>1, <1>8 DEF vars
<1> QED BY <1>1, <1>2, <1>3, <1>4, <1>5, <1>6, <1>7, <1>8 DEF Next

\* No accepted request waits behind a free lane, whichever connections close, traces fail
\* or runs are aborted, before a node's task or one with a reused id begins in its session.
THEOREM NoneStranded == Spec => []NoStrandedQueue
<1>1. Init => StrandInv
  BY LaneAssumption, LaneInvInit DEF Init, StrandInv, NodesKnown, NoStrandedQueue
<1>2. StrandInv /\ [Next]_vars => StrandInv'
  BY LaneAssumption, StrandInvNext
<1>3. StrandInv => NoStrandedQueue
  BY DEF StrandInv
<1> QED BY <1>1, <1>2, <1>3, PTL DEF Spec

-------------------------------------------------------------------------------
(* The lanes as a strict FIFO.  Where one task at a time runs on a session,   *)
(* the request whose run holds the lane is the one StrictLane calls active,   *)
(* and every step of the gateway is one of StrictLane's or invisible to it.   *)
Arrived == {r \in Requests : phase[r] # "unsent"}
Active == [s \in Sessions |-> ServedOn(s)]

LEMMA ServedOnIs ==
  ASSUME FreshIds, NEW r \in Requests
  PROVE  (CHOOSE q \in Requests : KeyOf[q] = KeyOf[r]) = r
BY DEF FreshIds

LEMMA ActiveIs ==
  ASSUME FreshIds, LaneAssumption, NEW s \in Sessions
  PROVE  /\ lane[s] = NoRun => Active[s] = NoRun
         /\ \A r \in Requests : lane[s] = KeyOf[r] => Active[s] = r
<1>1. \A r \in Requests : KeyOf[r] # NoRun
  BY DEF LaneAssumption
<1> QED BY <1>1, ServedOnIs DEF Active, ServedOn

LEMMA ActiveIsNext ==
  ASSUME FreshIds, LaneAssumption, NEW s \in Sessions
  PROVE  /\ lane'[s] = NoRun => Active'[s] = NoRun
         /\ \A r \in Requests : lane'[s] = KeyOf[r] => Active'[s] = r
         /\ lane'[s] = lane[s] => Active'[s] = Active[s]
<1>1. \A r \in Requests : KeyOf[r] # NoRun
  BY DEF LaneAssumption
<1>2. Active'[s] = IF lane'[s] = NoRun THEN NoRun
                   ELSE CHOOSE q \in Requests : KeyOf[q] = lane'[s]
  BY DEF Active, ServedOn
<1>3. Active[s] = IF lane[s] = NoRun THEN NoRun
                  ELSE CHOOSE q \in Requests : KeyOf[q] = lane[s]
  BY DEF Active, ServedOn
<1>4. ASSUME NEW r \in Requests, lane'[s] = KeyOf[r] PROVE Active'[s] = r
  BY <1>1, <1>2, <1>4, ServedOnIs
<1>5. lane'[s] = lane[s] => Active'[s] = Active[s]
  BY <1>2, <1>3
<1> QED BY <1>2, <1>4, <1>5

\* A lane that is held serves some request.
LEMMA HeldServes ==
  ASSUME FreshIds, LaneAssumption, ReliableInv, NEW s \in Sessions, lane[s] # NoRun
  PROVE  Active[s] \in Requests /\ Active[s] # NoRun
<1>1. lane[s] \in RunIds
  BY DEF ReliableInv, LaneInv, QueueInv, TypeOK
<1>2. \E r \in Requests : KeyOf[r] = lane[s]
  BY DEF ReliableInv, LaneInv, HoldersKnown
<1> QED BY <1>2, ActiveIs DEF LaneAssumption

\* The agent of the run that holds the lane is done: the lane passes to the oldest
\* waiting request, or becomes free.
LEMMA CompleteFinishes ==
  ASSUME LaneAssumption, FreshIds, Reliable, ReliableInv, StrandInv, NEW r \in Requests,
         NEW p \in {"announcing", "ended"}, NEW status \in {"ok", "error", "aborted"},
         NEW s \in Sessions \cup {NoSession}, s = OwnSession(r) \/ s = session[r],
         phase[r] = "running", Complete(r, p, status, s)
  PROVE  Promise!Finish(session[r])
<1> DEFINE jb == JobsCompleted(KeyOf[r], status, s)
           ln == LaneReleased(KeyOf[r], s)
<1>1. /\ TypeOK /\ status \in Statuses /\ p \in Phases /\ KeyOf[r] \in RunIds /\ NoRun \notin RunIds
      /\ \A q \in Requests : KeyOf[q] \in RunIds /\ q # NoRun
      /\ phase \in [Requests -> Phases]
  BY DEF ReliableInv, LaneInv, QueueInv, Statuses, Phases, LaneAssumption, TypeOK
<1>2. session[r] \in Sessions /\ lane[session[r]] = KeyOf[r]
  BY DEF ReliableInv, HoldersExecute, Executing
<1>3. s = session[r]
  <2>1. jobs[KeyOf[r]].status = "running" /\ jobs[KeyOf[r]].session = session[r]
    BY <1>1, <1>2, FreshUsedOnce DEF ReliableInv, LaneInv, JobHoldsLane
  <2> QED BY <2>1 DEF OwnSession
<1>4. \A x \in Sessions : ln[x] = IF x = s THEN NoRun ELSE lane[x]
  BY <1>1, <1>2, <1>3 DEF LaneReleased
<1>5. route[r] # "node"
  BY DEF StrandInv, NodesKnown, Reliable
<1>6. s \in Sessions /\ Active[s] # NoRun
  BY <1>1, <1>2, <1>3, ActiveIs
<1>7. CASE Untriggered(r, p, status, s) /\ (route[r] = "node" \/ s = NoSession \/ pending[s] = <<>>)
  <2>1. /\ lane' = ln /\ phase' = [phase EXCEPT ![r] = p] /\ pending' = pending
    BY <1>7 DEF Untriggered, CompleteAgentJob
  <2>2. pending[s] = <<>>
    BY <1>5, <1>6, <1>7 DEF LaneAssumption
  <2> HIDE DEF jb, ln
  <2>3. Arrived' = Arrived
    BY <1>1, <2>1 DEF Arrived
  <2>4. \A x \in Sessions : Active'[x] = IF x = s THEN NoRun ELSE Active[x]
    BY <1>4, <2>1, ActiveIsNext
  <2>5. Active' = [Active EXCEPT ![s] = NoRun]
    BY <2>4 DEF Active
  <2> QED BY <1>3, <1>6, <2>1, <2>2, <2>3, <2>5 DEF Promise!Finish, Arrived, Active
<1>8. ASSUME NEW next \in Requests, Triggered(r, p, status, s, next)
      PROVE  Promise!Finish(session[r])
  <2>1. /\ s \in Sessions /\ pending[s] # <<>> /\ next = Head(pending[s])
        /\ phase' = [phase EXCEPT ![r] = p, ![next] = "starting"]
        /\ pending' = [pending EXCEPT ![s] = Tail(@)]
    BY <1>8 DEF Triggered
  <2>2. phase[next] = "queued"
    <3>1. pending[s] \in Seq(Requests)
      BY <1>1, <2>1 DEF TypeOK
    <3>2. 1 \in DOMAIN pending[s] /\ next = pending[s][1]
      BY <2>1, <3>1
    <3> QED BY <2>1, <3>2 DEF ReliableInv, LaneInv, QueueInv, EntriesQueued
  <2>3. next # r /\ KeyOf[next] # KeyOf[r] /\ KeyOf[next] \in RunIds
    BY <1>1, <2>2 DEF FreshIds
  <2>4. CanRegister(jb, ln, KeyOf[next], s)
    <3>1. jobs[KeyOf[next]].status = "none"
      BY <2>2, FreshUsedOnce DEF ReliableInv, LaneInv, BlankBefore
    <3>2. jb[KeyOf[next]] = jobs[KeyOf[next]]
      BY <1>1, <2>3 DEF JobsCompleted, TypeOK
    <3> HIDE DEF jb, ln
    <3> QED BY <1>4, <2>1, <3>1, <3>2 DEF CanRegister
  <2>5. lane' = LaneTaken(ln, KeyOf[next], s)
    BY <1>8, <2>4 DEF Triggered
  <2>6. \A x \in Sessions : lane'[x] = IF x = s THEN KeyOf[next] ELSE lane[x]
    <3>1. ln \in [Sessions -> RunIds \cup {NoRun}]
      BY <1>1, CompletedTypes
    <3> HIDE DEF ln
    <3> QED BY <1>4, <2>5, <3>1 DEF LaneTaken
  <2> HIDE DEF jb, ln
  <2>7. Arrived' = Arrived
    BY <1>1, <2>1, <2>2 DEF Arrived
  <2>8. \A x \in Sessions : Active'[x] = IF x = s THEN next ELSE Active[x]
    BY <2>6, ActiveIsNext
  <2>9. Active' = [Active EXCEPT ![s] = Head(pending[s])]
    BY <2>1, <2>8 DEF Active
  <2> QED BY <1>3, <1>6, <2>1, <2>7, <2>9 DEF Promise!Finish, Arrived, Active
<1> HIDE DEF jb, ln
<1> QED BY <1>1, <1>7, <1>8, CompleteCases

LEMMA StepsServe ==
  ASSUME LaneAssumption, FreshIds, Reliable, ReliableInv, StrandInv, [Next]_vars
  PROVE  [Promise!Next]_Promise!vars
<1>0. /\ TypeOK /\ LaneInv /\ phase \in [Requests -> Phases]
      /\ lane \in [Sessions -> RunIds \cup {NoRun}] /\ pending \in [Sessions -> Seq(Requests)]
      /\ \A r \in Requests : KeyOf[r] \in RunIds /\ KeyOf[r] # NoRun
  BY DEF ReliableInv, LaneInv, QueueInv, TypeOK, LaneAssumption
\* A step that keeps the lanes, the queues and who has arrived.
<1>1. ASSUME lane' = lane, pending' = pending,
             \A r \in Requests : phase'[r] = "unsent" <=> phase[r] = "unsent"
      PROVE  UNCHANGED Promise!vars
  <2>1. Arrived' = Arrived
    BY <1>1 DEF Arrived
  <2>2. Active' = Active
    BY <1>1 DEF Active, ServedOn
  <2> QED BY <1>1, <2>1, <2>2 DEF Promise!vars, Arrived, Active
<1>2. ASSUME NEW r \in Requests, phase[r] = "unsent", NEW p, p # "unsent",
             phase' = [phase EXCEPT ![r] = p]
      PROVE  Promise!Arrive(r)
  BY <1>0, <1>2 DEF Promise!Arrive
<1>3. ASSUME NEW r \in Requests, NEW s \in Sessions, NEW c \in Conns, ChatSendBusy(r, s, c)
      PROVE  Promise!Wait(r, s) \/ Promise!TurnAway(r, s)
  <2>1. phase[r] = "unsent" /\ lane' = lane /\ lane[s] # NoRun
    BY <1>3 DEF ChatSendBusy, Arrives, LaneCanRun
  <2>2. Active' = Active
    BY <2>1 DEF Active, ServedOn
  <2>3. Active[s] # NoRun
    BY <2>1, HeldServes
  <2>4. CASE ~LaneFull(s) /\ LaneEnqueue(r, s) /\ phase' = [phase EXCEPT ![r] = "queued"]
    <3>1. Promise!Arrive(r)
      BY <1>2, <2>1, <2>4
    <3>2. Len(pending[s]) < MaxPending
      <4>1. Len(pending[s]) \in Nat /\ MaxPending \in Nat
        BY <1>0 DEF LaneAssumption
      <4> QED BY <2>4, <4>1 DEF LaneFull
    <3> QED BY <2>2, <2>3, <2>4, <3>1, <3>2 DEF Promise!Wait, LaneEnqueue, Active
  <2>5. CASE LaneFull(s) /\ phase' = [phase EXCEPT ![r] = "queue_full"] /\ pending' = pending
    <3>1. Promise!Arrive(r)
      BY <1>2, <2>1, <2>5
    <3> QED BY <2>2, <2>3, <2>5, <3>1 DEF Promise!TurnAway, LaneFull, Active
  <2> QED BY <1>3, <2>4, <2>5 DEF ChatSendBusy
\* With a fresh id a free lane always registers the request.
<1>4. ASSUME NEW r \in Requests, NEW s \in Sessions, NEW c \in Conns, ChatSendFree(r, s, c)
      PROVE  Promise!Serve(r, s)
  <2>1. phase[r] = "unsent" /\ lane[s] = NoRun /\ pending' = pending
    BY <1>4 DEF ChatSendFree, Arrives, LaneCanRun
  <2>2. CanRegister(jobs, lane, KeyOf[r], s)
    BY <2>1, FreshUsedOnce DEF ReliableInv, LaneInv, BlankBefore, CanRegister
  <2>3. lane' = [lane EXCEPT ![s] = KeyOf[r]] /\ phase' = [phase EXCEPT ![r] = "starting"]
    BY <1>4, <2>2 DEF ChatSendFree, Register, LaneTaken
  <2>4. Promise!Arrive(r)
    BY <1>2, <2>1, <2>3
  <2>5. Active[s] = NoRun
    BY <2>1, ActiveIs
  <2>6. \A x \in Sessions : Active'[x] = IF x = s THEN r ELSE Active[x]
    BY <1>0, <2>3, ActiveIsNext
  <2>7. Active' = [Active EXCEPT ![s] = r]
    BY <2>6 DEF Active
  <2> QED BY <2>1, <2>4, <2>5, <2>7 DEF Promise!Serve, Active
<1>5. ASSUME NEW r \in Requests, NEW s \in Sessions, NEW c \in Conns, NodeRequest(r, s, c)
      PROVE  FALSE
  BY <1>5 DEF NodeRequest, Reliable
<1>6. ASSUME NEW r \in Requests, TaskStep(r)
      PROVE  \/ Promise!Finish(session[r]) /\ session[r] \in Sessions
             \/ UNCHANGED Promise!vars
  <2>1. phase[r] = "announcing" => emitter[r] \in open /\ ~TraceMayFail
    BY DEF ReliableInv, EmittersOpen, Reliable
  <2>2. \/ /\ UNCHANGED <<lane, pending>> /\ phase[r] \in {"starting", "announcing"}
           /\ \E p \in {"running", "dead", "ended"} : phase' = [phase EXCEPT ![r] = p]
        \/ /\ phase[r] = "running"
           /\ \E p \in {"announcing", "ended"}, st \in {"ok", "error", "aborted"},
                 s \in Sessions \cup {NoSession} :
                 Complete(r, p, st, s) /\ (s = OwnSession(r) \/ s = session[r])
    BY <1>0, <1>6, <2>1, TaskStepCases
  <2>3. CASE /\ UNCHANGED <<lane, pending>> /\ phase[r] \in {"starting", "announcing"}
             /\ \E p \in {"running", "dead", "ended"} : phase' = [phase EXCEPT ![r] = p]
    BY <1>0, <1>1, <2>3
  <2>4. phase[r] = "running" => session[r] \in Sessions
    BY DEF ReliableInv, HoldersExecute, Executing
  <2> QED BY <2>2, <2>3, <2>4, CompleteFinishes
<1>7. ASSUME NEW run \in Abortable, ChatAbort(run) PROVE UNCHANGED <<lane, pending, phase>>
  BY <1>7 DEF ChatAbort
<1>8. ASSUME NEW w \in Waiters, NEW run \in RunIds, AgentWait(w, run)
      PROVE  UNCHANGED <<lane, pending, phase>>
  BY <1>8 DEF AgentWait, registry
<1>9. ASSUME NEW w \in Waiters, WaiterResumes(w) \/ WaitTimesOut(w)
      PROVE  UNCHANGED <<lane, pending, phase>>
  BY <1>9 DEF WaiterResumes, WaitTimesOut, registry
<1>10. ASSUME NEW c \in Conns, Disconnect(c) PROVE UNCHANGED <<lane, pending, phase>>
  BY <1>10 DEF Disconnect, registry
<1>11. UNCHANGED vars => UNCHANGED <<lane, pending, phase>>
  BY DEF vars
<1>12. UNCHANGED <<lane, pending, phase>> => UNCHANGED Promise!vars
  BY <1>1
<1> QED BY <1>3, <1>4, <1>5, <1>6, <1>7, <1>8, <1>9, <1>10, <1>11, <1>12 DEF Next, Promise!Next

\* Under the conditions of OneAtATime the registry, the queues and the tasks implement
\* the strict FIFO: every behaviour is one of StrictLane, its fairness apart.
THEOREM LanesAreStrict == ASSUME FreshIds, Reliable PROVE Spec => Promise!Init /\ [][Promise!Next]_Promise!vars
<1>1. Init => Promise!Init
  BY DEF Init, Promise!Init, ServedOn
<1>2. Init => ReliableInv /\ StrandInv
  BY LaneAssumption, LaneInvInit
     DEF Init, ReliableInv, StrandInv, NodesKnown, NoStrandedQueue, EmittersOpen, HoldersExecute,
         Executing
<1>3. (ReliableInv /\ StrandInv) /\ [Next]_vars => (ReliableInv /\ StrandInv)'
  BY LaneAssumption, ReliableInvNext, StrandInvNext
<1>4. (ReliableInv /\ StrandInv) /\ [Next]_vars => [Promise!Next]_Promise!vars
  BY LaneAssumption, StepsServe
<1> QED BY <1>1, <1>2, <1>3, <1>4, PTL DEF Spec
===============================================================================
