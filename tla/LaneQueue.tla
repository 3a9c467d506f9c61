------------------------------ MODULE LaneQueue -------------------------------
(***************************************************************************)
(* The gateway's run registry, its per-session lanes and the chat service  *)
(* on top of them: api/server.py (_register_agent_job, _complete_agent_job,*)
(* _wait_agent_job, chat.abort flags, _trigger_lane_next,                  *)
(* _run_node_agent_request), services/lanes/lane_queue_service.py and      *)
(* services/chat/chat_service.py.                                          *)
(*                                                                         *)
(* The gateway is one asyncio loop, so one action is one stretch of code   *)
(* between two awaits.  A request is one chat.send / agent RPC, or one     *)
(* agent.request event of a node; it is sent at most once, and it is also  *)
(* the identity of the task that executes it.  chat_session_serialization  *)
(* is taken at its default, on.                                            *)
(***************************************************************************)
EXTENDS Naturals, Sequences, FiniteSets

CONSTANTS
  Requests,     \* the requests clients and nodes may send
  NodeRequests, \* those that are node events (served without the lane)
  RunIds,       \* run ids; KeyOf[r] is r's idempotencyKey or fresh uuid
  KeyOf,
  Sessions,
  Conns,        \* websocket connections; emit_event writes to one of them
  Unreliable,   \* those that may close while runs still emit to them
  TraceMayFail, \* TRUE if the trace store may raise (sqlite locked, disk full)
  MaxPending,   \* gateway.max_lane_pending (100 by default)
  Abortable,    \* bound: the runs chat.abort is sent for
  Waiters,      \* agent.wait calls (also the wait of expectFinal)
  NoRun, NoSession, NoConn

ASSUME LaneAssumption ==
  /\ NodeRequests \subseteq Requests
  /\ KeyOf \in [Requests -> RunIds]
  /\ Unreliable \subseteq Conns
  /\ Abortable \subseteq RunIds
  /\ TraceMayFail \in BOOLEAN
  /\ MaxPending \in Nat \ {0}
  /\ NoRun \notin RunIds \cup Requests
  /\ NoSession \notin Sessions

VARIABLES
  jobs,    \* rpc_agent_jobs: run id -> record; status "none" when absent
  lane,    \* rpc_session_to_run_id
  futures, \* rpc_agent_job_futures
  pending, \* rpc_lane_pending: session -> queue of requests
  aborts,  \* rpc_abort_requested
  phase,   \* how far each request's task has come
  session, \* the sessionKey of a request
  emitter, \* the connection whose emit_event the task's closure captured
  route,   \* which code executes it: the handler's task, a dequeued item, a node
  waiter,  \* agent.wait calls
  open     \* connections that are still open

registry == <<jobs, lane, futures, aborts>>
vars == <<jobs, lane, futures, pending, aborts, phase, session, emitter, route,
          waiter, open>>

Statuses == {"none", "running", "ok", "error", "aborted"}
Phases == {"unsent", "queued", "queue_full", "in_flight", "starting", "running",
           "announcing", "ended", "dead"}

Init ==
  /\ jobs = [i \in RunIds |-> [status |-> "none", session |-> NoSession]]
  /\ lane = [s \in Sessions |-> NoRun]
  /\ futures = [i \in RunIds |-> "none"]
  /\ pending = [s \in Sessions |-> <<>>]
  /\ aborts = {}
  /\ phase = [r \in Requests |-> "unsent"]
  /\ session = [r \in Requests |-> NoSession]
  /\ emitter = [r \in Requests |-> NoConn]
  /\ route = [r \in Requests |-> "none"]
  /\ waiter = [w \in Waiters |-> [state |-> "idle", run |-> NoRun, seen |-> "none"]]
  /\ open = Conns

-------------------------------------------------------------------------------
(* The registry's helpers, as functions of the dictionaries they update, so   *)
(* that one action can call several of them in the order the code does.       *)

LaneCanRun(s) == lane[s] = NoRun

\* _register_agent_job refuses a busy session and a run id it has already seen,
\* except one whose run was aborted.
CanRegister(jb, ln, run, s) ==
  ln[s] = NoRun /\ jb[run].status \notin {"running", "ok", "error"}

\* (Names ending in _Mut and a word are broken variants of the definition below them:
\* the runs show that the properties notice the break.)
LaneTaken_MutForgotten(ln, run, s) == ln

JobsRegistered(jb, run, s) == [jb EXCEPT ![run] = [status |-> "running", session |-> s]]
LaneTaken(ln, run, s) == [ln EXCEPT ![s] = run]
FutureCreated(ft, run) == [ft EXCEPT ![run] = "pending"]

\* _complete_agent_job: a result carries the sessionKey the task ran under, which
\* overwrites the record's; without a result the record keeps its own.
JobsCompleted_MutBareRecord(run, status, s) == [jobs EXCEPT ![run] = [status |-> status]]

LaneReleased_MutAnyRun(run, s) == [x \in Sessions |-> IF x = s THEN NoRun ELSE lane[x]]

FutureResolved_MutNever(run) == futures

JobsCompleted(run, status, s) == [jobs EXCEPT ![run] = [status |-> status, session |-> s]]
LaneReleased(run, s) == [x \in Sessions |-> IF x = s /\ lane[x] = run THEN NoRun ELSE lane[x]]
FutureResolved(run) == [futures EXCEPT ![run] = IF @ = "pending" THEN "done" ELSE @]

\* set_result schedules the waiters of the future; they share the record, so a
\* second completion before they resume changes what they read.
WaitersWoken_MutAlwaysOk(run, status) ==
  [w \in Waiters |-> IF waiter[w].run = run /\ waiter[w].state = "waiting"
                     THEN [waiter[w] EXCEPT !.state = "woken", !.seen = "ok"]
                     ELSE waiter[w]]

WaitersWoken(run, status) ==
  [w \in Waiters |->
     IF waiter[w].run = run /\ \/ waiter[w].state = "waiting"
                               \/ waiter[w].state = "woken" /\ jobs[run].status # "running"
     THEN [waiter[w] EXCEPT !.state = "woken", !.seen = status]
     ELSE waiter[w]]

CompleteAgentJob(run, status, s) ==
  /\ jobs' = JobsCompleted(run, status, s)
  /\ lane' = LaneReleased(run, s)
  /\ futures' = FutureResolved(run)
  /\ aborts' = aborts \ {run}
  /\ waiter' = WaitersWoken(run, status)

\* _complete_and_trigger: complete, then pop the next item of the record's session,
\* register it (the answer is not looked at) and start its task.  That task emits
\* through the connection of the closure that completed, not of the one that queued.
\* r is the completing request, p the phase its own task goes on in.
CompleteAndTrigger(r, p, status, s) ==
  LET run == KeyOf[r]
      jb == JobsCompleted(run, status, s)
      ln == LaneReleased(run, s)
      ft == FutureResolved(run)
      next == Head(pending[s])
      key == KeyOf[next]
      fresh == CanRegister(jb, ln, key, s)
  IN IF s = NoSession \/ pending[s] = <<>>
     THEN /\ CompleteAgentJob(run, status, s)
          /\ phase' = [phase EXCEPT ![r] = p]
          /\ UNCHANGED <<pending, emitter, route>>
     ELSE /\ pending' = [pending EXCEPT ![s] = Tail(@)]
          /\ jobs' = IF fresh THEN JobsRegistered(jb, key, s) ELSE jb
          /\ lane' = IF fresh THEN LaneTaken(ln, key, s) ELSE ln
          /\ futures' = IF fresh THEN FutureCreated(ft, key) ELSE ft
          /\ aborts' = aborts \ {run}
          /\ waiter' = WaitersWoken(run, status)
          /\ phase' = [phase EXCEPT ![r] = p, ![next] = "starting"]
          /\ emitter' = [emitter EXCEPT ![next] = emitter[r]]
          /\ route' = [route EXCEPT ![next] = "dequeued"]

-------------------------------------------------------------------------------
(* chat.send / agent: _chat_send_or_agent has no await before it answers.     *)

Arrives(r, s, c) ==
  /\ phase[r] = "unsent"
  /\ c \in open
  /\ session' = [session EXCEPT ![r] = s]
  /\ emitter' = [emitter EXCEPT ![r] = c]
  /\ UNCHANGED <<aborts, waiter, open>>

Register(run, s) ==
  /\ jobs' = JobsRegistered(jobs, run, s)
  /\ lane' = LaneTaken(lane, run, s)
  /\ futures' = FutureCreated(futures, run)

\* lane_enqueue: reject at the cap, else append.
LaneFull_MutOffByOne(s) == Len(pending[s]) > MaxPending
LaneFull(s) == Len(pending[s]) >= MaxPending

LaneEnqueue_MutFront(r, s) == pending' = [pending EXCEPT ![s] = <<r>> \o @]
LaneEnqueue(r, s) == pending' = [pending EXCEPT ![s] = Append(@, r)]

ChatSendBusy(r, s, c) ==
  /\ r \notin NodeRequests
  /\ Arrives(r, s, c)
  /\ ~LaneCanRun(s)
  /\ \/ /\ ~LaneFull(s)
        /\ LaneEnqueue(r, s)
        /\ phase' = [phase EXCEPT ![r] = "queued"]
     \/ /\ LaneFull(s)
        /\ phase' = [phase EXCEPT ![r] = "queue_full"]
        /\ UNCHANGED pending
  /\ UNCHANGED <<jobs, lane, futures, route>>

ChatSendFree(r, s, c) ==
  /\ r \notin NodeRequests
  /\ Arrives(r, s, c)
  /\ LaneCanRun(s)
  /\ \/ /\ CanRegister(jobs, lane, KeyOf[r], s)
        /\ Register(KeyOf[r], s)
        /\ phase' = [phase EXCEPT ![r] = "starting"]
        /\ route' = [route EXCEPT ![r] = "direct"]
     \/ /\ ~CanRegister(jobs, lane, KeyOf[r], s)
        /\ phase' = [phase EXCEPT ![r] = "in_flight"]
        /\ UNCHANGED <<jobs, lane, futures, route>>
  /\ UNCHANGED pending

\* node.event agent.request: registers if it can and runs in any case.
NodeRequest(r, s, c) ==
  /\ r \in NodeRequests
  /\ Arrives(r, s, c)
  /\ IF CanRegister(jobs, lane, KeyOf[r], s)
     THEN Register(KeyOf[r], s)
     ELSE UNCHANGED <<jobs, lane, futures>>
  /\ phase' = [phase EXCEPT ![r] = "starting"]
  /\ route' = [route EXCEPT ![r] = "node"]
  /\ UNCHANGED pending

-------------------------------------------------------------------------------
(* The task of a run: _run_agent_job, run_agent_job_with_params and           *)
(* _run_node_agent_request differ only where a route is named.                *)

\* The first chat delta is emitted before the try block ...
EmitStart(r) ==
  /\ phase[r] = "starting"
  /\ phase' = [phase EXCEPT ![r] = "running"]
  /\ UNCHANGED <<registry, pending, session, emitter, route, waiter, open>>

\* ... so a send to a closed connection ends the task and nothing completes its job.
EmitStartRaises(r) ==
  /\ phase[r] = "starting"
  /\ emitter[r] \notin open
  /\ phase' = [phase EXCEPT ![r] = "dead"]
  /\ UNCHANGED <<registry, pending, session, emitter, route, waiter, open>>

\* Completion, by the route's own complete_agent_job.
Complete_MutNoTrigger(r, p, status, s) ==
  /\ CompleteAgentJob(KeyOf[r], status, s)
  /\ phase' = [phase EXCEPT ![r] = p]
  /\ UNCHANGED <<pending, emitter, route>>

Complete(r, p, status, s) ==
  IF route[r] = "node"
  THEN /\ CompleteAgentJob(KeyOf[r], status, s)
       /\ phase' = [phase EXCEPT ![r] = p]
       /\ UNCHANGED <<pending, emitter, route>>
  ELSE CompleteAndTrigger(r, p, status, s)

OwnSession(r) == jobs[KeyOf[r]].session

\* The agent answers.  A node passes no result, so the record keeps its session.
AgentReplies(r) ==
  /\ phase[r] = "running"
  /\ Complete(r, "announcing", "ok", IF route[r] = "node" THEN OwnSession(r) ELSE session[r])
  /\ UNCHANGED <<session, open>>

\* The agent loop saw the abort flag at the top of an iteration; nodes pass no
\* check_abort_requested.  Only the handler's own task looks at payload["aborted"].
AgentAborts(r) ==
  /\ phase[r] = "running"
  /\ route[r] # "node"
  /\ KeyOf[r] \in aborts
  /\ IF route[r] = "direct"
     THEN Complete(r, "announcing", "aborted", OwnSession(r))
     ELSE Complete(r, "announcing", "ok", session[r])
  /\ UNCHANGED <<session, open>>

AgentRaises_MutNoTrigger(r) ==
  /\ phase[r] = "running"
  /\ Complete_MutNoTrigger(r, "ended", "error", OwnSession(r))
  /\ UNCHANGED <<session, open>>

\* chat() raises: provider failure, or a delta sent to a closed connection.
AgentRaises(r) ==
  /\ phase[r] = "running"
  /\ Complete(r, "ended", "error", OwnSession(r))
  /\ UNCHANGED <<session, open>>

\* The final event and the fan-out went out.
Announce(r) ==
  /\ phase[r] = "announcing"
  /\ phase' = [phase EXCEPT ![r] = "ended"]
  /\ UNCHANGED <<registry, pending, session, emitter, route, waiter, open>>

\* persist_trace or the final emit raises inside the try block: the except branch
\* completes the job a second time, with "error", and triggers the lane again.
AnnounceRaises(r) ==
  /\ phase[r] = "announcing"
  /\ route[r] # "node"
  /\ emitter[r] \notin open \/ TraceMayFail
  /\ Complete(r, "ended", "error", OwnSession(r))
  /\ UNCHANGED <<session, open>>

-------------------------------------------------------------------------------
(* chat.abort, agent.wait and the connections.                                *)

\* _request_abort does not look at the run at all.
ChatAbort(run) ==
  /\ aborts' = aborts \cup {run}
  /\ UNCHANGED <<jobs, lane, futures, pending, phase, session, emitter, route, waiter,
                 open>>

SetWaiter(w, state, run, seen) ==
  waiter' = [waiter EXCEPT ![w] = [state |-> state, run |-> run, seen |-> seen]]

\* _wait_agent_job up to its await: a finished run answers at once, an unknown one
\* reports a timeout, and awaiting a future that was cancelled raises.
AgentWait(w, run) ==
  /\ waiter[w].state = "idle"
  /\ \/ /\ jobs[run].status \in {"ok", "error"} \/ futures[run] = "done"
        /\ SetWaiter(w, "answered", run, jobs[run].status)
     \/ /\ jobs[run].status \notin {"ok", "error"}
        /\ futures[run] = "none"
        /\ SetWaiter(w, "timeout", run, "none")
     \/ /\ jobs[run].status \notin {"ok", "error"}
        /\ futures[run] = "pending"
        /\ SetWaiter(w, "waiting", run, "none")
     \/ /\ jobs[run].status \notin {"ok", "error"}
        /\ futures[run] = "cancelled"
        /\ SetWaiter(w, "cancelled", run, "none")
  /\ UNCHANGED <<registry, pending, phase, session, emitter, route, open>>

WaiterResumes(w) ==
  /\ waiter[w].state = "woken"
  /\ waiter' = [waiter EXCEPT ![w].state = "answered"]
  /\ UNCHANGED <<registry, pending, phase, session, emitter, route, open>>

\* asyncio.wait_for without shield: the timeout cancels the future itself, and every
\* other call waiting on it is cancelled with it.
WaitTimesOut(w) ==
  /\ waiter[w].state = "waiting"
  /\ futures' = [futures EXCEPT ![waiter[w].run] = "cancelled"]
  /\ waiter' = [v \in Waiters |->
                  IF v = w THEN [waiter[v] EXCEPT !.state = "timeout"]
                  ELSE IF waiter[v].state = "waiting" /\ waiter[v].run = waiter[w].run
                       THEN [waiter[v] EXCEPT !.state = "cancelled"]
                       ELSE waiter[v]]
  /\ UNCHANGED <<jobs, lane, aborts, pending, phase, session, emitter, route, open>>

Disconnect(c) ==
  /\ c \in open \cap Unreliable
  /\ open' = open \ {c}
  /\ UNCHANGED <<registry, pending, phase, session, emitter, route, waiter>>

-------------------------------------------------------------------------------
TaskStep(r) ==
  \/ EmitStart(r) \/ EmitStartRaises(r)
  \/ AgentReplies(r) \/ AgentAborts(r) \/ AgentRaises(r)
  \/ Announce(r) \/ AnnounceRaises(r)

Next ==
  \/ \E r \in Requests, s \in Sessions, c \in Conns :
       ChatSendBusy(r, s, c) \/ ChatSendFree(r, s, c) \/ NodeRequest(r, s, c)
  \/ \E r \in Requests : TaskStep(r)
  \/ \E run \in Abortable : ChatAbort(run)
  \/ \E w \in Waiters, run \in RunIds : AgentWait(w, run)
  \/ \E w \in Waiters : WaiterResumes(w) \/ WaitTimesOut(w)
  \/ \E c \in Conns : Disconnect(c)

Spec == Init /\ [][Next]_vars

\* The event loop runs every ready task, a run is bounded by max_iterations and by
\* the provider's timeouts, and a resolved future wakes its waiters.
Fairness == /\ \A r \in Requests : WF_vars(TaskStep(r))
            /\ \A w \in Waiters : WF_vars(WaiterResumes(w))
FairSpec == Spec /\ Fairness

-------------------------------------------------------------------------------
(* Properties.                                                                *)

\* The types of the registry's dictionaries, the tasks and the waiters.
TypeOK ==
  /\ jobs \in [RunIds -> [status : Statuses, session : Sessions \cup {NoSession}]]
  /\ lane \in [Sessions -> RunIds \cup {NoRun}]
  /\ futures \in [RunIds -> {"none", "pending", "done", "cancelled"}]
  /\ pending \in [Sessions -> Seq(Requests)]
  /\ aborts \subseteq RunIds
  /\ phase \in [Requests -> Phases]
  /\ session \in [Requests -> Sessions \cup {NoSession}]
  /\ emitter \in [Requests -> Conns \cup {NoConn}]
  /\ route \in [Requests -> {"none", "direct", "dequeued", "node"}]
  /\ waiter \in [Waiters -> [state : {"idle", "waiting", "woken", "answered", "timeout",
                                      "cancelled"},
                             run : RunIds \cup {NoRun}, seen : Statuses]]
  /\ open \subseteq Conns

Executing(r) == phase[r] \in {"starting", "running"}

\* At most one task of a session is executing, whatever is queued, completed or
\* aborted meanwhile: the lane's "running: at most one run per session".
OneRunPerSession ==
  \A r, q \in Requests : Executing(r) /\ Executing(q) /\ session[r] = session[q] => r = q

UsedOnce(i) == \A r, q \in Requests : KeyOf[r] = i /\ KeyOf[q] = i => r = q

\* A run id that one request alone uses is on the lane of a session exactly while its
\* record says that it is running there, whatever is aborted, completed twice or sent
\* with other ids: registering and completing keep the two dictionaries in step.  An id
\* used again does not have this: a dequeued request whose registration was refused
\* completes the record of the run that holds the lane under its id.
JobHoldsLane ==
  \A i \in RunIds, s \in Sessions : UsedOnce(i) =>
     (lane[s] = i <=> jobs[i].status = "running" /\ jobs[i].session = s)

\* A call parked in agent.wait always waits on the future of a run that is still
\* running: no completion, re-registration or timeout of another call strands it.
WaiterHasPendingRun ==
  \A w \in Waiters : waiter[w].state = "waiting" =>
     /\ futures[waiter[w].run] = "pending"
     /\ jobs[waiter[w].run].status = "running"

\* An accepted request sits in its own session's queue exactly once until its turn,
\* nothing else sits there, and no queue is longer than the cap.
QueueHoldsQueued ==
  /\ \A s \in Sessions :
       /\ Len(pending[s]) <= MaxPending
       /\ \A i \in DOMAIN pending[s] :
            phase[pending[s][i]] = "queued" /\ session[pending[s][i]] = s
  /\ \A r \in Requests : phase[r] = "queued" =>
       \E i \in DOMAIN pending[session[r]] :
          \A j \in DOMAIN pending[session[r]] : pending[session[r]][j] = r <=> j = i

Begun(r) == phase[r] \in {"starting", "running", "announcing", "ended", "dead"}

\* Whoever frees a lane takes the next item ("trigger next on complete"): work waits at a
\* free lane only in a session where a task of a node or of a reused id has begun.  A
\* node's task frees the lane without looking at the queue, and a dequeued request whose
\* id already has a record is refused the lane, which then stays free.
NoStrandedQueue ==
  \A s \in Sessions :
     /\ \A r \in Requests :
          session[r] = s /\ Begun(r) => r \notin NodeRequests /\ UsedOnce(KeyOf[r])
     /\ pending[s] # <<>>
     => lane[s] # NoRun

\* What agent.wait told a caller stays true: only a run whose id is used again, whose
\* events go to a closed connection or whose trace cannot be stored gets another status.
AnswerIsFinal ==
  \A w \in Waiters : waiter[w].state = "answered" =>
     \/ jobs[waiter[w].run].status = waiter[w].seen
     \/ TraceMayFail
     \/ ~UsedOnce(waiter[w].run)
     \/ \E r \in Requests : KeyOf[r] = waiter[w].run /\ emitter[r] \notin open

ServedOn(s) ==
  IF lane[s] = NoRun THEN NoRun ELSE CHOOSE r \in Requests : KeyOf[r] = lane[s]

Promise == INSTANCE StrictLane WITH
  arrived <- {r \in Requests : phase[r] # "unsent"},
  active <- [s \in Sessions |-> ServedOn(s)],
  waiting <- pending,
  NoRequest <- NoRun

\* The registry, the lanes and the tasks together implement a strict per-session
\* FIFO that serves one request at a time and always goes on.
ServesInOrder == Promise!Spec
===============================================================================
