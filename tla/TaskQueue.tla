----------------------------- MODULE TaskQueue -----------------------------
(***************************************************************************)
(* The task queue in SQLite (storage/sqlite_store.py) and the processes of *)
(* `house worker` that take tasks from the control plane, execute them and *)
(* report back (cli/command_groups/house_command.py).                      *)
(*                                                                         *)
(* An action is one transaction of the database or one call of the control *)
(* plane: another worker on the same database, the CLI and a crash may     *)
(* come between any two of them.  Inside one worker only the turn of the   *)
(* agent is awaited; `Quiet` keeps its other steps together.               *)
(*                                                                         *)
(* Every call of the database or of the control plane may raise: before    *)
(* its write, or after it (update_task_status commits, then logs).  A claim *)
(* that fails, the backoff after it and the heartbeats leave the queue     *)
(* alone.  Priorities only choose among tasks that are ready: any of them  *)
(* may be taken next.                                                      *)
(***************************************************************************)
EXTENDS Naturals, FiniteSets

CONSTANTS
    Workers, Tasks,
    Concurrency,    \* --concurrency
    MaxTaskRetries,     \* --max-retries
    MaxManual,      \* bound: `house tasks retry` calls of a task
    MaxStarts       \* bound: starts of a worker process

ASSUME WorkerAssumption ==
    /\ Concurrency \in Nat \ {0} /\ MaxTaskRetries \in Nat
    /\ MaxManual \in Nat /\ MaxStarts \in Nat
    /\ IsFiniteSet(Workers)

VARIABLES
    up,         \* the workers: "up", "draining" after their loop, or "down"
    row,        \* task_queue
    exec,       \* where a worker is with a task, and the retry_count it read
    starts,     \* starts of a worker process so far
    (* history *)
    runs,       \* executions started of a task, up to one more than allowed
    manual,     \* `house tasks retry` calls for a task
    told,       \* what the control plane has been told of a task
    contested,  \* tasks taken by two workers at once, or retried while executed
    orphans     \* tasks whose worker or coroutine ended before they were settled
                \* or told, and that nobody retried by hand since

queue == <<row, manual>>
history == <<runs, told, contested, orphans>>
process == <<up, starts>>
taskVars == <<process, queue, exec, history>>

Points == {"none", "picked", "marked", "started", "turn", "answered",
           "telling", "failing"}
MaxRuns == MaxTaskRetries + MaxManual + 2

\* A retry_count passes its limits by the retries of workers that read it before.
TaskTypeOK ==
    /\ up \in [Workers -> {"up", "draining", "down"}]
    /\ row \in [Tasks -> [status: {"absent", "queued", "running", "completed", "failed"},
                          source: {"cloud", "local"}, due: BOOLEAN,
                          retries: 0..(MaxTaskRetries + MaxManual + Cardinality(Workers))]]
    /\ starts \in 0..MaxStarts
    /\ exec \in [Workers -> [Tasks -> [at: Points, retries: Nat]]]
    /\ runs \in [Tasks -> 0..MaxRuns]
    /\ manual \in [Tasks -> 0..MaxManual]
    /\ told \in [Tasks -> SUBSET {"result", "failure"}]
    /\ contested \in SUBSET Tasks
    /\ orphans \in SUBSET Tasks

NoRow == [status |-> "absent", source |-> "local", due |-> TRUE, retries |-> 0]
Unoccupied == [at |-> "none", retries |-> 0]

TaskInit ==
    /\ up = [w \in Workers |-> "down"]
    /\ starts = 0
    /\ row = [t \in Tasks |-> NoRow]
    /\ exec = [w \in Workers |-> [t \in Tasks |-> Unoccupied]]
    /\ runs = [t \in Tasks |-> 0]
    /\ manual = [t \in Tasks |-> 0]
    /\ told = [t \in Tasks |-> {}]
    /\ contested = {} /\ orphans = {}

----------------------------------------------------------------------------
(* The store.                                                              *)

\* enqueue_task: a row that exists keeps all but its payload and priority.
Enqueued(t, source) ==
    IF row[t].status = "absent"
    THEN [row[t] EXCEPT !.source = source, !.status = "queued"] ELSE row[t]

Enqueue(t, source) ==
    /\ row' = [row EXCEPT ![t] = Enqueued(t, source)]
    /\ UNCHANGED manual

ReadyRows(t) == row[t].status = "queued" /\ row[t].due
FromCloud(t) == row[t].source = "cloud"

\* update_task_status: next_retry_at and the increment are arguments.
SetStatus(t, status, increment, due) ==
    row' = [row EXCEPT ![t].status = status,
                       ![t].retries = @ + increment,
                       ![t].due = due]

RetryFallsDue(t) ==
    /\ ~row[t].due
    /\ row' = [row EXCEPT ![t].due = TRUE]
    /\ UNCHANGED <<process, manual, exec, history>>

----------------------------------------------------------------------------
(* The worker.                                                             *)

Synchronous == {"picked", "marked", "answered", "telling", "failing"}
Executing == {"marked", "started", "turn", "answered", "failing"}

\* No coroutine of w stands between two calls that are not awaited.
Quiet(w) == \A t \in Tasks : exec[w][t].at \notin Synchronous

BeingRun(w) == {t \in Tasks : exec[w][t].at # "none"}
Holders(t) == {w \in Workers : exec[w][t].at # "none"}

At(w, t, point) == exec' = [exec EXCEPT ![w][t].at = point]
Leave(w, t) == exec' = [exec EXCEPT ![w][t] = Unoccupied]

\* An exception that nothing catches: the task's row stays as it is.
Abandon(w, t) == Leave(w, t) /\ orphans' = orphans \cup {t} /\ UNCHANGED queue

StartWorker(w) ==
    /\ up[w] = "down" /\ starts < MaxStarts
    /\ starts' = starts + 1
    /\ up' = [up EXCEPT ![w] = "up"]
    /\ UNCHANGED <<queue, exec, history>>

\* _on_ws_task and the claim: a task of the control plane, perhaps once more.
ReceiveTask(w, t) ==
    /\ up[w] = "up" /\ Quiet(w)
    /\ row[t].status = "absent" \/ FromCloud(t)
    /\ Enqueue(t, "cloud")
    /\ UNCHANGED <<process, exec, history>>

AddLocal(t) ==
    /\ row[t].status = "absent"
    /\ Enqueue(t, "local")
    /\ UNCHANGED <<process, exec, history>>

\* pop_next_queued_task, its SELECT.
Pick(w, t) ==
    /\ up[w] = "up" /\ Quiet(w)
    /\ Cardinality(BeingRun(w)) < Concurrency
    /\ exec[w][t].at = "none"
    /\ ReadyRows(t)
    /\ At(w, t, "picked")
    /\ UNCHANGED <<process, queue, history>>

\* pop_next_queued_task, its UPDATE, which does not ask for the status again.
Mark_MutClaimed(w, t) ==
    /\ exec[w][t].at = "picked"
    /\ row' = [row EXCEPT ![t].status = "claimed"]
    /\ At(w, t, "marked")
    /\ UNCHANGED <<process, manual, history>>

Mark(w, t) ==
    /\ exec[w][t].at = "picked"
    /\ row' = [row EXCEPT ![t].status = "running"]
    /\ At(w, t, "marked")
    /\ contested' = IF row[t].status = "queued" THEN contested ELSE contested \cup {t}
    /\ UNCHANGED <<process, manual, runs, told, orphans>>

\* The rest of pop: the row is read again; create_task.
Take(w, t) ==
    /\ exec[w][t].at = "marked"
    /\ exec' = [exec EXCEPT ![w][t] = [at |-> "started", retries |-> row[t].retries]]
    /\ UNCHANGED <<process, queue, history>>

\* The UPDATE or the rest of pop fails: the loop ends, and the task stays
\* "queued" or "running".
TakeFails(w, t) ==
    /\ \/ exec[w][t].at = "picked" /\ Leave(w, t) /\ UNCHANGED <<queue, orphans>>
       \/ exec[w][t].at = "marked" /\ Abandon(w, t)
    /\ up' = [up EXCEPT ![w] = "draining"]
    /\ UNCHANGED <<starts, runs, told, contested>>

\* make_provider or AgentLoop() raises, before the try: the task of asyncio
\* ends unheard, and the worker goes on.
SetupFails(w, t) ==
    /\ exec[w][t].at = "started" /\ Quiet(w)
    /\ Abandon(w, t)
    /\ UNCHANGED <<process, runs, told, contested>>

\* _execute_task up to its await; a progress report that fails is a failure.
StartTurn(w, t) ==
    /\ exec[w][t].at = "started" /\ Quiet(w)
    /\ \/ At(w, t, "turn")
       \/ FromCloud(t) /\ At(w, t, "failing")
    /\ runs' = [runs EXCEPT ![t] = IF @ < MaxRuns THEN @ + 1 ELSE @]
    /\ UNCHANGED <<process, queue, told, contested, orphans>>

TurnEnds(w, t) ==
    /\ exec[w][t].at = "turn" /\ Quiet(w)
    /\ \E point \in {"answered", "failing"} : At(w, t, point)
    /\ UNCHANGED <<process, queue, history>>

Complete(w, t) ==
    /\ exec[w][t].at = "answered"
    /\ \/ SetStatus(t, "completed", 0, TRUE) /\ At(w, t, "telling")
       \/ UNCHANGED row /\ At(w, t, "failing")
    /\ UNCHANGED <<process, manual, history>>

\* The events are logged, and report_task_result is heard or not; when it was
\* heard the answer may be lost.
Tell_MutSwallow(w, t) ==
    /\ exec[w][t].at = "telling"
    /\ \E heard \in IF FromCloud(t) THEN BOOLEAN ELSE {FALSE} :
          told' = IF heard THEN [told EXCEPT ![t] = @ \cup {"result"}] ELSE told
    /\ Leave(w, t)
    /\ UNCHANGED <<process, queue, runs, contested, orphans>>

Tell(w, t) ==
    /\ exec[w][t].at = "telling"
    /\ \/ ~FromCloud(t) /\ Leave(w, t) /\ UNCHANGED told
       \/ /\ FromCloud(t)
          /\ told' = [told EXCEPT ![t] = @ \cup {"result"}]
          /\ Leave(w, t) \/ At(w, t, "failing")
       \/ At(w, t, "failing") /\ UNCHANGED told
    /\ UNCHANGED <<process, queue, runs, contested, orphans>>

\* The handler of every exception: requeue_with_backoff by the retry_count
\* read at the claim (a failing progress report only warns), or status "failed".
\* A write that raises here leaves the row as it is.
Retry_MutStatus(w, t) ==
    /\ exec[w][t].at = "failing" /\ exec[w][t].retries < MaxTaskRetries
    /\ SetStatus(t, "running", 1, FALSE)
    /\ Leave(w, t)
    /\ UNCHANGED <<process, manual, history>>

Retry(w, t) ==
    /\ exec[w][t].at = "failing" /\ exec[w][t].retries < MaxTaskRetries
    /\ \/ SetStatus(t, "queued", 1, FALSE) /\ Leave(w, t) /\ UNCHANGED <<manual, orphans>>
       \/ Abandon(w, t)
    /\ UNCHANGED <<process, runs, told, contested>>

GiveUp(w, t) ==
    /\ exec[w][t].at = "failing" /\ exec[w][t].retries >= MaxTaskRetries
    /\ \/ /\ SetStatus(t, "failed", 0, TRUE)
          /\ Leave(w, t)
          /\ \/ UNCHANGED told
             \/ FromCloud(t) /\ told' = [told EXCEPT ![t] = @ \cup {"failure"}]
          /\ UNCHANGED <<manual, orphans>>
       \/ Abandon(w, t) /\ UNCHANGED told
    /\ UNCHANGED <<process, runs, contested>>

\* `house tasks retry`, whatever the status is.
RetryByHand(t) ==
    /\ row[t].status # "absent" /\ manual[t] < MaxManual
    /\ SetStatus(t, "queued", 1, TRUE)
    /\ manual' = [manual EXCEPT ![t] = @ + 1]
    /\ IF Holders(t) = {}
       THEN orphans' = orphans \ {t} /\ UNCHANGED contested
       ELSE contested' = contested \cup {t} /\ UNCHANGED orphans
    /\ UNCHANGED <<process, exec, runs, told>>

\* --run-once or a signal: no more tasks are taken, the running ones finish.
Drain(w) ==
    /\ up[w] = "up" /\ Quiet(w)
    /\ up' = [up EXCEPT ![w] = "draining"]
    /\ UNCHANGED <<starts, queue, exec, history>>

Exit(w) ==
    /\ up[w] = "draining" /\ BeingRun(w) = {}
    /\ up' = [up EXCEPT ![w] = "down"]
    /\ UNCHANGED <<starts, queue, exec, history>>

\* The process dies; nothing looks at its rows when it starts again.
Crash(w) ==
    /\ up[w] # "down"
    /\ up' = [up EXCEPT ![w] = "down"]
    /\ exec' = [exec EXCEPT ![w] = [t \in Tasks |-> Unoccupied]]
    /\ orphans' = orphans \cup {t \in BeingRun(w) : exec[w][t].at # "picked"}
    /\ UNCHANGED <<starts, queue, runs, told, contested>>

WorkerStep(w, t) ==
    \/ Mark(w, t) \/ Take(w, t) \/ TakeFails(w, t) \/ SetupFails(w, t) \/ StartTurn(w, t)
    \/ TurnEnds(w, t) \/ Complete(w, t) \/ Tell(w, t) \/ Retry(w, t) \/ GiveUp(w, t)

TaskNext ==
    \/ \E w \in Workers : StartWorker(w) \/ Drain(w) \/ Exit(w) \/ Crash(w)
    \/ \E w \in Workers, t \in Tasks : ReceiveTask(w, t) \/ Pick(w, t) \/ WorkerStep(w, t)
    \/ \E t \in Tasks : RetryFallsDue(t) \/ AddLocal(t) \/ RetryByHand(t)

TaskSpec == TaskInit /\ [][TaskNext]_taskVars

\* The worker's loop comes round, a turn ends, and clocks go on.
TaskFairness ==
    /\ \A t \in Tasks : WF_taskVars(RetryFallsDue(t))
    /\ \A w \in Workers, t \in Tasks :
          WF_taskVars(Pick(w, t)) /\ WF_taskVars(WorkerStep(w, t))

TaskFairSpec == TaskSpec /\ TaskFairness

----------------------------------------------------------------------------
(* Properties.                                                             *)

\* A task is executed by one worker at a time, however often it is pushed,
\* claimed and retried, unless two workers selected it before either marked
\* it, or somebody retried it by hand while it was being executed.
OneExecution ==
    \A t \in Tasks \ contested :
        Cardinality({w \in Workers : exec[w][t].at \in Executing}) <= 1

\* What the house calls completed the control plane has heard of, once the
\* worker has gone on, unless that worker was killed before it reported, or could
\* neither report nor queue the task again.
CompletedIsTold ==
    \A t \in Tasks \ (contested \cup orphans) :
        FromCloud(t) /\ row[t].status = "completed" /\ Holders(t) = {} => "result" \in told[t]

\* A task is not executed more often than its retries and the operator allow.
RunsAreBounded ==
    \A t \in Tasks \ contested : runs[t] <= MaxTaskRetries + 1 + manual[t]

\* A task's work is done once and told: the three above, of every behaviour of
\* the workers (sqlite_store.py:334-399, house_command.py:342-437).
WorkIsDoneOnceAndTold == OneExecution /\ CompletedIsTold /\ RunsAreBounded

\* A queued task is completed or failed in the end, unless no worker stays up or
\* the execution itself is abandoned: its worker dies, or an exception comes where
\* none is caught (before the try, or in the handler's own write).  A retry by hand
\* of a task so abandoned counts again.
QueuedIsSettled ==
    \A t \in Tasks :
        \/ \A w \in Workers : []<>(up[w] # "up")
        \/ row[t].status = "queued" ~>
               row[t].status \in {"completed", "failed"} \/ t \in orphans

============================================================================
