# Verification of joyhousebot's runtime

joyhousebot is a gateway that runs LLM agents: clients reach it over WebSocket RPC, HTTP and
chat channels; nodes (phones, desktops) connect to it; jobs run on a schedule. Almost all of it
is one asyncio process, so its hard questions are about what happens between two `await`s.
This directory models that runtime in TLA+, checks it with TLC and proves every safety
property that the passing runs check with TLAPS. Names of actions and state follow the source; `PROJECT.json` ("map")
gives the lines each definition stands for.

    tlc -workers 2 -config LaneQueue_faulty.cfg MCLaneQueue
    tlapm LaneQueue_proofs.tla

## Inventory

### Modelled

**Run registry, lanes and chat service** (`api/server.py`, `services/lanes`, `services/chat`).
State: `rpc_agent_jobs` (run id → record), `rpc_session_to_run_id` (the lane of a session),
`rpc_agent_job_futures`, `rpc_lane_pending` (queue of a session), `rpc_abort_requested`.
Operations: `chat.send`/`agent` register a run or queue it, a task executes it, completing it
frees the lane and starts the next queued item; `agent.wait` waits on the future of a run;
`chat.abort` sets a flag; `agent.request` events of nodes run outside the queue.
Hard: the emits of a task go to a connection that may close and raise, in the middle of the
bookkeeping; clients choose run ids; `wait_for` cancels a future that others share.
Correct when: one run per session at a time, in the order of acceptance; no accepted request is
lost; nobody waits for a run that is over.

**Exec approvals** (`api/rpc/exec_approval_methods.py`, `approvals/exec_approval_forwarder.py`).
State: `exec_approval_pending` (records), `exec_approval_futures`, the forwarder's targets.
Operations: `exec.approval.request` files a record and waits for its future, `resolve` decides,
`waitDecision` waits too, every call sweeps what has expired; the forwarder tells chats.
Hard: the futures dictionary is fetched before an await and stored back after it; timers race
answers; ids are reused.
Correct when: no decision is invented, a decision made in time reaches the requester, every
caller is answered.

**Sessions and memory consolidation** (`session/manager.py`, `agent/loop.py`).
State: a JSONL file per session, the manager's cache of Session objects, `last_consolidated`.
Operations: turns append and save, `/new`, delete, `chat.inject`, `sessions.compact`, restart,
and consolidation, which sends old messages to the model and then moves the offset.
Hard: a turn and a consolidation keep their Session object over a model call; the cache can
hold another one by then.
Correct when: the cache agrees with the file, stored messages are append-only, and every
message before the offset was really summarised.

**Long-term memory** (`agent/memory.py`, `agent/memory_janitor.py`, `agent/loop.py`).
State: MEMORY.md, HISTORY.md, daily logs and an archive per scope. Operations: the optional flush, the
answer of a consolidation, `/new`, edits by the agent, the janitor (another process), compaction.
Hard: MEMORY.md is read before a model call and written after it; a write truncates first; `/new`
clears a conversation before it is recorded. Correct when: nothing known or said is lost.

**Cron service** (`cron/service.py`, `cli/command_groups/cron_command.py`).
State: the list of jobs, the timer task, `jobs.json`. Operations: add, remove, enable, run,
start, stop, the tick, and the same edits by a command in another process.
Hard: every edit cancels the timer task, which may be in the middle of a job's turn; a tick
works through a list it made before its awaits; saves fail, and are not atomic.
Correct when: every enabled job stays covered by the timer, only due jobs are begun, a one-time
job runs once, the file is what a restart needs.

**Nodes and the RPC transport** (`node/registry.py`, `api/rpc/ws_rpc_methods.py`,
`api/rpc/node_runtime_methods.py`). State: the registry by node and by connection, the pending
invokes with their futures, what a connection's coroutine is awaiting. Hard: frames of a
connection are handled one after another; a node reconnects before its old connection is cleaned
up; results race timeouts. Correct when: the registry names what is served, an invoke is answered
once, a connection that is gone is cleaned up.

**Connections and presence** (`api/server.py`, `presence/store.py`). State: `rpc_connections`, the
presence entries and their keys. Hard: the table is replaced while a broadcast holds it; entries
change their owner. Correct when: every open connection hears broadcasts, closed ones leave nothing.

**Message bus, channel manager, subagents** (`bus/queue.py`, `channels/manager.py`,
`agent/subagent.py`). State: two queues, one consumer and one dispatcher, the chat the tools are
set to. Hard: turns beside the consumer set the tools of a turn under way; sends and turns fail.
Correct when: every message is answered in its chat, every subagent is heard of.

**Mailbox** (`channels/plugins/builtin/email.py`). State: the flags on the server, the uids known,
the poll. Hard: the poll runs in a thread and marks before it returns. Correct when: a mail is
published once.

**Model fallback** (`agent/loop.py`, `agent/subagent.py`, `agent/auth_profiles.py`). State: marks of
models and profiles per loop, the stored usage, a turn's candidates. Hard: turns share the marks
and read them once. Correct when: a turn gives up only after every model had its chance.

**Collaboration** (`agent/collaboration`). State: tasks with dependencies, results, batches; the
topics of a deliberation. Hard: the dependencies come from a model. Correct when: it ends.

**Task queue and house worker** (`storage/sqlite_store.py`,
`cli/command_groups/house_command.py`). State: rows with a status and retries; where a worker is.
Hard: two workers, crashes, reports that fail. Correct when: a task is done once and told, a queued
one is settled.

**Alerts** (`services/control/overview_service.py`, `api/server.py`). State: what is wrong, since
when, what was wrong lately; all of it in a store that may fail. Correct when: the history is true.

**Wallets and payments** (`identity/`, `financial/`, `cli/command_groups/wallet_command.py`). State:
the table, the old file, the unlocked session, a payment. Hard: two processes; two reads that
belong together. Correct when: no key is lost or mixed up; limits hold.

**Configuration** (`config/`, `services/config`, `services/agents`, `services/skills`). State: the
file, the cache, the served object. Hard: objects are shared and changed before they are
validated; the file is truncated before it is written. Correct when: what is served is what a
restart would serve.

**Plugins** (`plugins/`). State: the registry, the hooks, what was started, the circuit. Hard: a
reload while a thread starts services and a turn asks hooks. Correct when: no handler is passed
over and what runs is known.

**Knowledge pipeline** (`services/knowledge_pipeline`, `services/retrieval/store.py`). State: source,
converted files, rows; a worker per agent loop. Hard: several over one workspace, each ending
anywhere. Correct when: a document is in the index once and whole.

### Not modelled

| component | why |
|---|---|
| the adapters of `channels/plugins/builtin` but for the mailbox, the WhatsApp bridge | network and message formats; what they share is in MessageRouting |
| providers, control-plane clients | HTTP clients; their failures are choices in ModelFallback and TaskQueue. `CloudClient` is constructed by nothing |
| gateway authentication, pairing, rate limits | not a subject of this project |
| `plugin_host` (OpenClaw subprocess) | no code starts it |
| vectors, QMD, search, insights, lessons and index that compaction derives | data rather than control |
| skills, agent tools, CLI commands, HTTP handlers | single calls with I/O; those that change modelled state are actions of the module that has the state |
| sandbox, browser, frontend | drivers of external programs, user interface |

How they interact: channels publish to the bus, whose one consumer is `AgentLoop.run`; the
gateway's `chat.send` calls the same loop from its own tasks, serialised per session by the
lanes; both append to sessions and start consolidations; cron and the house worker call
`process_direct` outside the lanes; subagents report through the bus; approvals are asked by
tools and answered over RPC or by chat; a node's agent request is a turn that may invoke the node;
every start of an AgentLoop starts a knowledge pipeline; a turn asks the hooks of the plugins before
each tool.

## Conventions

One action is one stretch of code between two awaits, or, where processes and threads share a file
or a database, one statement of it. A handler that awaits is a record that says how far it has come.
Names ending in `_Mut...` are broken variants of the definition below them, kept to show that a
property notices the break; no specification uses them. A run that is expected to fail states what
the documentation says and the code does not do.

**Unions.** A component is one module with its variables, initial states, next-state relation and
fairness. Components that share no state are checked in one run: `MCGateway`, `MCRecords`,
`MCServices` and `MCSessionMemory` extend several modules and add `part`, which names the one that moves; the others keep
one initial state of theirs. A behaviour of the union is a behaviour of one component, so an
invariant of a component is checked over all its behaviours and no product of states is built.
Fairness is asked of the part that runs. The theorems `...AreParts` say it of the specifications
(`ServicesSpec => QueueInit /\ [][QueueNext]_queueVars`, and so for each part), which carries
what is proved of a component over to the run.

**Selection.** `Kept(s, S)` is what the code's list comprehensions with a condition return. It equals
`SelectSeq`, whose recursion the provers cannot unfold, and is written by the rank of a place so that
`Selection_proofs` can state what is kept, in which order and how often.

| run | parts | properties |
|---|---|---|
| `lane_faulty` | LaneQueue with faults | TypeOK, JobHoldsLane, AnswerIsFinal, NoStrandedQueue, WaiterHasPendingRun, QueueHoldsQueued |
| `records` | LaneQueue with fresh ids, ConnectionTable, Alerts, Wallets, ConfigStore, PluginRuntime, EmailChannel, KnowledgePipeline | RecordsTypesOK; OneRunPerSession, ServesInOrder; BroadcastsAreHeard; HistoryIsTrue; KeysSurvive; ConfigIsCoherent; PluginsAreKept; MailIsReadOnce; IndexIsWhole |
| `gateway` | NodeGateway, CronService | GatewayTypesOK; NodesAreTrue, DeadConnectionsGo; TimerCovers, DiskIsCurrent, BeginsOnlyDue, RepeatsOnlyCancelled, DueJobsRun |
| `services` | TaskQueue, MessageRouting, ModelFallback, Collaboration | TypesOK; WorkIsDoneOnceAndTold, QueuedIsSettled; ToolsServeTheirTurn, EveryoneHears; ErrorTriedEverything; CollaborationEnds |
| `sessions` | SessionMemory, LongTermMemory | SessionsTypesOK; CacheIsOnDisk, QuietOffsetIsHonest, OnlyStaleTurnsOverwrite; NothingIsForgotten |
| `approval_calls` | ExecApproval | TypeOK, NoPhantomGrant, ListedIsDecidable, EveryoneIsAnswered |
| `lane_overlap`, `approval_lost`, `session_offset`, `cron_once`, `payments`, `header_names` | one each, expected to fail | see Findings |

## LaneQueue, StrictLane

| code | model |
|---|---|
| `rpc_agent_jobs`, `rpc_session_to_run_id`, `rpc_agent_job_futures`, `rpc_lane_pending`, `rpc_abort_requested` | `jobs`, `lane`, `futures`, `pending`, `aborts` |
| `_register_agent_job`, `_complete_agent_job` | `Register`, `CompleteAgentJob` (operators that actions call in the code's order) |
| `_complete_and_trigger`, `_trigger_lane_next` | `CompleteAndTrigger` |
| `_chat_send_or_agent` | `ChatSendBusy`, `ChatSendFree` |
| `_run_agent_job`, `run_agent_job_with_params` | `EmitStart`, `EmitStartRaises`, `AgentReplies`, `AgentAborts`, `AgentRaises`, `Announce`, `AnnounceRaises` |
| `_run_node_agent_request` | `NodeRequest` |
| `_wait_agent_job` | `AgentWait`, `WaiterResumes`, `WaitTimesOut` |
| a websocket that closes | `Disconnect`; emits to it raise |

`StrictLane` is the promise: a session is a queue whose head alone is served. In the run `records`
LaneQueue implements it (`ServesInOrder`).

| run | instance | shows |
|---|---|---|
| `records` | four requests of one session, queue of 2, an abort, open connections | one run at a time, every accepted request ends, StrictLane is implemented |
| `lane_faulty` | four requests of which two use one run id and one is a node's, two sessions, queues of two, a connection that may close, an abort, a waiter | lane and record of an id used once agree, answers are final except through a closed connection or a reused id, only a node's task or a reused id leaves a queue behind a free lane, no waiter is left on a run that is over, no queued request is lost or doubled |
| `lane_overlap` (fails) | a connection that closes | `chat_service.py:166`: completing twice starts two runs of a session |

Three requests of clients and a queue of two are the least in which a dequeued request is refused its
registration, because its id was used before, with another one queued behind it; two sessions the
least that lets a run id cross lanes. Reused ids do break the lanes: such a request runs without a
record and without the lane, completes the record of the run that has its id by then, and leaves
what is queued behind it where it is. `JobHoldsLane` and `NoStrandedQueue` therefore speak of the
ids used once and of the sessions where no reused id has begun, and hold there whatever others do.
One waiter per run of TLC; that several share a future is covered by the theorem `WaitersAreServed`. A task
that dies in its first emit keeps the lane: no queue stands behind a free lane then, but the session
is stuck. Fairness: each task takes its next step and
a woken waiter resumes (the event loop; model calls have time limits). Clients need not send.

Proved for all constants: `TypeCorrect`; `WaitersAreServed` (every parked waiter has a pending
future and a running job); `QueuesAreSound`; `LanesAgree`, for every id used once; `OneAtATime`, if all run ids are fresh,
connections stay open, the trace store works and no node sends requests. The
invariant is TypeOK with `WaiterInv`, `QueueInv`, `LaneInv` and `ReliableInv`: the lane of a
session names a run exactly while a task of that run has not completed it, which is what
makes releasing by name safe.
`AnswersStay` is `AnswerIsFinal`: a run whose id is used once is blank until its request
starts and over once a wait was told so, and only its own task can then change its status, after an emit
or a trace raised (`AnswerInv`). `NoneStranded` is `NoStrandedQueue`, for any reuse of ids:
whoever frees a lane registers the oldest waiting request in the same step, all but the
task of a node's request, which knows no queue, and a request whose id has a record (`StrandInv`). `LanesAreStrict`: under the
conditions of `OneAtATime` each step is a step of StrictLane or a stutter, which is the safety half of
`ServesInOrder`. Its other half, that every accepted request ends, is liveness and only model-checked.

Not modelled: `chat_session_serialization` off; the contents of events and traces; the HTTP
handlers of `server.py`.

## ExecApproval

| code | model |
|---|---|
| `exec_approval_pending`; a record's decision and deadline | `pending`; `decision`, `overdue` |
| `exec_approval_futures` and who holds which dictionary object | `dict`, `current` (each call may have brought one) |
| futures | `result` |
| `exec.approval.request` | `RequestRefused`, `Request`, `Forward`, `RequestResumes`, `RequestTimer`, `RequestExpires` |
| `exec.approval.waitDecision` | `WaitAnswered`, `WaitDecision`, `WaitResumes`, `WaitTimer` |
| `exec.approval.resolve`, the forwarder's notice | `ResolveUnknown`, `Resolve`, `NotifyResolved` |
| `_cleanup_expired_exec_approvals` | `Swept...`, part of every call |

| run | instance | shows |
|---|---|---|
| `approval_calls` | two requests of which one is forwarded, one waitDecision, one resolve, two ids that may be reused, fair | no decision without a resolve; while nothing has expired, what is listed can be decided; every request and wait returns |
| `approval_lost` (fails) | two requests, one resolve | `exec_approval_methods.py:88`: a decision made in time is lost with a replaced dictionary |

Two requests are needed for one to disturb the other's dictionary; more only repeat it. The proofs
hold for any number of resolves, the run has one.
Fairness: a request or a wait whose future is done or whose timer is due is resumed.
Proved: `ApprovalTypes`; `NobodyInventsADecision`, for any reuse of ids (`GrantInv`: every
decision in a record, a future or an answer is backed by a resolve call of that id, and by one
of that very request if nobody else used the id); `EveryListedApprovalCounts`, by `CalmInv`
(until the first expiry all calls share one dictionary and each listed record has its future
in it). Only model-checked: `EveryoneIsAnswered` (liveness). Not modelled: the
`exec.approvals.get/set/node.*` calls on the approvals file, the choice of targets (a constant
says which requests are forwarded), two timers in one iteration of the loop.

## SessionMemory

One session key. `heap` holds the Session objects alive, `cached` the one in the manager's
cache, `file` the file; `turn` and `task` the turns and consolidations with the object they
took. `archived`, `raced` and `injected` are history.

| code | model |
|---|---|
| `get_or_create`, `save` | `Fetch`, `Save`, used by the actions |
| `_process_message` and `_process_system_message`: up to and after the model calls | turn start and end actions; `TurnFails` |
| `/new`, `sessions.delete`, `chat.inject`, `sessions.compact` | an action each |
| `_consolidate_memory` up to and after the model call | `ConsolidationStarts`, `ConsolidationEnds`, `ConsolidationFails` |
| the gateway's restart | `Restart` (save replaces the file atomically, so a crash is a restart) |

| run | instance | shows |
|---|---|---|
| `sessions` | two turns, two injects, one compaction, three objects, memory window 2 | the cache is on disk, stored messages only grow or are cleared unless a stale turn ends, offsets are honest until a consolidation races |
| `session_offset` (fails) | three turns | `loop.py:1351`: the offset is computed after the await from the new length; messages that were never in a prompt count as summarised |

Window 2 keeps one message and makes the second turn consolidate; three objects allow a stale
turn, a stale consolidation and a fresh session at once. No fairness is needed.
Proved (in `Memory_proofs`, with LongTermMemory): `SessionTypes`; `CacheNeverLags`; `StoredIsAppendOnly` (action property);
`QuietOffsets`, by `HonestInv`: until a race, the offset in the file, in every object and in
what every consolidation has read lies within its list and all messages before it were in the
prompt of a finished consolidation. Proved for every memory window and any number of turns.
Not modelled: files that do not parse, errors of the disk, a second process
(the CLI) on the same file. What a consolidation writes to the memory is LongTermMemory's.

## LongTermMemory (run `sessions`)

The files of one memory scope. A fact stands for a line of MEMORY.md and the messages it comes from.

| code | model |
|---|---|
| MEMORY.md, `archive/`, HISTORY.md, daily logs | `longTerm`, `archive`, `paragraphs`, `daily` |
| stored messages of a conversation | `talks` (which are due is SessionMemory's) |
| `_consolidate_memory` and the task of `/new` | `tasks`: `TaskReads`, flush (`FlushIsSkipped`, `FlushAdds`, `FlushIsRead`), answer (`ConsolidationIsAnswered`, `LogEntry`, `UpdateBegins`, `UpdateEnds`) or `ConsolidationGivesUp`; `atWork` is the task between two awaits |
| `edit_file` on MEMORY.md | `AgentEdits` |
| `_run_janitor_one`, in a process of its own | `JanitorReads`, `JanitorMoves`, `JanitorEnds` |
| the end of the gateway | `MemoryGatewayEnds`: its tasks are gone |

Two facts of which one has expired, one conversation, two tasks, one janitor's run and one end or
failing call: enough for two tasks, or a task and the janitor, to cross, and for an end between any
two writes. `NothingIsForgotten`: what has been in MEMORY.md is in it or in the archive unless a
writer wrote over what it had not read (`overwritten`) or a process ended while the file was truncated
(`torn`); and what was said is stored or in a daily log unless the task of a `/new` failed
(`dropped`). The code guards against none of these three: nothing serialises
the writers of MEMORY.md, it is not replaced atomically, and `/new` clears first. Assumed of the model: its update keeps the
lines it was shown, as the prompt asks.

Proved: `MemoryForgetsNothing`, for any facts, conversations and tasks. That a write loses nothing
depends on what its writer read before, so `MemoryInv` follows that through every stage
of a task: what a task that is not stale goes by covers, with the archive, all that was ever recorded, unless it
was read while the janitor wrote, whose write then makes the task stale (`TasksKnow`, and `JanitorKnows` of the janitor); what `/new` took out of a
conversation is in its task's hand until it is in a log (`WordsKept`). `SessionsAreParts` and
`SessionsTyped` speak of the run.

## CronService

| code | model |
|---|---|
| `_store.jobs`, `jobs.json` | `store`, `file`: functions from job numbers to jobs |
| `_timer_task` | `timer`: none, sleeping, or in the turn of a job with the rest of its list |
| `_compute_next_run` | `NextRun`; croniter is the constant `CronNext` |
| `_save_store` then `_arm_timer` | `Commit`, `ArmTimer`; a save may raise |
| `_on_timer`, `_execute_job` | `TimerFires`, `TurnEnds`, `Finished` |
| `add_job`, `remove_job`, `enable_job`, `run_job` | `AddJob`, `RemoveJob`, `EnableJob`, `RunJob`, `RunJobEnds` |
| `start`, `stop`, the end of the process | `Start`, `Stop`, `Exit` (which may tear the file) |
| `joyhousebot cron ...` | `CommandLoads`, `CommandSaves`, `CommandFails` |

| run | instance | shows |
|---|---|---|
| `gateway` | two jobs of three schedules, instants 0 to 2, two calls, commands or stops beside the adds, failing saves | the timer covers the enabled jobs, the file is current, a tick begins only due jobs, a one-time job is begun again only if a call cancelled its turn, no job stays due |
| `cron_once` (fails) | adds only | `service.py:190`: an add during the turn of a one-time job cancels it, and it is begun again. The agent's own cron tool does the same from inside the turn |

Two jobs give a tick a list with a rest; two calls allow an edit and a manual run, a stop or a
command to meet in one tick. `turns`, `stale` and `foreign` are history: which turns were begun
or cancelled, whether the last save raised, whether a command wrote the file since.
Fairness: a due timer fires and a job's turn ends (model calls and tools have time limits).
`MaxCalls` is also an assumption of `DueJobsRun`: callers eventually leave the service alone;
a job that always adds jobs is never finished.
Proved: `CronTypes`, `NoJobIsForgotten`, `FileIsCurrent`, `OnlyDueJobsBegin`. The invariant
`TickInv` says that the rest of a tick's list is due: that holds although the list is old, only
because each successful edit cancels the tick. `OnlyCancelledRepeat` is `RepeatsOnlyCancelled`: `OnceInv`
follows a one-time job through all copies of the list (memory, file, a command's): its
schedule is the same in all, once begun its instant is past, and while the service is up
it is the turn in progress or has no next run. Only model-checked: `DueJobsRun` (liveness). Abstracted: a cancelled turn stops at once (its next await; a turn that called the
cron tool calls the model again), the clock is not set back, the file is read whole except by a
command.

## NodeGateway (run `gateway`)

| code | model |
|---|---|
| `_nodes_by_id`, `_node_sockets`, `_nodes_by_conn`, `_pending` | `nodes`, `byConn`, `pending` |
| the websocket, its coroutine, the name it connected under | `link`, `loop`, `names` |
| `run_ws_rpc_loop`: accept, challenge, frames, replies, clean-up | `Open`, `Challenged`, `Reads`, `Reply`, `ReplyFails`, `BadFrame`, `Closed`, with `Cleanup` |
| `register`, `unregister` | `Register`, `Unregister` |
| `invoke`: send, wait, time out; `handle_invoke_result` | `StartInvoke`, `Sent`, `SendFails`, `InvokeResumes`, `InvokeTimesOut`, `ResultFrame` |
| `node.invoke` of an operator, an agent request of a node and its tools, a runner | `OperatorInvokes`, `AgentRequest`, `TurnInvokes`, `RunnerInvokes` |

Two connections that both go by id n1, one of them by the other id too (`IdsOf`, so that the
connections differ), and one invoke: the least with a reconnect before the clean-up, an id taken
over and a connection that connects twice. Shown: `NodesAreTrue`, whose exceptions (a connection
that connected twice under different ids; a node that came back before its older connection was
cleaned up) are states the code reaches; `DeadConnectionsGo`: even the node whose agent request waits
for an invoke of itself is freed, by the timeout. Fairness: every coroutine that can go on does and
a timer of `wait_for` fires; peers need not do anything.

Proved (in `Gateway_proofs`, with CronService): `NodeTypesCorrect` and `RegistryTellsTruth`, for any
connections, ids and invokes. `NodesAreTrue` is inductive only with `NodeInv`: what
is registered is served (`ServedOnly`), a connection in its registration has the name it gave
(`ConnectsAs`), two connections under one id are marked as the exception (`SharedIsMarked`), and
an open future is pending at a listed node (`OpenFuturesPend`). `GatewayTyped` is the type invariant of the run. Only
model-checked: `DeadConnectionsGo` (liveness).

## ConnectionTable (run `records`)

`tables` are the dictionary objects, `inUse` the one `app_state` names (`or {}` makes a new one when
it is empty); a broadcast keeps the object it fetched and stores it at its end when a send failed.
`entries` and `keyOf` are the presence list. Three sockets, one broadcast, one shared instance id,
a cap of two entries and one presence frame: an overtaken broadcast, an eviction and an entry that
changes its owner. `BroadcastsAreHeard` excludes what follows once a broadcast stored an old
dictionary (`restored`) and connections that failed during their bootstrap.
Proved: `EventsReachPeers`, by `TableInv`: an entry's owner is what `keyOf` says, the table in use
has exactly the connections that are read until a broadcast restored an old one, and a closed
connection has no entry. It needs more objects than broadcasts, so that a new dictionary is never one in use.

## TaskQueue (run `services`)

| code | model |
|---|---|
| `task_queue` rows | `row`: status, retry count, source, whether it is due |
| `enqueue`, the claim's SELECT and UPDATE | `Enqueue`, `Pick`, `Mark` (two statements) |
| `_execute_task` | `SetupFails`, `StartTurn`, `TurnEnds`, `Complete`, `Tell`, `Retry`, `GiveUp`; `Abandon` where nothing catches an exception |
| worker start, drain, end, crash | `StartWorker`, `Drain`, `Exit`, `Crash` |
| `_on_ws_task`, `house tasks add`, `house tasks retry` | `ReceiveTask`, `AddLocal`, `RetryByHand` |

Two workers, one task, one retry, one retry by hand, two starts: two workers are the least that
claim one task, a second start the least that finds what a crash left. Each write of the database and each
call of the control plane may raise. `contested` marks the tasks that two workers had selected or
that were retried by hand while executed; `orphans` those whose worker ended, or whose coroutine did:
the provider and the loop are made before the `try`, and the handler's own write may raise, so the row
stays as it is while the worker goes on. The code recovers neither (a retry by hand
takes an orphan back into the count) and the properties exclude them. Fairness: a backoff
elapses and a worker that is up goes on.
Proved: `WorkIsDone`, by `QueueInv` (an uncontested task has one holder, its runs are
paid for by retries, a completed one is being told or was told), and `RetriesAreBounded`:
workers write the count they read, so it passes its limits by at most one for each worker.
Only model-checked: `QueuedIsSettled` (liveness).

## MessageRouting (run `services`)

`inbound` and `outbound` are the queues of `MessageBus`; `turn` the consumer's turn and the turns
beside it; `toolChat` the field of the tools that `_set_tool_context` writes; `helper` the
subagents. Actions follow `AgentLoop.run`, `process_direct`, `_dispatch_outbound`, the message and
spawn tools, and the announcement of a subagent. Two chats, one message, one turn beside the consumer, one
subagent: enough for a turn to be crossed by another one. `ToolsServeTheirTurn` excludes turns
that overlapped: then the tools speak to the other turn's chat. Fairness: consumer, dispatcher,
turns and subagents go on (their calls have time limits).
Proved: `ToolsServeTurns` (`RoutingInv`: until another turn overlaps it, the field of the tools holds the chat of the
turn that goes on). Only model-checked: `EveryoneHears` (liveness).

## ModelFallback (run `services`)

`cooling`, `failures`, `resting` are a loop's marks, `saved` the stored usage, `ask` the locals of
`_call_provider_with_fallback` in a turn. What a provider answers and when a cooldown elapses is
open; subagents (`Managers`) keep no marks. Two loops, two turns, two models of which one has an
auth profile, two rounds, and the exponent of the cooldown leaves the range of floats at the second
failure instead of the 1025th (`FloatLimit`; `Overflows` raises, which is neither "error" nor an
answer; `MarkRaises` is the same of a profile's cooldown, whose own count is left open, and a usage
that cannot be written). `ErrorTriedEverything`: a turn ends with a model's error only after all its candidates.
Proved: `ErrorsTryEverything`, by `FallbackInv`: the models tried, skipped and still to be asked
are together the candidates of the call, none twice; and `CallsAskOnce`.

## Collaboration (run `services`)

`collaborate` (decomposition, batches of at most `MaxConcurrent` tasks, retries, skipping what cannot
run, aborting) and `deliberate` (topics with dependencies). Three tasks with arbitrary dependencies
(cycles of two and three, and a task that waits for a cycle), one retry, two topics, one round.
`CollaborationEnds` is liveness under the fairness that what is ready is run and an attempt ends at
its timeout. It is only model-checked; proved are the two facts it rests on, for any number of tasks:
`ExecutionShrinks` (a result stands, and each batch that is gathered leaves strictly fewer tasks)
and `CollaborationKeepsLimits` (attempts, batches and rounds keep their bounds).

## Alerts (run `records`)

`Raised` computes the alerts from the state of the program, `Overview` reads the store, compares,
dates, moves what is over to the history and writes back; each of the store's calls may fail
silently: `doubt` remembers it of the history, and a status of the worker that cannot be read raises
no alerts. Two channels, one profile, two instants and a worker that is stale at the second one, two
changes, a history of two: an alert can be raised, be over (or be missed once, with the worker's
status), come back and push an older one out.
Proved: `HistoryTellsTruth` (`AlertInv`: what is shown is what is active, unless the store failed; the
spells of an alert are apart, and over before the one that is active began).

## Wallets (runs `records`, `payments`)

| code | model |
|---|---|
| `wallets` table, `wallet.enc`, `config.wallet.address`, the session | `rows`, `legacy`, `wconfig`, `unlocked` |
| the row is written or deleted, then `wallet.enc` removed | `erasing`, `EraseFile`, `EraseFails` (killed, or not removable) |
| `wallet init`, `create`, update that enables or disables, `set-default` | `WalletCommandInit`, `Create`, `EnableWallet`, `DisableWallet`, `SetDefault` |
| `change-password`: decrypt, then write; `unlock`: address, then key | `ChangeReads`, `ChangeWrites`; `UnlockReads`, `UnlockDecrypts` |
| `X402Client` within one call of `x402_fetch` | `PayAsked`, `PaySigns`, `PayEnds` |

Two keys, two passwords, three commands or updates, one payment (two in `payments`). New rows are
numbered by `NewId`, as AUTOINCREMENT does. The gateway unlocks before it serves and
its updates come one at a time (`GatewayIsFree`), so the branch of `decrypt_wallet` that moves the file into an
empty table is not reached by an unlock; `wallet show-key`, where it can be, is not modelled. `KeysSurvive` excludes an unlock during which the default
wallet changed: the session then holds one address and another key.
Proved: `WalletKeysSurvive`, by `WalletInv`: each row has the key of its address and shares it with no other (`KeysApart`), each key made
and not deleted is in a row or in the old file (`KeysKept`), a change of password that is between its read and
its write holds the key of its row, for no id is given twice (`ChangeKnows`), and an unlock between its
two reads the address of the default wallet, unless that moved (`SessionKnows`).

## ConfigStore (runs `records`, `header_names`)

A content is a record of what the properties tell apart: an API key (typed, or from the
environment), a plain setting, the same under its name in an older format, a variable of `env`, keys
of a dictionary, agents. `Migrated`, `Dumped`, `Converted`, `Filled` and `Loaded` are what a load and a
save do to it; `Truncate` and `FileWritten` the two halves of a save, between which the process may die
or a command may read. One save at a time, two updates or commands, one agent; the initial files are
none and those in the older and the newer format. `ConfigIsCoherent` excludes an agent's update that
failed half way and a file written by a command since. It asks that a restart would load of the file what is
served, or what a save and a load make of that: the two conversions of names need not be inverse
(finding `header_names`), so a served object may change its names once more.
Proved: `ConfigStaysCoherent`, for any names and conversions (`ConfigInv`: while the gateway wrote the file
last, the file is a dump of what is served or was loaded into it, and the cache is what a load gives; loading it
again changes nothing, for its variables are in the environment).

## PluginRuntime (run `records`)

`native` is the registry of the latest load and what it started, `hooks` the handlers of
`before_tool_call` (loads add to them and never remove), `instances` what runs, `starter` the thread of
`start_services`, `asking` the turns that ask. Two plugins, a service and a channel, two loads, one
stop, a tool call, a circuit that opens at the first failure. A handler answers nothing (or raises, which
is logged), a result, or a block; `emit_first_result` takes the first answer and drops the others. So a
block may be overruled, and `PluginsAreKept` promises what the code keeps: every handler that was there
when the call began is asked before the tool is called or refused, and a block by one of the first priority is overruled
only by another of them that was there as well, not by what a load adds meanwhile. It excludes what was started or starting when a load
came: nothing stops it any more.
Proved: `PluginsStayKnown`. A turn walks a list that every load sorts anew;
`PluginInv` says that the list is its own sorting, so that a load moves a registration back at most and
the pointer of a turn passes none it has not asked, nor puts a newcomer before those of its priority; and that outside of what loads and starters crossed
the current registry has marked exactly what runs (`UnitsAreKnown`).

## EmailChannel (run `records`)

`mailbox` is the server's, `uids` is `_processed_uids` (emptied when it grows past its limit), `poll`
the thread with what it has to fetch and has got. A poll may fail at any mail, may be abandoned by a
stop, or end with the process. Two mails, a limit of one uid, five starts and polls: the limit is
passed, and mails are fetched again. `MailIsReadOnce`: a mail is published once, and once more only after its uid was
dropped; what a later poll would skip was published, is with the poll, or was with one that failed
or was abandoned (`mislaid`: these mails are lost).
Proved: `MailsAreReadOnce`, for any mailbox and limit, by `MailInv` (a mail was published or is in hand
no more often than it is known or was forgotten; what is known was published, is in hand or mislaid).

## KnowledgePipeline (run `records`)

| code | model |
|---|---|
| `knowledgebase/`, `knowledge/processed`, the table | `source`, `processed`, `indexed` (a version stands for a content) |
| watcher, queue and worker of a loop, or its subprocess | `piping`, `noticing` |
| `_watch_loop`; `convert_file_to_processed` | `Watch`; `Convert`, `WriteProcessed` (truncated and written, metadata first) |
| `index_processed_file`, `sync_processed_dir_to_store` | `LoadConverted`, `LoadProcessed`, `ClearRows`, `InsertRow` (a transaction a chunk) |
| start and end of the process | `StartPipeline`, `StartWatching`, `EndPipeline` |
| an exception in any of these steps, which the worker logs | `GiveUp` |

Two agent loops (a gateway and a command), one document of two chunks in two versions, two starts,
with threads and with the subprocess. Any step may raise, be it the parser, a file or the database.
`IndexIsWhole` excludes a document two pipelines had in hand at once (`crossing`); of one whose
pipeline ended or failed between two chunks (`broken`) the index may keep a part, never a mix of two versions. The
code repairs neither, since rows that are there are never replaced.
Proved: `IndexStaysWhole`, by `PipelineInv` (a document that is not crossed has one holder; while
it writes, the rows are the chunks it has inserted, and otherwise none, all, or the part that an end or
an error left, which nobody extends).

## Proofs

| module | about | its main invariants |
|---|---|---|
| `LaneQueue_proofs` | LaneQueue, StrictLane | WaiterInv, QueueInv, LaneInv, ReliableInv, AnswerInv, StrandInv |
| `ExecApproval_proofs` | ExecApproval | GrantInv, CalmInv |
| `Gateway_proofs` | NodeGateway, CronService, MCGateway | NodeInv, CronInv, OnceInv |
| `Memory_proofs` | SessionMemory, LongTermMemory, MCSessionMemory | HonestInv, MemoryInv |
| `Services_proofs` | TaskQueue, MessageRouting, ModelFallback, Collaboration, MCServices | QueueInv, RoutingInv, FallbackInv, CollabInv |
| `Records_proofs` | ConnectionTable, Alerts, Wallets, ConfigStore, PluginRuntime, EmailChannel, KnowledgePipeline | TableInv, AlertInv, WalletInv, ConfigInv, PluginInv, MailInv, PipelineInv |
| `RecordsRun_proofs` | MCRecords, with the lanes | RecordsTypesOK from the parts |
| `Selection_proofs` | `Kept` of Selection | |

Every invariant and every action property of a passing run is stated by a theorem; `Records_proofs`
takes ten minutes from nothing, the others seconds to two minutes. The bounds of the runs (how many
calls, steps, starts) are constants of the theorems: any natural number will do.

What stays with TLC: liveness under fairness (`EveryoneIsAnswered`, `QueuedIsSettled`,
`EveryoneHears`, `CollaborationEnds`, `DeadConnectionsGo`, `DueJobsRun`, the fair half of
`ServesInOrder`), for the prover knows neither ENABLED nor well-founded counting over behaviours; and the
six runs that are expected to fail, each of which is one counterexample.

**Assumptions.** The named ASSUMEs of the modules, all of which TLC evaluates: constants are of their
kind; "none" values differ from what they are the absence of; croniter answers with a later instant
or not at all; messages, helpers and direct turns are different things (`RoutingAssumption`); profiles, workers,
jobs and broadcasts are finite sets; models and plugins come as sequences; a broadcast that makes a new dictionary
finds an object that nobody holds (`TableAssumption`). Where a theorem says so, fresh run ids,
reliable connections, a working trace store, no node requests. Nothing is assumed of schedules.

What the proofs changed in the model: the bound of `retries` was a loose product
and is now what `RetriesAreBounded` shows; `ConfigIsCoherent` asked a restart to give what
a save and a restart give, which fails of a file just loaded when the conversions of names are not inverse; several
assumptions above were used silently before.

## Findings

* `chat_service.py:166` completes a job twice and overlaps two runs of a session (`lane_overlap`).
* `exec_approval_methods.py:88` loses a decision made in time (`approval_lost`).
* `loop.py:1351` skips messages in the consolidated memory (`session_offset`).
* `cron/service.py:190` runs a one-time job more than once (`cron_once`).
* `x402_payment.py:156` counts what is spent in an hour from zero in each call (`payments`).
* `config/loader.py:462` renames the keys of dictionaries such as `extra_headers` (`header_names`).

### Noticed while modelling, without a run

* `pipeline_worker.py:53` looks for `{stem}.md` while the converter writes `{doc_id}.md`: the default
  subprocess indexes nothing, although docs/DESIGN_AND_ARCHITECTURE.md:121 says that it builds the
  index. `ConvertedIsFound` fails for it; `IndexIsWhole` asks it of the threads only.
* `store.py:50`: the trigger gives the FTS5 `delete` command, whose values SQLite 3.40 refuses for a
  table with its own content once a document is indexed: re-indexing raises and nothing is replaced,
  although `indexer.py:25` says so. `MayClear` models it.
* The knowledge subprocess outlives a gateway that crashes and knows neither `watch_enabled` nor the
  chunk settings; a stop waits 5 s for a watcher that never ends.
* `exec_approval_forwarder.py:204`: chats that are asked after the decision are never told.
* `loop.py:458`: after 1024 failures in a row the cooldown raises and no fallback is asked.
* A poll of the mailbox that raises or is abandoned loses mails already marked; a stop while a
  channel connects leaves it connected; the WhatsApp channel keeps its socket after a clean close.
* Built-in channels read a `dict` configuration with `getattr` and so have empty tokens (Discord,
  Slack and DingTalk when they send, Mochat altogether).
* Plugins: a reload and the doctor register hooks again and never unregister; documented hooks such
  as `session_start` are emitted by nothing; a timed-out handler is still waited for at the exit of
  its pool; `circuitOpenHits` compares another code and stays 0; `setup_host` and
  `get_plugin_tool_names_for_agent` use members that do not exist.
* `dispatcher.py:136` keeps the first result only and a handler that raises is passed over, so a tool that
  a later policy blocks is called, although docs/zh/HOOK_SYSTEM_DESIGN.md:35 says that `before_tool_call`
  can intercept. `EldersAreHeeded` says what is left of it.
* `house_command.py:343`: what is made before the `try` raises unheard, for example without an API key; the
  task stays "running" and no worker takes it again.
* `server.py:3339`: a dequeued request whose run id has a record runs without lane and record, and what is
  queued behind it waits for the next completion in its session.
* The cron alert counts disabled jobs. `wallet show-key` moves an old `wallet.enc` into a table that an
  update has emptied meanwhile, with `set_wallet`, which would replace a wallet made while it decrypts the file.

## Coverage

The modules cover the parts whose difficulty is control. Most of the rest of the repository
is CLI output, schemas, adapters of network services and a user interface, which have no
interleavings of their own; widening the map to it would say nothing about it.

## Plan

1. Done: the modules above.
2. Done: theorems for every safety property of the passing runs, and for the step simulation
   of StrictLane by LaneQueue.
3. Abstract specifications for two more components, with their step simulation proved: an
   approval is decided once or expires (ExecApproval), a task is done by one worker
   (TaskQueue), each outside the exceptions that the invariants name.
4. A composition of lanes and sessions: turns of a session that pass the lanes never meet a
   stale object, unlike those of channels, cron and the bus.
