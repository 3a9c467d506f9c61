----------------------------- MODULE CronService -----------------------------
(***************************************************************************)
(* cron/service.py: the jobs, the timer task and the jobs' file, with the  *)
(* calls of the gateway's handlers and of the agents' cron tool, and the   *)
(* command line's `cron` commands, which work on the same file from a      *)
(* process of their own.                                                   *)
(*                                                                         *)
(* A method that does not await is one step.  _on_timer and run_job await  *)
(* the turn of a job (on_job), and anything may happen before they go on;  *)
(* _arm_timer cancels the timer task wherever it is, in the turn of a job  *)
(* too.  Jobs are numbered in the order of their creation, which is their  *)
(* order in the list; next_run_at_ms is 0 when it is None (the code tests  *)
(* it as a truth value).  A file that cannot be parsed reads as no jobs,   *)
(* and so does a missing one.                                              *)
(***************************************************************************)
EXTENDS Naturals, Functions

CONSTANTS
  MaxJobs,        \* jobs that are ever created
  MaxNow,         \* the last instant of the clock
  Schedules,      \* what callers ask for
  CronNext(_, _), \* croniter's next match of an expression after an instant, 0 if it raises
  Runners,        \* cron.run calls
  MaxCalls,       \* calls other than add_job, commands and ends of the process
  DiskFaults      \* write_text may raise

JobIds == 1..MaxJobs
Schedule == [kind : {"at", "every", "cron"}, ms : Nat, delete : BOOLEAN]

ASSUME CronAssumption ==
  /\ MaxJobs \in Nat /\ MaxNow \in Nat /\ MaxCalls \in Nat
  /\ Schedules \subseteq Schedule
  /\ DiskFaults \in BOOLEAN
  /\ \A s \in Schedules, t \in 0..MaxNow :
       CronNext(s.ms, t) \in Nat /\ (CronNext(s.ms, t) = 0 \/ CronNext(s.ms, t) > t)

VARIABLES
  now,      \* the clock
  mode,     \* the gateway: "up", "stopping" (after stop()) or "down"
  store,    \* _store.jobs
  file,     \* jobs.json
  timer,    \* _timer_task
  runner,   \* the cron.run calls
  cli,      \* the command that is running in a process of its own
  created,  \* jobs created so far
  calls,    \* those MaxCalls bounds, so far
  turns,    \* of each job: whether the timer has begun it, and whether it was cancelled there
  stale,    \* the last save of the gateway raised
  foreign   \* a command wrote the file after the gateway's last save

vars == <<now, mode, store, file, timer, runner, cli, created, calls, turns, stale, foreign>>

Job == [schedule : Schedules, enabled : BOOLEAN, next : Nat]
IsJobs(f) == DOMAIN f \subseteq JobIds /\ f \in [DOMAIN f -> Job]
NoJobs == [j \in {} |-> 0]

NoTimer == [phase |-> "none", wake |-> 0, job |-> 0, rest |-> {}]
Sleeping(w) == [phase |-> "sleep", wake |-> w, job |-> 0, rest |-> {}]
Turn(j, rest) == [phase |-> "turn", wake |-> 0, job |-> j, rest |-> rest]

NoCommand == [loaded |-> FALSE, jobs |-> NoJobs]

Init ==
  /\ now = 0
  /\ mode = "down"
  /\ store = NoJobs
  /\ file = NoJobs
  /\ timer = NoTimer
  /\ runner = [r \in Runners |-> 0]   \* the job it runs, 0 for none
  /\ cli = NoCommand
  /\ created = 0
  /\ calls = 0
  /\ turns = [j \in JobIds |-> "never"]
  /\ stale = FALSE
  /\ foreign = FALSE

-----------------------------------------------------------------------------
(* What the methods do to a list of jobs *)

\* _compute_next_run
NextRun(s, t) ==
  CASE s.kind = "at" -> IF s.ms > t THEN s.ms ELSE 0
    [] s.kind = "every" -> IF s.ms > 0 THEN t + s.ms ELSE 0
    [] s.kind = "cron" -> CronNext(s.ms, t)

NewJob(s) == [schedule |-> s, enabled |-> TRUE, next |-> NextRun(s, now)]
Added(f, n, s) == [j \in DOMAIN f \cup {n} |-> IF j = n THEN NewJob(s) ELSE f[j]]

Removed(f, j) == Restrict(f, DOMAIN f \ {j})

Enabled(f, j, on) ==
  [f EXCEPT ![j] = [schedule |-> f[j].schedule, enabled |-> on,
                    next |-> IF on THEN NextRun(f[j].schedule, now) ELSE 0]]

\* What _execute_job does when the turn is over, however it ended.  The job may have been
\* removed from the list meanwhile.
Spent(job) == [schedule |-> job.schedule, enabled |-> FALSE, next |-> 0]
Again(job) == [schedule |-> job.schedule, enabled |-> job.enabled,
               next |-> NextRun(job.schedule, now)]
Finished_MutKept(f, j) ==
  IF j \notin DOMAIN f THEN f
  ELSE [f EXCEPT ![j] = IF f[j].schedule.kind = "at" /\ ~f[j].schedule.delete
                        THEN Spent(f[j]) ELSE f[j]]
Finished(f, j) ==
  IF j \notin DOMAIN f THEN f
  ELSE IF f[j].schedule.kind = "at" /\ f[j].schedule.delete THEN Removed(f, j)
  ELSE [f EXCEPT ![j] = IF f[j].schedule.kind = "at" THEN Spent(f[j]) ELSE Again(f[j])]

\* _recompute_next_runs
Recomputed(f) == [j \in DOMAIN f |-> IF f[j].enabled THEN Again(f[j]) ELSE f[j]]

Waiting(f) == {j \in DOMAIN f : f[j].enabled /\ f[j].next # 0}
DueJobs(f) == {j \in Waiting(f) : f[j].next <= now}

-----------------------------------------------------------------------------
(* The timer and the file *)

Called == calls < MaxCalls /\ calls' = calls + 1

\* _arm_timer: whatever the timer task was doing is cancelled.
ArmTimer(f, running) ==
  IF running /\ Waiting(f) # {}
  THEN \E j \in Waiting(f) :
         /\ \A k \in Waiting(f) : f[j].next <= f[k].next
         /\ timer' = Sleeping(f[j].next)
  ELSE timer' = NoTimer

\* The list becomes f, then _save_store and _arm_timer.  When write_text raises, the rest of
\* the caller is skipped: the list keeps its change, the file is as it was or truncated, and
\* the timer task is t.
Commit(f, running, t) ==
  /\ store' = f
  /\ \/ file' = f /\ ArmTimer(f, running) /\ stale' = FALSE /\ foreign' = FALSE
     \/ DiskFaults /\ file' \in {file, NoJobs} /\ timer' = t /\ stale' = TRUE /\ UNCHANGED foreign

\* A call that commits f beside the timer task.
Edit_MutNoCancel(f) ==
  /\ IF timer.phase = "turn"
     THEN store' = f /\ file' = f /\ stale' = FALSE /\ foreign' = FALSE /\ UNCHANGED timer
     ELSE Commit(f, mode = "up", timer)
  /\ UNCHANGED turns
Edit(f) ==
  /\ Commit(f, mode = "up", timer)
  /\ turns' = IF timer.phase = "turn" /\ timer'.phase # "turn"
              THEN [turns EXCEPT ![timer.job] = "cancelled"]
              ELSE turns

\* The turn of the first of the due jobs.
BeginTurn(due) ==
  \E j \in due :
    /\ \A k \in due : j <= k
    /\ timer' = Turn(j, due \ {j})
    /\ turns' = [turns EXCEPT ![j] = "begun"]

\* tick, _on_timer: up to the first job's turn.
TimerFires ==
  /\ timer.phase = "sleep"
  /\ timer.wake <= now
  /\ IF DueJobs(store) = {}
     THEN Commit(store, mode = "up", NoTimer) /\ UNCHANGED turns
     ELSE BeginTurn(DueJobs(store)) /\ UNCHANGED <<store, file, stale, foreign>>
  /\ UNCHANGED <<now, mode, runner, cli, created, calls>>

\* The turn of the current job ends, in whatever way; the next one begins, or the tick ends.
TurnEnds_MutNoSave ==
  /\ timer.phase = "turn"
  /\ IF timer.rest # {}
     THEN BeginTurn(timer.rest) /\ UNCHANGED <<file, stale, foreign>>
     ELSE ArmTimer(Finished(store, timer.job), TRUE) /\ UNCHANGED <<file, stale, foreign, turns>>
  /\ store' = Finished(store, timer.job)
  /\ UNCHANGED <<now, mode, runner, cli, created, calls>>
TurnEnds_MutNoArm ==
  /\ timer.phase = "turn"
  /\ store' = Finished(store, timer.job)
  /\ IF timer.rest # {}
     THEN BeginTurn(timer.rest) /\ UNCHANGED <<file, stale, foreign>>
     ELSE file' = store' /\ timer' = NoTimer /\ UNCHANGED <<stale, foreign, turns>>
  /\ UNCHANGED <<now, mode, runner, cli, created, calls>>
TurnEnds ==
  /\ timer.phase = "turn"
  /\ IF timer.rest # {}
     THEN /\ store' = Finished(store, timer.job)
          /\ BeginTurn(timer.rest)
          /\ UNCHANGED <<file, stale, foreign>>
     ELSE Commit(Finished(store, timer.job), mode = "up", NoTimer) /\ UNCHANGED turns
  /\ UNCHANGED <<now, mode, runner, cli, created, calls>>

-----------------------------------------------------------------------------
(* The public methods, in the gateway *)

AddJob(s) ==
  /\ mode # "down"
  /\ created < MaxJobs
  /\ created' = created + 1
  /\ Edit(Added(store, created + 1, s))
  /\ UNCHANGED <<now, mode, runner, cli, calls>>

RemoveJob(j) ==
  /\ mode # "down"
  /\ j \in DOMAIN store
  /\ Called
  /\ Edit(Removed(store, j))
  /\ UNCHANGED <<now, mode, runner, cli, created>>

EnableJob(j, on) ==
  /\ mode # "down"
  /\ j \in DOMAIN store
  /\ Called
  /\ Edit(Enabled(store, j, on))
  /\ UNCHANGED <<now, mode, runner, cli, created>>

RunJob(r, j, force) ==
  /\ mode # "down"
  /\ Called
  /\ runner[r] = 0
  /\ j \in DOMAIN store
  /\ force \/ store[j].enabled
  /\ runner' = [runner EXCEPT ![r] = j]
  /\ UNCHANGED <<now, mode, store, file, timer, cli, created, turns, stale, foreign>>

RunJobEnds_MutNoArm(r) ==
  /\ runner[r] # 0
  /\ runner' = [runner EXCEPT ![r] = 0]
  /\ store' = Finished(store, runner[r])
  /\ file' = Finished(store, runner[r])
  /\ stale' = FALSE /\ foreign' = FALSE
  /\ UNCHANGED <<now, mode, timer, turns, cli, created, calls>>
RunJobEnds(r) ==
  /\ runner[r] # 0
  /\ runner' = [runner EXCEPT ![r] = 0]
  /\ Edit(Finished(store, runner[r]))
  /\ UNCHANGED <<now, mode, cli, created, calls>>

-----------------------------------------------------------------------------
(* The gateway's process *)

\* start() of a new process; when its save raises, the gateway does not come up.
Start ==
  /\ mode = "down"
  /\ IF DiskFaults THEN mode' \in {"up", "down"} ELSE mode' = "up"
  /\ IF mode' = "up"
     THEN /\ store' = Recomputed(file)
          /\ file' = Recomputed(file)
          /\ ArmTimer(Recomputed(file), TRUE)
          /\ stale' = FALSE /\ foreign' = FALSE
     ELSE file' \in {file, NoJobs} /\ UNCHANGED <<store, timer, stale, foreign>>
  /\ UNCHANGED <<now, runner, cli, created, calls, turns>>

\* stop(): the timer is cancelled; handlers may still be running.
Stop ==
  /\ mode = "up"
  /\ Called
  /\ mode' = "stopping"
  /\ timer' = NoTimer
  /\ UNCHANGED <<now, store, file, runner, cli, created, turns, stale, foreign>>

\* The process is gone: after stop() or in a crash, which may have come between the
\* truncation of the file and its writing.
Exit ==
  /\ \/ mode = "stopping" /\ UNCHANGED calls
     \/ mode = "up" /\ Called
  /\ file' \in {file, NoJobs}
  /\ mode' = "down"
  /\ store' = NoJobs
  /\ timer' = NoTimer
  /\ runner' = [r \in Runners |-> 0]
  /\ stale' = FALSE
  /\ foreign' = FALSE
  /\ UNCHANGED <<now, cli, created, turns>>

-----------------------------------------------------------------------------
(* `joyhousebot cron ...`: a CronService of its own that is never started *)

\* _load_store; it may read the file while the gateway is writing it.
CommandLoads ==
  /\ ~cli.loaded
  /\ Called
  /\ \E f \in {file} \cup (IF mode = "down" THEN {} ELSE {NoJobs}) :
       cli' = [loaded |-> TRUE, jobs |-> f]
  /\ UNCHANGED <<now, mode, store, file, timer, runner, created, turns, stale, foreign>>

\* add, remove, enable, disable; run executes nothing, for there is no on_job.
CommandSaves ==
  /\ cli.loaded
  /\ \/ \E s \in Schedules :
          /\ created < MaxJobs
          /\ created' = created + 1
          /\ file' = Added(cli.jobs, created + 1, s)
     \/ /\ UNCHANGED created
        /\ \E j \in DOMAIN cli.jobs :
             \/ file' = Removed(cli.jobs, j)
             \/ \E on \in BOOLEAN : file' = Enabled(cli.jobs, j, on)
             \/ file' = Finished(cli.jobs, j)
  /\ cli' = NoCommand
  /\ foreign' = (mode # "down")
  /\ UNCHANGED <<now, mode, store, timer, runner, calls, turns, stale>>

\* A command for a job that is not in the file saves nothing.
CommandFails ==
  /\ cli.loaded
  /\ cli' = NoCommand
  /\ UNCHANGED <<now, mode, store, file, timer, runner, created, calls, turns, stale, foreign>>

-----------------------------------------------------------------------------
Advance ==
  /\ now < MaxNow
  /\ now' = now + 1
  /\ UNCHANGED <<mode, store, file, timer, runner, cli, created, calls, turns, stale, foreign>>

Next ==
  \/ TimerFires
  \/ TurnEnds
  \/ \E s \in Schedules : AddJob(s)
  \/ \E j \in JobIds : RemoveJob(j)
  \/ \E j \in JobIds, on \in BOOLEAN : EnableJob(j, on)
  \/ \E r \in Runners, j \in JobIds, force \in BOOLEAN : RunJob(r, j, force)
  \/ \E r \in Runners : RunJobEnds(r)
  \/ Start
  \/ Stop
  \/ Exit
  \/ CommandLoads
  \/ CommandSaves
  \/ CommandFails
  \/ Advance

Spec == Init /\ [][Next]_vars

\* The event loop runs a timer that is due, and every turn of a job ends: model calls and
\* tools have time limits.
FairSpec == Spec /\ WF_vars(TimerFires) /\ WF_vars(TurnEnds)

-----------------------------------------------------------------------------
(* Properties *)

\* The clock, the timer, the jobs in memory and on disk, the calls and the command keep
\* their types.
TypeOK ==
  /\ now \in 0..MaxNow
  /\ mode \in {"up", "stopping", "down"}
  /\ IsJobs(store)
  /\ IsJobs(file)
  /\ timer \in [phase : {"none", "sleep", "turn"}, wake : Nat, job : 0..MaxJobs, rest : SUBSET JobIds]
  /\ runner \in [Runners -> 0..MaxJobs]
  /\ cli.loaded \in BOOLEAN /\ IsJobs(cli.jobs)
  /\ created \in 0..MaxJobs
  /\ calls \in 0..MaxCalls
  /\ turns \in [JobIds -> {"never", "begun", "cancelled"}]
  /\ stale \in BOOLEAN
  /\ foreign \in BOOLEAN

\* No enabled job is ever beyond the reach of the timer: unless the last save raised, the
\* timer task sleeps at most until the earliest next run, or is serving due jobs and arms
\* the timer again afterwards (_arm_timer, service.py:187-204).
TimerCovers ==
  mode = "up" /\ ~stale =>
    /\ timer.phase = "none" => Waiting(store) = {}
    /\ timer.phase = "sleep" => \A j \in Waiting(store) : timer.wake <= store[j].next

\* Between ticks the file holds exactly the jobs of the running gateway, also when a tick
\* was cancelled in the middle of its list, unless the last save raised or a command wrote
\* the file since (_save_store, service.py:109-152).
DiskIsCurrent ==
  mode = "up" /\ ~stale /\ ~foreign /\ timer.phase # "turn" => file = store

Begins(j) ==
  timer'.phase = "turn" /\ timer'.job = j /\ (timer.phase # "turn" \/ timer.job # j)

\* The list of due jobs is taken once and a tick may wait long between two of them: still it
\* begins no job that was removed, disabled, rescheduled or run by hand meanwhile
\* (_on_timer, service.py:211-218), unless the call that did so failed to save.
BeginsOnlyDue ==
  [][\A j \in JobIds : Begins(j) /\ ~stale => j \in DueJobs(store)]_vars

OneTime(j) ==
  j \in DOMAIN store /\ store[j].schedule.kind = "at" /\ store[j].schedule.delete

\* A one-time job runs once (skills/cron/SKILL.md): the timer begins its turn at most once.
RunsOnce ==
  [][\A j \in JobIds : Begins(j) /\ OneTime(j) => turns[j] = "never"]_vars

\* The timer begins a one-time job a second time only because a call cancelled its first
\* turn: no restart, manual run, failed save or command brings it back.
RepeatsOnlyCancelled ==
  [][\A j \in JobIds : Begins(j) /\ OneTime(j) => turns[j] # "begun"]_vars

\* Once the callers leave the service alone, no job stays due: it is run and rescheduled, or
\* the gateway stops, or a save raises (which leaves no timer at all, service.py:220-221).
DueJobsRun ==
  \A j \in JobIds :
    (mode = "up" /\ ~stale /\ j \in DueJobs(store)) ~>
      ~(mode = "up" /\ ~stale /\ j \in DueJobs(store))
=============================================================================
