----------------------------- MODULE Collaboration -----------------------------
(***************************************************************************)
(* Collaboration of agents: agent/collaboration/orchestrator.py with its   *)
(* decomposer, dispatcher, executor, aggregator and decision engine        *)
(* (collaborate), and the rounds of deliberation.py (deliberate).          *)
(*                                                                         *)
(* What the model answers is left open, so that the tasks' dependencies    *)
(* are arbitrary: the decomposer drops names that are no task's, and keeps *)
(* the cycles.  The tasks of a batch run concurrently; their results are   *)
(* only read when all of them have one.                                    *)
(***************************************************************************)
EXTENDS Integers, FiniteSets

CONSTANTS
    Jobs,           \* the tasks a goal can be decomposed into
    Fallback,       \* the one task used when the decomposition fails
    MaxConcurrent,  \* max_concurrent_tasks
    MaxRetries,     \* retries of an attempt that failed or timed out
    Topics,         \* how many topics a deliberation can have
    TalkRounds      \* max_rounds of a deliberation

ASSUME CollaborationAssumption ==
    /\ Fallback \in Jobs /\ IsFiniteSet(Jobs)
    /\ MaxConcurrent \in Nat \ {0}
    /\ MaxRetries \in Nat
    /\ Topics \in Nat
    /\ TalkRounds \in Nat \ {0}

VARIABLES
    phase,      \* how far collaborate is
    jobs,       \* the tasks of the goal
    needs,      \* Task.dependencies
    staffed,    \* there is an agent to assign tasks to
    abort,      \* required_task_failure_mode = "abort"
    results,    \* results of execute_all
    batch,      \* the tasks being gathered
    attempt,    \* the attempts each of them has made
    outcome,    \* the results that the gather is going to return
    talk,       \* how far deliberate is
    requires,   \* RoundTopic.dependencies
    topic,      \* the topic to be discussed
    discussed   \* the topics with a round result

workVars == <<phase, jobs, needs, staffed, abort, results, batch, attempt, outcome>>
talkVars == <<talk, requires, topic, discussed>>
collabVars == <<workVars, talkVars>>

--------------------------------------------------------------------------------
CollabInit ==
    /\ phase = "idle"
    /\ jobs = {}
    /\ needs = [j \in Jobs |-> {}]
    /\ staffed \in BOOLEAN
    /\ abort \in BOOLEAN
    /\ results = [j \in Jobs |-> "none"]
    /\ batch = {}
    /\ attempt = [j \in Jobs |-> 0]
    /\ outcome = [j \in Jobs |-> "none"]
    /\ talk = "idle"
    /\ requires = <<>>
    /\ topic = 1
    /\ discussed = {}

\* An orchestrator is asked for one or the other; the two share nothing.
CollabRequest ==
    /\ phase = "idle" /\ talk = "idle"
    /\ \/ phase' = "decomposition" /\ UNCHANGED talk
       \/ talk' = "topics" /\ UNCHANGED phase
    /\ UNCHANGED <<jobs, needs, staffed, abort, results, batch, attempt, outcome,
                   requires, topic, discussed>>

--------------------------------------------------------------------------------
(* collaborate *)

\* The model's tasks, or the fallback when its answer is no JSON.  The
\* dispatcher then assigns every task, if there is an agent at all.
Decompose ==
    /\ phase = "decomposition"
    /\ \/ \E some \in SUBSET Jobs : jobs' = some /\ needs' \in [Jobs -> SUBSET some]
       \/ jobs' = {Fallback} /\ needs' = [j \in Jobs |-> {}]
    /\ \A j \in Jobs \ jobs' : needs'[j] = {}
    /\ phase' = "execution"
    /\ UNCHANGED <<staffed, abort, results, batch, attempt, outcome, talkVars>>

Remaining == {j \in jobs : results[j] = "none"}
Completed == {j \in jobs : results[j] = "completed"}
Unmet == (UNION {needs[j] : j \in Remaining}) \cap Remaining

Ready == {j \in Remaining : needs[j] \subseteq Completed}

\* The tasks to run: the ready ones; if there is none, and every dependency of
\* the remaining tasks has a result, all of them by force.
Runnable ==
    IF Ready /= {} THEN Ready ELSE IF Unmet = {} THEN Remaining ELSE {}

\* asyncio.gather over the first max_concurrent of them; a set has no order.
StartBatch ==
    /\ phase = "execution" /\ batch = {} /\ Remaining /= {}
    /\ batch' \in SUBSET Runnable
    /\ batch' /= {}
    /\ \/ Cardinality(batch') = MaxConcurrent
       \/ batch' = Runnable /\ Cardinality(batch') < MaxConcurrent
    /\ UNCHANGED <<phase, jobs, needs, staffed, abort, results, attempt, outcome, talkVars>>

\* Nothing can run, as some dependency has no result: all the remaining tasks
\* are skipped, and the batch that follows is empty.
SkipRest ==
    /\ phase = "execution" /\ batch = {} /\ Remaining /= {}
    /\ Runnable = {}
    /\ results' = [j \in Jobs |-> IF j \in Remaining THEN "skipped" ELSE results[j]]
    /\ UNCHANGED <<phase, jobs, needs, staffed, abort, batch, attempt, outcome, talkVars>>

Running(j) == j \in batch /\ outcome[j] = "none"

\* A task fails at once without an agent.  Otherwise the model is asked up to
\* max_retries + 1 times, each time within the task's timeout.
NoAgent(j) ==
    /\ Running(j) /\ ~ staffed
    /\ outcome' = [outcome EXCEPT ![j] = "failed"]
    /\ UNCHANGED <<phase, jobs, needs, staffed, abort, results, batch, attempt, talkVars>>

Attempt(j) ==
    /\ Running(j) /\ staffed
    /\ attempt' = [attempt EXCEPT ![j] = @ + 1]
    /\ outcome' \in {[outcome EXCEPT ![j] = "completed"],
                     IF attempt[j] < MaxRetries
                        THEN outcome
                        ELSE [outcome EXCEPT ![j] = "failed"]}
    /\ UNCHANGED <<phase, jobs, needs, staffed, abort, results, batch, talkVars>>

\* Mutant: a failed task stays among the remaining ones.
Gather_MutKeepsFailed ==
    /\ phase = "execution" /\ batch /= {}
    /\ \A j \in batch : ~ Running(j)
    /\ results' = [j \in Jobs |-> IF j \in batch /\ outcome[j] = "completed"
                                    THEN "completed" ELSE results[j]]
    /\ batch' = {}
    /\ attempt' = [j \in Jobs |-> 0]
    /\ outcome' = [j \in Jobs |-> "none"]
    /\ UNCHANGED <<phase, jobs, needs, staffed, abort, talkVars>>

\* The gather returns when every task of the batch has a result.
Gather ==
    /\ phase = "execution" /\ batch /= {}
    /\ \A j \in batch : ~ Running(j)
    /\ results' = [j \in Jobs |-> IF j \in batch THEN outcome[j] ELSE results[j]]
    /\ batch' = {}
    /\ attempt' = [j \in Jobs |-> 0]
    /\ outcome' = [j \in Jobs |-> "none"]
    /\ UNCHANGED <<phase, jobs, needs, staffed, abort, talkVars>>

\* All tasks have results: the collaboration is aborted if one failed and the
\* options say so, and its results are aggregated and decided on otherwise.
Executed ==
    /\ phase = "execution" /\ batch = {} /\ Remaining = {}
    /\ phase' = IF abort /\ \E j \in jobs : results[j] = "failed"
                   THEN "aborted" ELSE "aggregation"
    /\ UNCHANGED <<jobs, needs, staffed, abort, results, batch, attempt, outcome, talkVars>>

\* The aggregator and the decision engine answer whatever the model does: they
\* have fallbacks of their own.  The decision is then recorded for feedback.
Conclude ==
    /\ phase = "aggregation" /\ phase' = "decided"
    /\ UNCHANGED <<jobs, needs, staffed, abort, results, batch, attempt, outcome, talkVars>>

--------------------------------------------------------------------------------
(* deliberate *)

\* The topics are given with any dependencies, or generated, each one requiring
\* the one before; two such are the fallback.
GenerateTopics ==
    /\ talk = "topics"
    /\ \E n \in 0..Topics :
          \/ requires' \in [1..n -> SUBSET (1..n)]
          \/ requires' = [i \in 1..n |-> {i - 1} \ {0}]
    /\ talk' = "round"
    /\ UNCHANGED <<topic, discussed, workVars>>

Topic == topic \in DOMAIN requires
Discussable == requires[topic] \subseteq discussed

SkipTopic ==
    /\ talk = "round" /\ Topic /\ ~ Discussable
    /\ topic' = topic + 1
    /\ UNCHANGED <<talk, requires, discussed, workVars>>

\* A round always has a result, if only the error's text; the limit is on the
\* rounds held, not on the topics passed.
Discuss ==
    /\ talk = "round" /\ Topic /\ Discussable
    /\ discussed' = discussed \cup {topic}
    /\ topic' = topic + 1
    /\ talk' = IF Cardinality(discussed') >= TalkRounds THEN "report" ELSE "round"
    /\ UNCHANGED <<requires, workVars>>

\* No topic is left; the report is generated, or put together without a model.
Report ==
    /\ \/ talk = "round" /\ ~ Topic /\ talk' = "report"
       \/ talk = "report" /\ talk' = "reported"
    /\ UNCHANGED <<requires, topic, discussed, workVars>>

--------------------------------------------------------------------------------
CollaborateNext ==
    \/ Decompose \/ StartBatch \/ SkipRest
    \/ \E j \in Jobs : NoAgent(j) \/ Attempt(j)
    \/ Gather \/ Executed \/ Conclude

DeliberateNext == GenerateTopics \/ SkipTopic \/ Discuss \/ Report

CollabNext == CollabRequest \/ CollaborateNext \/ DeliberateNext

CollabSpec == CollabInit /\ [][CollabNext]_collabVars

--------------------------------------------------------------------------------
CollabTypeOK ==
    /\ jobs \subseteq Jobs
    /\ needs \in [Jobs -> SUBSET jobs]
    /\ results \in [Jobs -> {"none", "completed", "failed", "skipped"}]
    /\ outcome \in [Jobs -> {"none", "completed", "failed"}]
    /\ attempt \in [Jobs -> 0..(MaxRetries + 1)]
    /\ batch \subseteq Remaining /\ Cardinality(batch) <= MaxConcurrent
    /\ phase \in {"idle", "decomposition", "execution", "aborted", "aggregation", "decided"}
    /\ talk \in {"idle", "topics", "round", "report", "reported"}
    /\ topic \in 1..(Topics + 1)
    /\ Cardinality(discussed) <= TalkRounds

\* Whatever the model makes of the goal, cycles included, and however its
\* calls fail, the collaboration comes to an outcome and the deliberation to a
\* report (executor.py:230-273, deliberation.py:512-560).
CollaborationEnds ==
    /\ phase = "decomposition" ~> phase \in {"aborted", "decided"}
    /\ talk = "topics" ~> talk = "reported"

\* The loop runs what is ready, and an attempt ends at its timeout.
CollabFairness ==
    WF_collabVars(CollaborateNext) /\ WF_collabVars(DeliberateNext)

CollabFairSpec == CollabSpec /\ CollabFairness
================================================================================
