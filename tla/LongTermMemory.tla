---------------------------- MODULE LongTermMemory -----------------------------
(***************************************************************************)
(* The files of one memory scope (agent/memory.py): MEMORY.md, HISTORY.md, *)
(* the daily logs and archive/.  They are written by the consolidations of *)
(* all the conversations of the scope (agent/loop.py, _consolidate_memory, *)
(* and /new), by the agent's edit_file, and by the janitor, a command in a *)
(* process of its own (agent/memory_janitor.py).                           *)
(*                                                                         *)
(* A fact stands for a line of MEMORY.md and for the messages it comes     *)
(* from.  The model's answer keeps the lines it was shown, as its prompt   *)
(* asks, and adds some of the facts of the messages.  Which messages of a  *)
(* conversation are due is SessionMemory's; here any may be.  Between two  *)
(* awaits a gateway task runs alone, but the janitor and the end of either *)
(* process may come between its writes, and a write of MEMORY.md truncates *)
(* it first.  The index (.abstract) and what compaction derives from these *)
(* files are left out: nothing here reads them.                            *)
(***************************************************************************)
EXTENDS Naturals, Sequences

CONSTANTS
    Facts,
    Expiring,       \* facts tagged with an expiry that has passed
    Talks,          \* conversations of the scope
    MemoryJobs,     \* places for gateway tasks that write the memory
    HistoryLimit,   \* history_max_entries; 0 stands for no limit
    MemoryEnds,     \* bound: ends of a process and calls that fail
    MemoryTasks,    \* bound: tasks and edits that begin
    JanitorRuns     \* bound: runs of the janitor

ASSUME MemoryAssumption ==
    /\ Expiring \subseteq Facts /\ "janitor" \notin MemoryJobs /\ "none" \notin MemoryJobs
    /\ HistoryLimit \in Nat /\ MemoryEnds \in Nat
    /\ MemoryTasks \in Nat /\ JanitorRuns \in Nat

VARIABLES
    talks,          \* the facts of the stored messages of a conversation
    longTerm,       \* MEMORY.md
    archive,        \* archive/expired-*.md
    paragraphs,        \* HISTORY.md
    daily,          \* the daily logs
    tasks,           \* the gateway's tasks
    atWork,        \* the task between two awaits, or "none"
    janitor,        \* the janitor's run
    memoryEnds, memoryTasks, janitorRuns,
    (* history *)
    said,           \* what conversations were about
    recorded,       \* what has been in MEMORY.md
    stale,          \* writers whose reading of MEMORY.md is no longer what it holds
    overwritten,    \* a writer has written over what it had not read
    torn,           \* a process has ended between truncating MEMORY.md and writing it
    dropped         \* what /new had in hand when its task failed or ended

conversationVars == <<talks, said>>
logs == <<paragraphs, daily>>
readings == <<recorded, stale, overwritten>>
bounds == <<memoryEnds, memoryTasks, janitorRuns>>
memoryVars ==
    <<conversationVars, longTerm, archive, logs, tasks, atWork, janitor, bounds, readings,
      torn, dropped>>

MemoryWriters == MemoryJobs \cup {"janitor"}

\* A task over `facts`; `all` when /new has already cleared its conversation.
\* `read` is the MEMORY.md it goes by and `update` the one it is about to write.
Job ==
    [at: {"idle", "created", "flush", "asked", "entry", "daily", "update", "truncated",
          "reread"},
     all: BOOLEAN, facts: SUBSET Facts, read: SUBSET Facts, update: SUBSET Facts,
     flushed: BOOLEAN]

NoTask == [at |-> "idle", all |-> FALSE, facts |-> {}, read |-> {}, update |-> {},
           flushed |-> FALSE]

MemoryTypeOK ==
    /\ talks \in [Talks -> SUBSET Facts]
    /\ longTerm \subseteq Facts /\ archive \subseteq Facts /\ daily \subseteq Facts
    /\ paragraphs \in Seq(SUBSET Facts)
    /\ tasks \in [MemoryJobs -> Job] /\ atWork \in MemoryJobs \cup {"none"}
    /\ janitor \in [at: {"idle", "read", "archived", "truncated"}, read: SUBSET Facts]
    /\ memoryEnds \in 0..MemoryEnds /\ memoryTasks \in 0..MemoryTasks
    /\ janitorRuns \in 0..JanitorRuns
    /\ said \subseteq Facts /\ recorded \subseteq Facts /\ stale \subseteq MemoryWriters
    /\ overwritten \in BOOLEAN /\ torn \in BOOLEAN /\ dropped \subseteq Facts

MemoryInit ==
    /\ talks = [t \in Talks |-> {}]
    /\ longTerm = {} /\ archive = {} /\ paragraphs = <<>> /\ daily = {}
    /\ tasks = [j \in MemoryJobs |-> NoTask] /\ atWork = "none"
    /\ janitor = [at |-> "idle", read |-> {}]
    /\ memoryEnds = 0 /\ memoryTasks = 0 /\ janitorRuns = 0
    /\ said = {} /\ recorded = {} /\ stale = {} /\ overwritten = FALSE /\ torn = FALSE
    /\ dropped = {}

---------------------------------------------------------------------------
(* Reading and writing MEMORY.md *)

\* A task of the gateway takes its next step: it is the one that runs, or no
\* other does.
Steps(j) == atWork \in {"none", j}

Reads(w) == stale' = stale \ {w} /\ UNCHANGED <<recorded, overwritten>>

\* The write of w ends.  The others' readings are now those of an older file.
Writes(w, content) ==
    /\ longTerm' = content
    /\ recorded' = recorded \cup content
    /\ overwritten' = (overwritten \/ w \in stale)
    /\ stale' = MemoryWriters \ {w}

---------------------------------------------------------------------------
(* Conversations and the gateway's tasks *)

\* A task begins in place j.
Begins(j) ==
    /\ atWork = "none" /\ tasks[j].at = "idle"
    /\ memoryTasks < MemoryTasks /\ memoryTasks' = memoryTasks + 1
    /\ UNCHANGED <<memoryEnds, janitorRuns>>

\* A turn stores a message.
Say(t, f) ==
    /\ atWork = "none" /\ f \notin said
    /\ said' = said \cup {f}
    /\ talks' = [talks EXCEPT ![t] = @ \cup {f}]
    /\ UNCHANGED <<longTerm, archive, logs, tasks, atWork, janitor, bounds,
                   readings, torn, dropped>>

\* A conversation that has grown past the window: its messages stay in it.
ConsolidationIsCreated(j, t) ==
    /\ Begins(j)
    /\ \E old \in (SUBSET talks[t]) \ {{}} :
          tasks' = [tasks EXCEPT ![j] = [NoTask EXCEPT !.at = "created", !.facts = old]]
    /\ UNCHANGED <<conversationVars, longTerm, archive, logs, atWork, janitor,
                   readings, torn, dropped>>

\* /new stores the cleared conversation and creates the task that archives it.
ArchiveIsCreated(j, t) ==
    /\ Begins(j)
    /\ tasks' = [tasks EXCEPT ![j] =
          [NoTask EXCEPT !.at = "created", !.all = TRUE, !.facts = talks[t]]]
    /\ talks' = [talks EXCEPT ![t] = {}]
    /\ UNCHANGED <<said, longTerm, archive, logs, atWork, janitor,
                   readings, torn, dropped>>

\* The task begins: it reads MEMORY.md before its first call is awaited.
TaskReads(j) ==
    /\ atWork = "none" /\ tasks[j].at = "created"
    /\ tasks' = [tasks EXCEPT ![j].at = "flush", ![j].read = longTerm]
    /\ Reads(j)
    /\ UNCHANGED <<conversationVars, longTerm, archive, logs, atWork, janitor, bounds,
                   torn, dropped>>

\* memory_flush_before_consolidation is off, or the flush's call gave nothing to
\* keep or failed: the task goes on with what it has read.
FlushIsSkipped(j) ==
    /\ atWork = "none" /\ tasks[j].at = "flush"
    /\ tasks' = [tasks EXCEPT ![j].at = "asked"]
    /\ UNCHANGED <<conversationVars, longTerm, archive, logs, atWork, janitor, bounds,
                   readings, torn, dropped>>

\* What it gave is added to MEMORY.md as that is now.  The line it may add to
\* the daily log is not counted as a record of the messages.
FlushAdds(j) ==
    /\ atWork = "none" /\ tasks[j].at = "flush"
    /\ \E added \in (SUBSET tasks[j].facts) \ {{}} :
          tasks' = [tasks EXCEPT ![j].at = "truncated", ![j].flushed = TRUE,
                               ![j].update = longTerm \cup added]
    /\ atWork' = j /\ longTerm' = {} /\ Reads(j)
    /\ UNCHANGED <<conversationVars, archive, logs, janitor, bounds, torn, dropped>>

\* Mutant: the prompt shows the memory as it was before the flush.
ShownAfterFlush_MutEarlier(j) == tasks[j].read

\* MEMORY.md is read again after a flush that wrote it.
ShownAfterFlush(j) == longTerm

FlushIsRead(j) ==
    /\ atWork = j /\ tasks[j].at = "reread"
    /\ tasks' = [tasks EXCEPT ![j].at = "asked", ![j].flushed = FALSE,
                            ![j].read = ShownAfterFlush(j)]
    /\ atWork' = "none" /\ Reads(j)
    /\ UNCHANGED <<conversationVars, longTerm, archive, logs, janitor, bounds, torn, dropped>>

\* What is gone when the task of a /new ends here: its conversation is cleared.
OnlyInHand(j) == IF tasks[j].all THEN tasks[j].facts ELSE {}

\* The call fails, or its answer is empty or not an object: nothing is written.
ConsolidationGivesUp(j) ==
    /\ atWork = "none" /\ tasks[j].at = "asked" /\ memoryEnds < MemoryEnds
    /\ memoryEnds' = memoryEnds + 1
    /\ dropped' = dropped \cup OnlyInHand(j)
    /\ tasks' = [tasks EXCEPT ![j] = NoTask]
    /\ UNCHANGED <<conversationVars, longTerm, archive, logs, atWork, janitor, memoryTasks,
                   janitorRuns, readings, torn>>

\* An answer with or without a history entry.
ConsolidationIsAnswered(j) ==
    /\ atWork = "none" /\ tasks[j].at = "asked"
    /\ \E entry \in BOOLEAN, new \in SUBSET tasks[j].facts :
          /\ tasks' = [tasks EXCEPT ![j].at = IF entry THEN "entry" ELSE "update",
                                  ![j].update = tasks[j].read \cup new]
          /\ dropped' = IF entry THEN dropped ELSE dropped \cup OnlyInHand(j)
    /\ atWork' = j
    /\ UNCHANGED <<conversationVars, longTerm, archive, logs, janitor, bounds, readings, torn>>

Trimmed(history) ==
    IF HistoryLimit = 0 \/ Len(history) <= HistoryLimit THEN history
    ELSE SubSeq(history, Len(history) - HistoryLimit + 1, Len(history))

\* append_history, then append_l2_daily.
LogEntry(j) ==
    /\ \/ /\ tasks[j].at = "entry"
          /\ paragraphs' = Trimmed(Append(paragraphs, tasks[j].facts)) /\ UNCHANGED daily
          /\ tasks' = [tasks EXCEPT ![j].at = "daily"]
       \/ /\ tasks[j].at = "daily"
          /\ daily' = daily \cup tasks[j].facts /\ UNCHANGED paragraphs
          /\ tasks' = [tasks EXCEPT ![j].at = "update"]
    /\ UNCHANGED <<conversationVars, longTerm, archive, atWork, janitor, bounds, readings,
                   torn, dropped>>

\* An update that is what the prompt showed is not written.
UpdateBegins(j) ==
    /\ tasks[j].at = "update"
    /\ IF tasks[j].update = tasks[j].read
       THEN /\ tasks' = [tasks EXCEPT ![j] = NoTask] /\ atWork' = "none"
            /\ UNCHANGED longTerm
       ELSE /\ tasks' = [tasks EXCEPT ![j].at = "truncated"] /\ longTerm' = {}
            /\ UNCHANGED atWork
    /\ UNCHANGED <<conversationVars, archive, logs, janitor, bounds, readings, torn, dropped>>

\* edit_file on MEMORY.md reads and writes it without an await.
AgentEdits(j, f) ==
    /\ Begins(j) /\ f \in said \ longTerm
    /\ tasks' = [tasks EXCEPT ![j] =
          [NoTask EXCEPT !.at = "truncated", !.update = longTerm \cup {f}]]
    /\ atWork' = j /\ longTerm' = {} /\ Reads(j)
    /\ UNCHANGED <<conversationVars, archive, logs, janitor, torn, dropped>>

UpdateEnds(j) ==
    /\ tasks[j].at = "truncated"
    /\ Writes(j, tasks[j].update)
    /\ IF tasks[j].flushed
       THEN tasks' = [tasks EXCEPT ![j].at = "reread"] /\ UNCHANGED atWork
       ELSE tasks' = [tasks EXCEPT ![j] = NoTask] /\ atWork' = "none"
    /\ UNCHANGED <<conversationVars, archive, logs, janitor, bounds, torn, dropped>>

\* The task of a /new has not yet put its messages in the daily log.
Unlogged(j) == tasks[j].flushed \/ tasks[j].at \notin {"idle", "update", "truncated"}

InHandOfNew == UNION {OnlyInHand(j) : j \in {k \in MemoryJobs : Unlogged(k)}}

\* The gateway ends with its tasks.
MemoryGatewayEnds ==
    /\ memoryEnds < MemoryEnds /\ memoryEnds' = memoryEnds + 1
    /\ torn' = (torn \/ \E j \in MemoryJobs : tasks[j].at = "truncated")
    /\ dropped' = dropped \cup InHandOfNew
    /\ tasks' = [j \in MemoryJobs |-> NoTask] /\ atWork' = "none"
    /\ UNCHANGED <<conversationVars, longTerm, archive, logs, janitor, memoryTasks,
                   janitorRuns, readings>>

---------------------------------------------------------------------------
(* The janitor *)

JanitorReads ==
    /\ janitor.at = "idle" /\ janitorRuns < JanitorRuns /\ longTerm \cap Expiring /= {}
    /\ janitorRuns' = janitorRuns + 1
    /\ janitor' = [at |-> "read", read |-> longTerm]
    /\ Reads("janitor")
    /\ UNCHANGED <<conversationVars, longTerm, archive, logs, tasks, atWork, memoryEnds,
                   memoryTasks, torn, dropped>>

\* What has expired is archived before it is removed.
JanitorMoves ==
    /\ \/ /\ janitor.at = "read" /\ janitor' = [janitor EXCEPT !.at = "archived"]
          /\ archive' = archive \cup (janitor.read \cap Expiring)
          /\ UNCHANGED <<longTerm, readings>>
       \/ /\ janitor.at = "archived" /\ janitor' = [janitor EXCEPT !.at = "truncated"]
          /\ longTerm' = {}
          /\ UNCHANGED <<archive, readings>>
       \/ /\ janitor.at = "truncated" /\ janitor' = [at |-> "idle", read |-> {}]
          /\ Writes("janitor", janitor.read \ Expiring)
          /\ UNCHANGED archive
    /\ UNCHANGED <<conversationVars, logs, tasks, atWork, bounds, torn, dropped>>

JanitorEnds ==
    /\ janitor.at /= "idle" /\ memoryEnds < MemoryEnds
    /\ memoryEnds' = memoryEnds + 1
    /\ torn' = (torn \/ janitor.at = "truncated")
    /\ janitor' = [at |-> "idle", read |-> {}]
    /\ UNCHANGED <<conversationVars, longTerm, archive, logs, tasks, atWork, memoryTasks,
                   janitorRuns, readings, dropped>>

MemoryNext ==
    \/ \E t \in Talks, f \in Facts : Say(t, f)
    \/ \E j \in MemoryJobs :
          /\ Steps(j)
          /\ \/ \E t \in Talks : ConsolidationIsCreated(j, t) \/ ArchiveIsCreated(j, t)
             \/ TaskReads(j) \/ FlushIsSkipped(j) \/ FlushAdds(j) \/ FlushIsRead(j)
             \/ ConsolidationGivesUp(j) \/ ConsolidationIsAnswered(j)
             \/ LogEntry(j) \/ UpdateBegins(j) \/ UpdateEnds(j)
             \/ \E f \in Facts : AgentEdits(j, f)
    \/ MemoryGatewayEnds \/ JanitorReads \/ JanitorMoves \/ JanitorEnds

MemorySpec == MemoryInit /\ [][MemoryNext]_memoryVars

---------------------------------------------------------------------------
(* Properties *)

BeingWritten ==
    janitor.at = "truncated" \/ \E j \in MemoryJobs : tasks[j].at = "truncated"

\* Two promises of the memory.  What has once been in MEMORY.md is in it or in
\* the archive: consolidations that add what their flush has added already,
\* skip an update, or fail, and a janitor that ends anywhere, take nothing
\* away.  Only a writer that writes over what it has not read, as nothing keeps
\* tasks, the agent and the janitor from doing, or an end between truncating
\* and writing the file can.  And what a conversation was about stays in its
\* stored messages or in a daily log, however often HISTORY.md is trimmed: it
\* is gone only if the task of a /new, which has cleared the conversation
\* before, fails, ends, or is answered without a history entry.
NothingIsForgotten ==
    /\ ~overwritten /\ ~torn /\ ~BeingWritten => recorded \subseteq longTerm \cup archive
    /\ said \subseteq
          (UNION {talks[t] : t \in Talks}) \cup daily \cup InHandOfNew \cup dropped
================================================================================
