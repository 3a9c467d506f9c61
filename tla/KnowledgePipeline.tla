--------------------------- MODULE KnowledgePipeline ---------------------------
(***************************************************************************)
(* The knowledge pipeline (services/knowledge_pipeline, the knowledge part *)
(* of agent/loop.py and the table of services/retrieval/store.py): a       *)
(* watcher thread notices files of knowledgebase/, a worker thread         *)
(* converts them to markdown and metadata and indexes these.               *)
(*                                                                         *)
(* Every AgentLoop over the workspace, of the gateway or of a command, has *)
(* a pipeline of its own: threads that end with its process, or, as is the *)
(* default, a subprocess.  Two of them share the files and the database.   *)
(* A version stands for what a file holds; writing a file truncates it     *)
(* first.  What a document holds is indexed by one transaction a chunk.    *)
(* Any step on a document may raise, which its worker catches.             *)
(* Vectors and the QMD index, which are optional, are not modelled.        *)
(***************************************************************************)
EXTENDS Naturals, Sequences, FiniteSets

CONSTANTS
    AgentLoops,     \* AgentLoops over the workspace
    Docs,           \* files of knowledgebase/ that are supported
    Modes,          \* values of subprocess_enabled
    Versions,       \* bound: writes of a file
    ChunkCount,     \* chunks of a document
    LoopStarts      \* bound: starts of a loop

NoDoc == "none"

ASSUME PipelineAssumption ==
    /\ Modes \subseteq BOOLEAN /\ Versions \in Nat
    /\ ChunkCount \in Nat \ {0} /\ LoopStarts \in Nat
    /\ NoDoc \notin Docs

VARIABLES
    subprocess,     \* subprocess_enabled
    source,         \* the version of a file; 0 when there is none
    processed,      \* the .json, whole or torn, and the version in the .md
    indexed,        \* the rows of a document
    piping,         \* the pipeline of a loop
    noticing,       \* changes that the watcher has not looked at yet
    loopStarts,
    (* history *)
    crossing,       \* documents that two pipelines had in hand at once
    broken          \* what a pipeline that ended, or failed, left of a document it had in hand

files == <<source, processed>>
pipelineVars ==
    <<subprocess, files, indexed, piping, noticing, loopStarts, crossing, broken>>

Blank == 0      \* the version of a file that is being written, and of none

\* Where a worker is with a document, having read `text` of it; `sync` are the
\* documents that a starting loop has yet to index, `seen` what was enqueued.
Worker ==
    [up: BOOLEAN, watching: BOOLEAN,
     at: {"idle", "read", "torn", "emptied", "written", "loaded", "cleared"},
     doc: Docs \cup {NoDoc}, text: 0..Versions, next: 1..ChunkCount + 1,
     sync: SUBSET Docs, seen: SUBSET (Docs \X (1..Versions)), queue: Seq(Docs)]

Down == [up |-> FALSE, watching |-> FALSE, at |-> "idle", doc |-> NoDoc, text |-> Blank, next |-> 1,
         sync |-> {}, seen |-> {}, queue |-> <<>>]

PipelineTypeOK ==
    /\ subprocess \in BOOLEAN
    /\ source \in [Docs -> 0..Versions]
    /\ processed \in [Docs -> [meta: {"none", "torn", "whole"}, text: 0..Versions]]
    /\ indexed \in [Docs -> SUBSET [by: AgentLoops, text: 0..Versions, chunk: 1..ChunkCount]]
    /\ piping \in [AgentLoops -> Worker]
    /\ noticing \in [AgentLoops -> SUBSET Docs]
    /\ loopStarts \in 0..LoopStarts
    /\ crossing \subseteq Docs
    /\ broken \in [Docs -> {"no", "unindexed", "partial"}]

PipelineInit ==
    /\ subprocess \in Modes
    /\ source = [d \in Docs |-> Blank]
    /\ processed = [d \in Docs |-> [meta |-> "none", text |-> Blank]]
    /\ indexed = [d \in Docs |-> {}]
    /\ piping = [l \in AgentLoops |-> Down] /\ noticing = [l \in AgentLoops |-> {}]
    /\ loopStarts = 0 /\ crossing = {} /\ broken = [d \in Docs |-> "no"]

\* Someone, or fetch_url_to_knowledgebase, writes a file; each write has a
\* time of its own.  Watchers that run hear of it, several changes as one.
WriteSource(d) ==
    /\ source[d] < Versions
    /\ source' = [source EXCEPT ![d] = @ + 1]
    /\ noticing' = [l \in AgentLoops |->
          IF piping[l].watching THEN noticing[l] \cup {d} ELSE noticing[l]]
    /\ UNCHANGED <<subprocess, processed, indexed, piping, loopStarts, crossing, broken>>

\* The threads index what has been processed before they watch.
StartPipeline(l) ==
    /\ ~piping[l].up /\ loopStarts < LoopStarts
    /\ loopStarts' = loopStarts + 1
    /\ piping' = [piping EXCEPT ![l] = [Down EXCEPT !.up = TRUE,
          !.sync = {d \in Docs : ~subprocess /\ processed[d].meta /= "none"}]]
    /\ UNCHANGED <<subprocess, files, indexed, noticing, crossing, broken>>

\* Loop l leaves the document in its hand as it is.
LeavesBehind(l) ==
    broken' = [d \in Docs |->
        IF d /= piping[l].doc THEN broken[d]
        ELSE IF indexed[d] = {} THEN "unindexed"
        ELSE IF piping[l].at = "cleared" THEN "partial" ELSE broken[d]]

\* The process of the pipeline ends, in whatever its threads are doing.
EndPipeline(l) ==
    /\ piping[l].up
    /\ piping' = [piping EXCEPT ![l] = Down]
    /\ noticing' = [noticing EXCEPT ![l] = {}]
    /\ LeavesBehind(l)
    /\ UNCHANGED <<subprocess, files, indexed, loopStarts, crossing>>

StartWatching(l) ==
    /\ piping[l].up /\ ~piping[l].watching /\ piping[l].at = "idle" /\ piping[l].sync = {}
    /\ piping' = [piping EXCEPT ![l].watching = TRUE]
    /\ UNCHANGED <<subprocess, files, indexed, noticing, loopStarts, crossing, broken>>

\* A file is enqueued again when its time of change is another.
Watch(l, d) ==
    /\ d \in noticing[l]
    /\ noticing' = [noticing EXCEPT ![l] = @ \ {d}]
    /\ piping' = IF <<d, source[d]>> \in piping[l].seen THEN piping
                 ELSE [piping EXCEPT ![l].seen = @ \cup {<<d, source[d]>>},
                                     ![l].queue = Append(@, d)]
    /\ UNCHANGED <<subprocess, files, indexed, loopStarts, crossing, broken>>

\* Loop l takes document d in hand.
TakeUp(l, d) ==
    /\ crossing' = crossing \cup {x \in {d} : \E k \in AgentLoops \ {l} : piping[k].doc = d}
    /\ broken' = [broken EXCEPT ![d] = IF @ = "unindexed" THEN "no" ELSE @]

\* The worker takes a file and reads it.
Convert(l) ==
    /\ piping[l].at = "idle" /\ piping[l].sync = {} /\ piping[l].queue /= <<>>
    /\ LET d == Head(piping[l].queue) IN
          /\ piping' = [piping EXCEPT ![l].doc = d, ![l].at = "read", ![l].text = source[d],
                                      ![l].queue = Tail(@)]
          /\ TakeUp(l, d)
    /\ UNCHANGED <<subprocess, files, indexed, noticing, loopStarts>>

At(l, at) == piping' = [piping EXCEPT ![l].at = at]

\* The metadata are truncated, then written; then the markdown.
WriteProcessed(l) ==
    LET d == piping[l].doc IN
    /\ \/ /\ piping[l].at = "read" /\ At(l, "torn")
          /\ processed' = [processed EXCEPT ![d].meta = "torn"]
       \/ /\ piping[l].at = "torn" /\ At(l, "emptied")
          /\ processed' = [processed EXCEPT ![d] = [meta |-> "whole", text |-> Blank]]
       \/ /\ piping[l].at = "emptied" /\ At(l, "written")
          /\ processed' = [processed EXCEPT ![d].text = piping[l].text]
    /\ UNCHANGED <<subprocess, source, indexed, noticing, loopStarts, crossing, broken>>

Rest(l) ==
    [piping EXCEPT ![l].at = "idle", ![l].doc = NoDoc, ![l].text = Blank, ![l].next = 1]

\* Reading, parsing or writing a file raises, or the database does (it is locked, the
\* disk is full), between any two steps: the worker logs it and goes on to the next.
GiveUp(l) ==
    /\ piping[l].at /= "idle"
    /\ piping' = Rest(l)
    /\ LeavesBehind(l)
    /\ UNCHANGED <<subprocess, files, indexed, noticing, loopStarts, crossing>>

\* The subprocess looks for the markdown under the name of the file, and the
\* converter has written it under the id of the document.
FindsMarkdown == ~subprocess

\* What has been converted is indexed: its metadata must be readable.
LoadConverted(l) ==
    /\ piping[l].at = "written"
    /\ LET d == piping[l].doc IN
          piping' = IF FindsMarkdown /\ processed[d].meta = "whole"
                    THEN [piping EXCEPT ![l].at = "loaded", ![l].text = processed[d].text]
                    ELSE Rest(l)
    /\ UNCHANGED <<subprocess, files, indexed, noticing, loopStarts, crossing, broken>>

\* sync_processed_dir_to_store.
LoadProcessed(l, d) ==
    /\ piping[l].at = "idle" /\ d \in piping[l].sync
    /\ LET skipped == [piping[l] EXCEPT !.sync = @ \ {d}] IN
          IF processed[d].meta = "whole"
          THEN /\ piping' = [piping EXCEPT ![l] =
                      [skipped EXCEPT !.at = "loaded", !.doc = d, !.text = processed[d].text]]
               /\ TakeUp(l, d)
          ELSE piping' = [piping EXCEPT ![l] = skipped] /\ UNCHANGED <<crossing, broken>>
    /\ UNCHANGED <<subprocess, files, indexed, noticing, loopStarts>>

\* Mutant: the rows that are there are neither removed nor an obstacle.
MayClear_MutAlways(d) == TRUE

\* delete_by_doc_id: SQLite refuses the 'delete' command of the trigger on a
\* full-text table that keeps its content, so rows stay once they are there,
\* and the indexing of their document ends with the exception.
MayClear(d) == indexed[d] = {}

ClearRows(l) ==
    /\ piping[l].at = "loaded"
    /\ piping' = IF MayClear(piping[l].doc) THEN [piping EXCEPT ![l].at = "cleared"] ELSE Rest(l)
    /\ UNCHANGED <<subprocess, files, indexed, noticing, loopStarts, crossing, broken>>

\* index_chunk.
InsertRow(l) ==
    LET p == piping[l] IN
    /\ p.at = "cleared"
    /\ indexed' = [indexed EXCEPT ![p.doc] = @ \cup {[by |-> l, text |-> p.text, chunk |-> p.next]}]
    /\ piping' = IF p.next = ChunkCount THEN Rest(l) ELSE [piping EXCEPT ![l].next = @ + 1]
    /\ UNCHANGED <<subprocess, files, noticing, loopStarts, crossing, broken>>

PipelineNext ==
    \/ \E d \in Docs : WriteSource(d)
    \/ \E l \in AgentLoops :
          \/ StartPipeline(l) \/ StartWatching(l) \/ EndPipeline(l) \/ Convert(l)
          \/ WriteProcessed(l) \/ LoadConverted(l) \/ ClearRows(l) \/ InsertRow(l)
          \/ GiveUp(l)
          \/ \E d \in Docs : Watch(l, d) \/ LoadProcessed(l, d)

PipelineSpec == PipelineInit /\ [][PipelineNext]_pipelineVars

---------------------------------------------------------------------------
(* Properties *)

InHand(d) == \E l \in AgentLoops : piping[l].doc = d

\* The index holds the beginning of one version of the document, each chunk once; all of it.
Rows(l, v, n) == {[by |-> l, text |-> v, chunk |-> c] : c \in 1..n}
FoundInPart(d) == \E l \in AgentLoops, v \in 0..Versions, n \in 1..ChunkCount : indexed[d] = Rows(l, v, n)
FoundWhole(d) == \E l \in AgentLoops, v \in 0..Versions : indexed[d] = Rows(l, v, ChunkCount)

\* What has been converted is in the index, unless a pipeline has it in hand, or
\* has ended or failed with it in hand: what the documentation says of the subprocess.
ConvertedIsFound ==
    \A d \in Docs :
        processed[d].meta = "whole" /\ ~InHand(d) /\ broken[d] = "no" => indexed[d] /= {}

\* With the threads, what is converted is found (above).  Although each chunk is a
\* transaction of its own, any of which may fail, and every start indexes all
\* documents again, the index never mixes two versions of a document, and one that
\* is not being indexed is there as a whole and once.  Only two pipelines over one
\* workspace at the same document leave it mixed; and only the end of a pipeline, or
\* an error of the database, between two of its chunks leaves a part of it.
IndexIsWhole ==
    /\ ~subprocess => ConvertedIsFound
    /\ \A d \in Docs \ crossing :
          \/ indexed[d] = {}
          \/ FoundWhole(d)
          \/ FoundInPart(d) /\ (InHand(d) \/ broken[d] = "partial")
================================================================================
