---------------------------- MODULE SessionMemory ----------------------------
(***************************************************************************)
(* One conversation session and what is remembered of it:                  *)
(* session/manager.py (Session, SessionManager), the turns of              *)
(* agent/loop.py that read and append to it (_process_message,             *)
(* _process_system_message), their background _consolidate_memory, and     *)
(* the operators' calls of services/sessions/session_service.py and        *)
(* chat.inject.                                                            *)
(*                                                                         *)
(* A turn keeps the Session object it fetched across its LLM calls, and so *)
(* does a consolidation.  /new, sessions.delete and a restart take the     *)
(* object out of the manager's cache, so several objects of one session    *)
(* can be alive: which one is cached is part of the state.  An object      *)
(* nobody holds is garbage, its name is used again.  save() replaces the   *)
(* file in one step, so a crash leaves a whole file; a missing file reads  *)
(* as an empty session.  A message is named after who wrote it.            *)
(***************************************************************************)
EXTENDS Integers, SequencesExt

CONSTANTS
  Turns,        \* messages to the agent: chat runs, channel messages, subagent reports
  Injects,      \* chat.inject calls
  Compactions,  \* sessions.compact calls
  Objects,      \* Session objects
  NoObject,
  MemoryWindow  \* memory_window

ASSUME SessionAssumption ==
  /\ MemoryWindow \in Nat
  /\ NoObject \notin Objects
  /\ Turns \cap Compactions = {}

VARIABLES
  file,     \* what the session's file holds
  heap,     \* the Session objects
  cached,   \* the object in SessionManager._cache
  turn,     \* turns
  task,     \* consolidations, named after the turn or the call that started them
  injected, \* chat.inject calls that were served
  archived, \* messages that were in the prompt of a consolidation whose answer was taken
  raced     \* some consolidation moved the offset of a list that had changed under it

vars == <<file, heap, cached, turn, task, injected, archived, raced>>

Keep == MemoryWindow \div 2
Message == ((Turns \cup Injects) \X {"user"}) \cup (Turns \X {"assistant"})
Session == [messages : Seq(Message), mark : Int]   \* mark: last_consolidated
Blank == [messages |-> <<>>, mark |-> 0]

Idle == [state |-> "idle", object |-> NoObject, archive |-> FALSE, base |-> Blank]
Unsent == [state |-> "unsent", object |-> NoObject]
Over == [state |-> "over", object |-> NoObject]

Init ==
  /\ file = Blank
  /\ heap = [o \in Objects |-> Blank]
  /\ cached = NoObject
  /\ turn = [t \in Turns |-> Unsent]
  /\ task = [x \in Turns \cup Compactions |-> Idle]
  /\ injected = {}
  /\ archived = {}
  /\ raced = FALSE

-----------------------------------------------------------------------------
(* SessionManager *)

Held(o) ==
  \/ cached = o
  \/ \E t \in Turns : turn[t].object = o
  \/ \E x \in Turns \cup Compactions : task[x].object = o

\* get_or_create: the cached object, else a new one with what the file holds.
\* (Names ending in _Mut and a word are broken variants of the definition below them:
\* the checks of the properties use them.)
Found(o) == o = cached \/ (cached = NoObject /\ ~Held(o))
Content_MutFresh(o) == IF o = cached THEN heap[o] ELSE Blank
Content(o) == IF o = cached THEN heap[o] ELSE file
Fetch(o) ==
  /\ Found(o)
  /\ heap' = [heap EXCEPT ![o] = Content(o)]
  /\ cached' = o

\* save: the file is replaced and the object that was saved becomes the cached one.
Save_MutNoCache(o, s) ==
  /\ heap' = [heap EXCEPT ![o] = s]
  /\ file' = s
  /\ cached' = IF Found(o) THEN o ELSE cached
Save(o, s) ==
  /\ heap' = [heap EXCEPT ![o] = s]
  /\ file' = s
  /\ cached' = o

Plus(s, new) == [s EXCEPT !.messages = @ \o new]
Cleared_MutMark(s) == [s EXCEPT !.messages = <<>>]
Cleared(s) == [s EXCEPT !.messages = <<>>, !.mark = 0]

-----------------------------------------------------------------------------
(* _consolidate_memory *)

\* messages[last_consolidated:-keep_count]; a negative index counts from the end and
\* -0 is 0.
OldMessages(s) ==
  LET n == Len(s.messages)
      from == IF s.mark < 0 THEN n + s.mark ELSE s.mark
      to == IF Keep = 0 THEN 0 ELSE n - Keep
  IN SubSeq(s.messages, (IF from < 0 THEN 0 ELSE from) + 1, to)

\* There is something to consolidate.
Due(s) ==
  /\ Len(s.messages) > Keep
  /\ Len(s.messages) - s.mark > 0
  /\ OldMessages(s) # <<>>

Source(k) == IF k.archive THEN k.base.messages ELSE OldMessages(k.base)

\* The part up to the LLM call: the messages to summarise are read here.
Reading_MutState(o, s, archive) ==
  IF archive \/ Due(s)
  THEN [state |-> IF archive THEN "spawned" ELSE "asking", object |-> o,
        archive |-> archive, base |-> s]
  ELSE Idle
Reading(o, s, archive) ==
  IF archive \/ Due(s)
  THEN [state |-> "asking", object |-> o, archive |-> archive, base |-> s]
  ELSE Idle

\* A turn's consolidation gets to run, some time after the turn created its task.
ConsolidationStarts(x) ==
  /\ task[x].state = "spawned"
  /\ task' = [task EXCEPT ![x] = Reading(@.object, heap[@.object], FALSE)]
  /\ UNCHANGED <<file, heap, cached, turn, injected, archived, raced>>

\* The offset after a consolidation: computed from the list as it is now.
NewMark(x) ==
  IF task[x].archive THEN 0 ELSE Len(heap[task[x].object].messages) - Keep

\* The LLM answers.  The archive of /new works on an object of its own.
ConsolidationEnds(x) ==
  LET o == task[x].object IN
  /\ task[x].state = "asking"
  /\ archived' = archived \cup ToSet(Source(task[x]))
  /\ IF o = NoObject
     THEN UNCHANGED <<heap, raced>>
     ELSE /\ heap' = [heap EXCEPT ![o].mark = NewMark(x)]
          /\ raced' = (raced \/ (~task[x].archive
                                 /\ heap[o].messages # task[x].base.messages))
  /\ task' = [task EXCEPT ![x] = Idle]
  /\ UNCHANGED <<file, cached, turn, injected>>

\* The LLM call fails or its answer is of no use.
ConsolidationFails(x) ==
  /\ task[x].state = "asking"
  /\ task' = [task EXCEPT ![x] = Idle]
  /\ UNCHANGED <<file, heap, cached, turn, injected, archived, raced>>

-----------------------------------------------------------------------------
(* Turns *)

Running(o) == [state |-> "running", object |-> o]
Spawned(o) == [state |-> "spawned", object |-> o, archive |-> FALSE, base |-> Blank]

\* _process_message up to the agent loop: long sessions get a consolidation task.
TurnStarts(t) ==
  \E o \in Objects :
    /\ turn[t] = Unsent
    /\ Fetch(o)
    /\ turn' = [turn EXCEPT ![t] = Running(o)]
    /\ task' = IF Len(Content(o).messages) > MemoryWindow
               THEN [task EXCEPT ![t] = Spawned(o)]
               ELSE task
    /\ UNCHANGED <<file, injected, archived, raced>>

\* _process_system_message: the report of a subagent.
SystemTurnStarts(t) ==
  \E o \in Objects :
    /\ turn[t] = Unsent
    /\ Fetch(o)
    /\ turn' = [turn EXCEPT ![t] = Running(o)]
    /\ UNCHANGED <<file, task, injected, archived, raced>>

\* The agent loop returned an answer.
TurnEnds(t) ==
  LET o == turn[t].object IN
  /\ turn[t].state = "running"
  /\ Save(o, Plus(heap[o], <<<<t, "user">>, <<t, "assistant">>>>))
  /\ turn' = [turn EXCEPT ![t] = Over]
  /\ UNCHANGED <<task, injected, archived, raced>>

\* The turn was aborted or the LLM failed: nothing is stored.
TurnFails(t) ==
  /\ turn[t].state = "running"
  /\ turn' = [turn EXCEPT ![t] = Over]
  /\ UNCHANGED <<file, heap, cached, task, injected, archived, raced>>

\* /new: the messages go to an archive task, the session is cleared, saved and dropped
\* from the cache.
NewSession(t) ==
  \E o \in Objects :
    /\ turn[t] = Unsent
    /\ Found(o)
    /\ heap' = [heap EXCEPT ![o] = Cleared(Content(o))]
    /\ file' = Cleared(Content(o))
    /\ cached' = NoObject
    /\ turn' = [turn EXCEPT ![t] = Over]
    /\ task' = [task EXCEPT ![t] =
                  Reading(NoObject, [Blank EXCEPT !.messages = Content(o).messages], TRUE)]
    /\ UNCHANGED <<injected, archived, raced>>

-----------------------------------------------------------------------------
(* Operators' calls *)

\* chat.inject appends a message without a turn.
Inject(i) ==
  \E o \in Objects :
    /\ i \notin injected
    /\ Found(o)
    /\ Save(o, Plus(Content(o), <<<<i, "user">>>>))
    /\ injected' = injected \cup {i}
    /\ UNCHANGED <<turn, task, archived, raced>>

\* sessions.preview, chat.history, usage: the session is fetched and read.
Look ==
  \E o \in Objects :
    /\ Fetch(o)
    /\ UNCHANGED <<file, turn, task, injected, archived, raced>>

\* sessions.reset, and sessions.patch with reset.
Reset ==
  \E o \in Objects :
    /\ Found(o)
    /\ Save(o, Cleared(Content(o)))
    /\ UNCHANGED <<turn, task, injected, archived, raced>>

\* sessions.patch of something else: saved as it is.
Patch ==
  \E o \in Objects :
    /\ Found(o)
    /\ Save(o, Content(o))
    /\ UNCHANGED <<turn, task, injected, archived, raced>>

\* sessions.delete: out of the cache, then the file.
Delete ==
  /\ file' = Blank
  /\ cached' = NoObject
  /\ UNCHANGED <<heap, turn, task, injected, archived, raced>>

\* sessions.compact runs a consolidation at once, of everything with archiveAll.
Compact(c) ==
  \E o \in Objects, archive \in BOOLEAN :
    /\ task[c] = Idle
    /\ Fetch(o)
    /\ task' = [task EXCEPT ![c] = Reading(o, Content(o), archive)]
    /\ UNCHANGED <<file, turn, injected, archived, raced>>

\* The process ends and starts again: the files are what is left.
Restart ==
  /\ cached' = NoObject
  /\ turn' = [t \in Turns |-> IF turn[t].state = "running" THEN Over ELSE turn[t]]
  /\ task' = [x \in Turns \cup Compactions |-> Idle]
  /\ heap' = [o \in Objects |-> Blank]
  /\ UNCHANGED <<file, injected, archived, raced>>

Turn(t) == TurnStarts(t) \/ SystemTurnStarts(t) \/ TurnEnds(t) \/ TurnFails(t) \/ NewSession(t)
Consolidation(x) == ConsolidationStarts(x) \/ ConsolidationEnds(x) \/ ConsolidationFails(x)

Next ==
  \/ \E t \in Turns : Turn(t)
  \/ \E x \in Turns \cup Compactions : Consolidation(x)
  \/ \E i \in Injects : Inject(i)
  \/ \E c \in Compactions : Compact(c)
  \/ Look \/ Reset \/ Patch \/ Delete \/ Restart

Spec == Init /\ [][Next]_vars

-----------------------------------------------------------------------------
(* Properties *)

\* The session's file and objects, its turns and consolidations have their types.
TypeOK ==
  /\ file \in Session
  /\ heap \in [Objects -> Session]
  /\ cached \in Objects \cup {NoObject}
  /\ turn \in [Turns -> [state : {"unsent", "running", "over"},
                         object : Objects \cup {NoObject}]]
  /\ \A t \in Turns : turn[t].state = "running" <=> turn[t].object # NoObject
  /\ task \in [Turns \cup Compactions ->
                 [state : {"idle", "spawned", "asking"}, archive : BOOLEAN,
                  object : Objects \cup {NoObject}, base : Session]]
  /\ \A x \in Turns \cup Compactions :
        /\ task[x].state = "idle" => task[x].object = NoObject
        /\ task[x].object = NoObject => task[x].state = "idle" \/ task[x].archive
        /\ task[x].state = "spawned" => ~task[x].archive
  /\ injected \subseteq Injects
  /\ archived \subseteq Message
  /\ raced \in BOOLEAN

\* What the gateway shows of a session is what it would show after a restart, whoever
\* saved last and whatever object it saved.
CacheIsOnDisk == cached # NoObject => heap[cached].messages = file.messages

\* last_consolidated counts messages that are in the history file: manager.py says
\* "Number of messages already consolidated to files".
Honest(s) ==
  /\ s.mark \in 0 .. Len(s.messages)
  /\ \A i \in 1 .. s.mark : s.messages[i] \in archived

\* The offset is right as long as no consolidation ended on a list that was appended to
\* or cleared while the LLM worked, across restarts, deletions, failed consolidations
\* and consolidations that run together.
QuietOffsetIsHonest ==
  ~raced => Honest(file) /\ (cached # NoObject => Honest(heap[cached]))

\* No message is behind the offset without having been summarised.
OffsetIsHonest == Honest(file) /\ (cached # NoObject => Honest(heap[cached]))

Written == {<<>>} \cup {<<<<i, "user">>>> : i \in Injects}
             \cup {<<<<t, "user">>, <<t, "assistant">>>> : t \in Turns}

StaleWriter(t) == turn[t].state = "running" /\ turn[t].object # cached

\* The stored messages are append-only ("Messages are append-only for LLM cache
\* efficiency") or cleared; only a turn whose object has left the cache can put back
\* what was cleared, or drop what another turn has stored.
OnlyStaleTurnsOverwrite ==
  [][\/ file'.messages = <<>>
     \/ \E new \in Written : file'.messages = file.messages \o new
     \/ \E t \in Turns : StaleWriter(t) /\ turn'[t] = Over]_vars
===============================================================================
