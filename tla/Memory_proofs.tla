---------------------------- MODULE Memory_proofs ----------------------------
(***************************************************************************)
(* What SessionMemory and LongTermMemory guarantee for every number of     *)
(* turns, tasks, conversations and facts, every window, every history      *)
(* limit and every bound on runs and ends, and that what is proved of each *)
(* holds of the run of both, MCSessionMemory.                              *)
(***************************************************************************)
EXTENDS MCSessionMemory, TLAPS

-------------------------------------------------------------------------------
(* The session's messages and their offset.  The invariant has three parts:   *)
(* the types, the cached object agreeing with the file, and, while no         *)
(* consolidation has raced with a writer, the honesty of every offset there   *)
(* is: in the file, in each object and in what each running consolidation     *)
(* has read.                                                                  *)

Workers == Turns \cup Compactions

\* The offset of s is right for the history a.
HonestIn(s, a) ==
  /\ s.mark \in 0 .. Len(s.messages)
  /\ \A i \in 1 .. s.mark : s.messages[i] \in a

\* A consolidation that is at work has read a list with something to summarise and
\* with an offset that was right.
HonestTask(k, a) == k.state = "asking" /\ ~k.archive => HonestIn(k.base, a) /\ Due(k.base)

AllHonest(f, h, k, a) ==
  /\ HonestIn(f, a)
  /\ \A o \in Objects : HonestIn(h[o], a)
  /\ \A x \in Workers : HonestTask(k[x], a)

HonestInv == ~raced => AllHonest(file, heap, task, archived)

USE SessionAssumption

-----------------------------------------------------------------------------
(* The operators *)

\* keep_count is a natural number.
LEMMA KeepNat == Keep \in Nat
BY SMT DEF Keep

\* A new session is a session.
LEMMA BlankType == Blank \in Session
BY DEF Blank, Session

\* A cleared session has no messages and the offset 0.
LEMMA ClearedType ==
  ASSUME NEW s \in Session
  PROVE  /\ Cleared(s) \in Session
         /\ Cleared(s).messages = <<>>
         /\ Cleared(s).mark = 0
<1> DEFINE e == [s EXCEPT !.messages = <<>>]
<1>1. e \in Session /\ e.messages = <<>>
  <2>1. <<>> \in Seq(Message)  OBVIOUS
  <2> QED  BY <2>1 DEF Session
<1>2. Cleared(s) = [e EXCEPT !.mark = 0]  BY DEF Cleared
<1> HIDE DEF e
<1> QED  BY <1>1, <1>2 DEF Session

\* Appending messages gives a session with the same offset.
LEMMA PlusType ==
  ASSUME NEW s \in Session, NEW new \in Seq(Message)
  PROVE  /\ Plus(s, new) \in Session
         /\ Plus(s, new).mark = s.mark
         /\ Plus(s, new).messages = s.messages \o new
<1>1. s.messages \o new \in Seq(Message)  BY DEF Session
<1> QED  BY <1>1 DEF Plus, Session

\* The messages of a turn and of an injection are messages.
LEMMA WrittenType ==
  /\ \A t \in Turns : <<<<t, "user">>, <<t, "assistant">>>> \in Seq(Message)
  /\ \A i \in Injects : <<<<i, "user">>>> \in Seq(Message)
BY DEF Message

\* Moving the offset keeps a session a session, with its messages.
LEMMA MarkType ==
  ASSUME NEW s \in Session, NEW n \in Int
  PROVE  /\ [s EXCEPT !.mark = n] \in Session
         /\ [s EXCEPT !.mark = n].messages = s.messages
         /\ [s EXCEPT !.mark = n].mark = n
BY DEF Session

\* What get_or_create returns is a session.
LEMMA ContentType ==
  ASSUME TypeOK, NEW o \in Objects PROVE Content(o) \in Session
BY DEF TypeOK, Content

\* What a consolidation summarises are messages.
LEMMA OldType ==
  ASSUME NEW s \in Session
  PROVE  OldMessages(s) \in Seq(Message)
<1> USE KeepNat
<1>1. s.messages \in Seq(Message) /\ s.mark \in Int /\ Len(s.messages) \in Nat  BY DEF Session
<1> DEFINE n == Len(s.messages)
           from == IF s.mark < 0 THEN n + s.mark ELSE s.mark
           lo == (IF from < 0 THEN 0 ELSE from) + 1
           hi == IF Keep = 0 THEN 0 ELSE n - Keep
<1>2. lo \in Int /\ hi \in Int /\ 1 <= lo /\ hi <= n  BY <1>1
<1>3. SubSeq(s.messages, lo, hi) \in Seq(Message)
  <2> HIDE DEF lo, hi
  <2>1. \A i \in lo .. hi : s.messages[i] \in Message  BY <1>1, <1>2
  <2> QED  BY <1>1, <1>2, <2>1
<1> QED  BY <1>3 DEF OldMessages

\* While there is something to do, the offset and what is summarised cover everything
\* but the kept messages.
LEMMA OldCovers ==
  ASSUME NEW s \in Session, Due(s), s.mark >= 0,
         NEW i \in Int, s.mark < i, i <= Len(s.messages) - Keep
  PROVE  s.messages[i] \in ToSet(OldMessages(s))
<1> USE KeepNat
<1>1. s.messages \in Seq(Message) /\ s.mark \in Int /\ Len(s.messages) \in Nat  BY DEF Session
<1>2. Keep # 0
  <2> SUFFICES ASSUME Keep = 0 PROVE FALSE  OBVIOUS
  <2>1. OldMessages(s) = SubSeq(s.messages, s.mark + 1, 0)  BY <1>1 DEF OldMessages
  <2>2. OldMessages(s) = <<>>  BY <2>1, <1>1
  <2> QED  BY <2>2 DEF Due
<1>3. OldMessages(s) = SubSeq(s.messages, s.mark + 1, Len(s.messages) - Keep)
  <2> DEFINE from == IF s.mark < 0 THEN Len(s.messages) + s.mark ELSE s.mark
             lo == (IF from < 0 THEN 0 ELSE from) + 1
             hi == IF Keep = 0 THEN 0 ELSE Len(s.messages) - Keep
  <2>1. lo = s.mark + 1 /\ hi = Len(s.messages) - Keep  BY <1>1, <1>2
  <2>2. OldMessages(s) = SubSeq(s.messages, lo, hi)  BY DEF OldMessages
  <2> HIDE DEF lo, hi
  <2> QED  BY <2>1, <2>2
<1> DEFINE old == SubSeq(s.messages, s.mark + 1, Len(s.messages) - Keep)
<1>4. Len(old) = Len(s.messages) - Keep - s.mark /\ old[i - s.mark] = s.messages[i]
  <2> DEFINE lo == s.mark + 1
             hi == Len(s.messages) - Keep
             j == i - s.mark
  <2>1. /\ lo \in Int /\ hi \in Int /\ j \in Int
        /\ 1 <= lo /\ lo <= hi /\ hi <= Len(s.messages)
    BY <1>1
  <2>2. 1 <= j /\ j <= hi - lo + 1  BY <1>1
  <2>3. lo + j - 1 = i /\ hi - lo + 1 = hi - s.mark  BY <1>1
  <2>4. Len(SubSeq(s.messages, lo, hi)) = hi - lo + 1
        /\ SubSeq(s.messages, lo, hi)[j] = s.messages[lo + j - 1]
    <3> HIDE DEF lo, hi, j
    <3> QED  BY <1>1, <2>1, <2>2
  <2>5. old = SubSeq(s.messages, lo, hi) /\ j = i - s.mark /\ hi = Len(s.messages) - Keep  OBVIOUS
  <2> HIDE DEF lo, hi, j, old
  <2>6. Len(old) = hi - s.mark  BY <2>3, <2>4, <2>5
  <2>7. old[j] = s.messages[i]  BY <2>3, <2>4, <2>5
  <2> QED  BY <2>5, <2>6, <2>7
<1>5. i - s.mark \in DOMAIN old
  <2>1. old \in Seq(Message)  BY <1>3, OldType
  <2>2. i - s.mark >= 1 /\ i - s.mark <= Len(s.messages) - Keep - s.mark  BY <1>1
  <2>3. i - s.mark \in 1..Len(old)
    <3> HIDE DEF old
    <3> QED  BY <1>4, <2>2, <1>1
  <2>4. DOMAIN old = 1..Len(old)
    <3> HIDE DEF old
    <3> QED  BY <2>1
  <2> QED  BY <2>3, <2>4
<1> QED  BY <1>3, <1>4, <1>5 DEF ToSet

-----------------------------------------------------------------------------
(* Types *)

\* The types of a consolidation's record.
TaskType(k) ==
  /\ k \in [state : {"idle", "spawned", "asking"}, archive : BOOLEAN,
            object : Objects \cup {NoObject}, base : Session]
  /\ k.state = "idle" => k.object = NoObject
  /\ k.object = NoObject => k.state = "idle" \/ k.archive
  /\ k.state = "spawned" => ~k.archive

\* The types of a turn's record.
TurnType(r) ==
  /\ r \in [state : {"unsent", "running", "over"}, object : Objects \cup {NoObject}]
  /\ r.state = "running" <=> r.object # NoObject

\* The records the actions write.
LEMMA RecordTypes ==
  /\ TaskType(Idle) /\ TurnType(Unsent) /\ TurnType(Over)
  /\ \A o \in Objects : TaskType(Spawned(o)) /\ TurnType(Running(o))
  /\ \A o \in Objects, s \in Session, b \in BOOLEAN : TaskType(Reading(o, s, b))
  /\ \A s \in Session : TaskType(Reading(NoObject, s, TRUE))
<1> USE BlankType
<1>1. TaskType(Idle)  BY DEF TaskType, Idle
<1>2. TurnType(Unsent) /\ TurnType(Over)  BY DEF TurnType, Unsent, Over
<1>3. \A o \in Objects : TurnType(Running(o))  BY DEF TurnType, Running
<1>4. \A o \in Objects : TaskType(Spawned(o))  BY DEF TaskType, Spawned
<1>5. \A o \in Objects, s \in Session, b \in BOOLEAN : TaskType(Reading(o, s, b))
  BY <1>1 DEF TaskType, Reading
<1>6. \A s \in Session : TaskType(Reading(NoObject, s, TRUE))
  BY <1>1 DEF TaskType, Reading
<1> QED  BY <1>1, <1>2, <1>3, <1>4, <1>5, <1>6

\* A table of turns, a table of consolidations.
TurnTable(f) == f = [t \in Turns |-> f[t]] /\ \A t \in Turns : TurnType(f[t])
TaskTable(f) == f = [x \in Workers |-> f[x]] /\ \A x \in Workers : TaskType(f[x])

\* The type invariant by its parts.
LEMMA TypeParts ==
  TypeOK <=> /\ file \in Session
             /\ heap \in [Objects -> Session]
             /\ cached \in Objects \cup {NoObject}
             /\ TurnTable(turn)
             /\ TaskTable(task)
             /\ injected \subseteq Injects
             /\ archived \subseteq Message
             /\ raced \in BOOLEAN
BY DEF TypeOK, TurnType, TaskType, Workers, TurnTable, TaskTable

\* The type invariant of the next state by its parts.
LEMMA NextTypeParts ==
  ASSUME file' \in Session,
         heap' \in [Objects -> Session],
         cached' \in Objects \cup {NoObject},
         \E f : turn' = f /\ TurnTable(f),
         \E f : task' = f /\ TaskTable(f),
         injected' \subseteq Injects,
         archived' \subseteq Message,
         raced' \in BOOLEAN
  PROVE  TypeOK'
<1>1. PICK f : turn' = f /\ TurnTable(f)  OBVIOUS
<1>2. PICK g : task' = g /\ TaskTable(g)  OBVIOUS
<1>3. /\ turn' \in [Turns -> [state : {"unsent", "running", "over"},
                             object : Objects \cup {NoObject}]]
      /\ \A t \in Turns : turn'[t].state = "running" <=> turn'[t].object # NoObject
  BY <1>1 DEF TurnTable, TurnType
<1>4. /\ task' \in [Workers -> [state : {"idle", "spawned", "asking"}, archive : BOOLEAN,
                               object : Objects \cup {NoObject}, base : Session]]
      /\ \A x \in Workers :
           /\ task'[x].state = "idle" => task'[x].object = NoObject
           /\ task'[x].object = NoObject => task'[x].state = "idle" \/ task'[x].archive
           /\ task'[x].state = "spawned" => ~task'[x].archive
  BY <1>2 DEF TaskTable, TaskType
<1> QED  BY <1>3, <1>4 DEF TypeOK, Workers

\* Storing a well-typed session in the heap, a record in a table.
LEMMA StoreTypes ==
  ASSUME TypeOK
  PROVE  /\ \A o \in Objects, s \in Session : [heap EXCEPT ![o] = s] \in [Objects -> Session]
         /\ \A t \in Turns : \A r : TurnType(r) => TurnTable([turn EXCEPT ![t] = r])
         /\ \A x \in Workers : \A k : TaskType(k) => TaskTable([task EXCEPT ![x] = k])
<1>1. \A o \in Objects, s \in Session : [heap EXCEPT ![o] = s] \in [Objects -> Session]
  BY DEF TypeOK
<1>2. \A t \in Turns : \A r : TurnType(r) => TurnTable([turn EXCEPT ![t] = r])
  BY TypeParts DEF TurnTable
<1>3. \A x \in Workers : \A k : TaskType(k) => TaskTable([task EXCEPT ![x] = k])
  BY TypeParts DEF TaskTable
<1> QED  BY <1>1, <1>2, <1>3

\* The types hold initially.
LEMMA InitTypes == Init => TypeOK
<1> SUFFICES ASSUME Init PROVE TypeOK  OBVIOUS
<1>1. TurnTable(turn)
  BY RecordTypes DEF Init, TurnTable
<1>2. TaskTable(task)
  BY RecordTypes DEF Init, TaskTable, Workers
<1> QED  BY <1>1, <1>2, TypeParts, BlankType DEF Init

\* Turns keep the types.
LEMMA TurnTypes ==
  ASSUME TypeOK, NEW t \in Turns, Turn(t)
  PROVE  TypeOK'
<1> USE TypeParts, RecordTypes, StoreTypes
<1>1. t \in Workers  BY DEF Workers
<1>2. CASE TurnStarts(t)
  <2>1. PICK o \in Objects :
          /\ Fetch(o)
          /\ turn' = [turn EXCEPT ![t] = Running(o)]
          /\ task' = IF Len(Content(o).messages) > MemoryWindow
                     THEN [task EXCEPT ![t] = Spawned(o)] ELSE task
          /\ UNCHANGED <<file, injected, archived, raced>>
    BY <1>2 DEF TurnStarts
  <2>2. heap' \in [Objects -> Session] /\ cached' \in Objects
    BY <2>1, ContentType DEF Fetch
  <2>3. \E f : turn' = f /\ TurnTable(f)  BY <2>1
  <2>4. \E f : task' = f /\ TaskTable(f)  BY <1>1, <2>1
  <2> QED  BY <2>1, <2>2, <2>3, <2>4, NextTypeParts
<1>3. CASE SystemTurnStarts(t)
  <2>1. PICK o \in Objects :
          /\ Fetch(o)
          /\ turn' = [turn EXCEPT ![t] = Running(o)]
          /\ UNCHANGED <<file, task, injected, archived, raced>>
    BY <1>3 DEF SystemTurnStarts
  <2>2. heap' \in [Objects -> Session] /\ cached' \in Objects
    BY <2>1, ContentType DEF Fetch
  <2>3. \E f : turn' = f /\ TurnTable(f)  BY <2>1
  <2>4. \E f : task' = f /\ TaskTable(f)  BY <2>1
  <2> QED  BY <2>1, <2>2, <2>3, <2>4, NextTypeParts
<1>4. CASE TurnEnds(t)
  <2> DEFINE o == turn[t].object
             s == Plus(heap[o], <<<<t, "user">>, <<t, "assistant">>>>)
  <2>1. o \in Objects /\ heap[o] \in Session  BY <1>4 DEF TurnEnds, TypeOK
  <2>2. s \in Session  BY <2>1, PlusType, WrittenType
  <2>3. heap' = [heap EXCEPT ![o] = s] /\ file' = s /\ cached' = o
    BY <1>4 DEF TurnEnds, Save
  <2>4. \E f : turn' = f /\ TurnTable(f)  BY <1>4 DEF TurnEnds
  <2>5. \E f : task' = f /\ TaskTable(f)  BY <1>4 DEF TurnEnds
  <2> HIDE DEF o, s
  <2>6. heap' \in [Objects -> Session]  BY <2>1, <2>2, <2>3
  <2> QED  BY <1>4, <2>1, <2>2, <2>3, <2>4, <2>5, <2>6, NextTypeParts DEF TurnEnds
<1>5. CASE TurnFails(t)
  <2>1. \E f : turn' = f /\ TurnTable(f)  BY <1>5 DEF TurnFails
  <2>2. \E f : task' = f /\ TaskTable(f)  BY <1>5 DEF TurnFails
  <2> QED  BY <1>5, <2>1, <2>2, NextTypeParts DEF TurnFails
<1>6. CASE NewSession(t)
  <2>1. PICK o \in Objects :
          /\ heap' = [heap EXCEPT ![o] = Cleared(Content(o))]
          /\ file' = Cleared(Content(o))
          /\ cached' = NoObject
          /\ turn' = [turn EXCEPT ![t] = Over]
          /\ task' = [task EXCEPT ![t] =
                Reading(NoObject, [Blank EXCEPT !.messages = Content(o).messages], TRUE)]
          /\ UNCHANGED <<injected, archived, raced>>
    BY <1>6 DEF NewSession
  <2>2. Content(o) \in Session /\ Cleared(Content(o)) \in Session
    BY ContentType, ClearedType
  <2>3. [Blank EXCEPT !.messages = Content(o).messages] \in Session
    BY <2>2, BlankType DEF Session
  <2>4. heap' \in [Objects -> Session] /\ file' \in Session  BY <2>1, <2>2
  <2>5. \E f : turn' = f /\ TurnTable(f)  BY <2>1
  <2>6. \E f : task' = f /\ TaskTable(f)  BY <1>1, <2>1, <2>3
  <2> QED  BY <2>1, <2>4, <2>5, <2>6, NextTypeParts
<1> QED  BY <1>2, <1>3, <1>4, <1>5, <1>6 DEF Turn

\* Consolidations keep the types.
LEMMA ConsolidationTypes ==
  ASSUME TypeOK, NEW x \in Workers, Consolidation(x)
  PROVE  TypeOK'
<1> USE TypeParts, RecordTypes, StoreTypes
<1> DEFINE o == task[x].object
<1>1. TaskType(task[x])  BY DEF TaskTable
<1>2. CASE ConsolidationStarts(x)
  <2>1. o \in Objects  BY <1>1, <1>2 DEF ConsolidationStarts, TaskType
  <2>2. heap[o] \in Session  BY <2>1 DEF TypeOK
  <2>3. task' = [task EXCEPT ![x] = Reading(o, heap[o], FALSE)]
    BY <1>1, <1>2 DEF ConsolidationStarts, TaskTable
  <2>4. \E f : task' = f /\ TaskTable(f)
    <3> HIDE DEF o
    <3> QED  BY <2>1, <2>2, <2>3
  <2>5. \E f : turn' = f /\ TurnTable(f)  BY <1>2 DEF ConsolidationStarts
  <2> QED  BY <1>2, <2>4, <2>5, NextTypeParts DEF ConsolidationStarts
<1>3. CASE ConsolidationEnds(x)
  <2>1. task[x].base \in Session  BY <1>1 DEF TaskType
  <2>2. Source(task[x]) \in Seq(Message)  BY <2>1, OldType DEF Source, Session
  <2>3. ToSet(Source(task[x])) \subseteq Message  BY <2>2 DEF ToSet
  <2>4. archived' \subseteq Message  BY <1>3, <2>3 DEF ConsolidationEnds
  <2>5. heap' \in [Objects -> Session] /\ raced' \in BOOLEAN
    <3>1. CASE o = NoObject  BY <1>3, <3>1 DEF ConsolidationEnds
    <3>2. CASE o # NoObject
      <4>1. o \in Objects /\ heap[o] \in Session  BY <1>1, <3>2 DEF TaskType, TypeOK
      <4>2. NewMark(x) \in Int  BY <4>1, KeepNat DEF NewMark, Session
      <4>3. [heap[o] EXCEPT !.mark = NewMark(x)] \in Session  BY <4>1, <4>2, MarkType
      <4>4. heap' = [heap EXCEPT ![o] = [heap[o] EXCEPT !.mark = NewMark(x)]]
        BY <1>3, <3>2, <4>1 DEF ConsolidationEnds
      <4>5. raced' \in BOOLEAN  BY <1>3, <3>2 DEF ConsolidationEnds
      <4> HIDE DEF o
      <4> QED  BY <4>1, <4>3, <4>4, <4>5
    <3> QED  BY <3>1, <3>2
  <2>6. \E f : task' = f /\ TaskTable(f)  BY <1>3 DEF ConsolidationEnds
  <2>7. \E f : turn' = f /\ TurnTable(f)  BY <1>3 DEF ConsolidationEnds
  <2> QED  BY <1>3, <2>4, <2>5, <2>6, <2>7, NextTypeParts DEF ConsolidationEnds
<1>4. CASE ConsolidationFails(x)
  <2>1. \E f : task' = f /\ TaskTable(f)  BY <1>4 DEF ConsolidationFails
  <2>2. \E f : turn' = f /\ TurnTable(f)  BY <1>4 DEF ConsolidationFails
  <2> QED  BY <1>4, <2>1, <2>2, NextTypeParts DEF ConsolidationFails
<1> QED  BY <1>2, <1>3, <1>4 DEF Consolidation

\* Saving a well-typed session keeps the types.
LEMMA SaveTypes ==
  ASSUME TypeOK, NEW o \in Objects, NEW s \in Session, Save(o, s),
         UNCHANGED <<turn, task, archived, raced>>, injected' \subseteq Injects
  PROVE  TypeOK'
<1> USE TypeParts, StoreTypes
<1>1. \E f : turn' = f /\ TurnTable(f)  OBVIOUS
<1>2. \E f : task' = f /\ TaskTable(f)  OBVIOUS
<1> QED  BY <1>1, <1>2, NextTypeParts DEF Save

\* The operators' calls and a restart keep the types.
LEMMA CallTypes ==
  ASSUME TypeOK,
         \/ \E i \in Injects : Inject(i)
         \/ \E c \in Compactions : Compact(c)
         \/ Look \/ Reset \/ Patch \/ Delete \/ Restart
  PROVE  TypeOK'
<1> USE TypeParts, RecordTypes, StoreTypes
<1>1. ASSUME NEW i \in Injects, Inject(i) PROVE TypeOK'
  <2>1. PICK o \in Objects : /\ Save(o, Plus(Content(o), <<<<i, "user">>>>))
                             /\ injected' = injected \cup {i}
                             /\ UNCHANGED <<turn, task, archived, raced>>
    BY <1>1 DEF Inject
  <2>2. Plus(Content(o), <<<<i, "user">>>>) \in Session
    BY ContentType, PlusType, WrittenType
  <2> QED  BY <2>1, <2>2, SaveTypes
<1>2. ASSUME NEW c \in Compactions, Compact(c) PROVE TypeOK'
  <2>1. PICK o \in Objects, whole \in BOOLEAN :
          /\ Fetch(o)
          /\ task' = [task EXCEPT ![c] = Reading(o, Content(o), whole)]
          /\ UNCHANGED <<file, turn, injected, archived, raced>>
    BY <1>2 DEF Compact
  <2>2. heap' \in [Objects -> Session] /\ cached' \in Objects
    BY <2>1, ContentType DEF Fetch
  <2>3. \E f : turn' = f /\ TurnTable(f)  BY <2>1
  <2>4. \E f : task' = f /\ TaskTable(f)  BY <2>1, ContentType DEF Workers
  <2> QED  BY <2>1, <2>2, <2>3, <2>4, NextTypeParts
<1>3. CASE Look
  <2>1. PICK o \in Objects : Fetch(o) /\ UNCHANGED <<file, turn, task, injected, archived, raced>>
    BY <1>3 DEF Look
  <2>2. heap' \in [Objects -> Session] /\ cached' \in Objects
    BY <2>1, ContentType DEF Fetch
  <2>3. \E f : turn' = f /\ TurnTable(f)  BY <2>1
  <2>4. \E f : task' = f /\ TaskTable(f)  BY <2>1
  <2> QED  BY <2>1, <2>2, <2>3, <2>4, NextTypeParts
<1>4. CASE Reset
  BY <1>4, ContentType, ClearedType, SaveTypes DEF Reset
<1>5. CASE Patch
  BY <1>5, ContentType, SaveTypes DEF Patch
<1>6. CASE Delete
  <2>1. \E f : turn' = f /\ TurnTable(f)  BY <1>6 DEF Delete
  <2>2. \E f : task' = f /\ TaskTable(f)  BY <1>6 DEF Delete
  <2> QED  BY <1>6, <2>1, <2>2, BlankType, NextTypeParts DEF Delete
<1>7. CASE Restart
  <2>1. TurnTable([t \in Turns |-> IF turn[t].state = "running" THEN Over ELSE turn[t]])
    BY DEF TurnTable
  <2>2. TaskTable([x \in Workers |-> Idle])  BY DEF TaskTable
  <2>3. heap' \in [Objects -> Session]  BY <1>7, BlankType DEF Restart
  <2>4. \E f : turn' = f /\ TurnTable(f)  BY <1>7, <2>1 DEF Restart
  <2>5. \E f : task' = f /\ TaskTable(f)  BY <1>7, <2>2 DEF Restart, Workers
  <2> QED  BY <1>7, <2>3, <2>4, <2>5, NextTypeParts DEF Restart
<1> QED  BY <1>1, <1>2, <1>3, <1>4, <1>5, <1>6, <1>7

\* Every step keeps the types.
LEMMA StepTypes == TypeOK /\ [Next]_vars => TypeOK'
<1> SUFFICES ASSUME TypeOK, [Next]_vars PROVE TypeOK'  OBVIOUS
<1>1. CASE UNCHANGED vars  BY <1>1 DEF vars, TypeOK
<1>2. CASE Next
  BY <1>2, TurnTypes, ConsolidationTypes, CallTypes DEF Next, Workers
<1> QED  BY <1>1, <1>2

\* The session's file and objects, its turns and consolidations have their types.
THEOREM SessionTypes == Spec => []TypeOK
<1> QED  BY InitTypes, StepTypes, PTL DEF Spec

-----------------------------------------------------------------------------
(* The cache and the file *)

\* Fetching a session leaves the cached object with the messages of the file.
LEMMA FetchAgrees ==
  ASSUME TypeOK, CacheIsOnDisk, NEW o \in Objects, Fetch(o), file' = file
  PROVE  CacheIsOnDisk'
<1>1. heap'[o] = Content(o) /\ cached' = o  BY DEF Fetch, TypeOK
<1>2. Content(o).messages = file.messages  BY DEF Content, CacheIsOnDisk
<1> QED  BY <1>1, <1>2 DEF CacheIsOnDisk

\* So does saving one.
LEMMA SaveAgrees ==
  ASSUME TypeOK, NEW o \in Objects, NEW s, Save(o, s)
  PROVE  CacheIsOnDisk'
BY DEF Save, TypeOK, CacheIsOnDisk

\* A consolidation moves offsets and no messages.
LEMMA ConsolidationKeepsMessages ==
  ASSUME TypeOK, NEW x \in Workers, Consolidation(x)
  PROVE  \A o \in Objects : heap'[o].messages = heap[o].messages
<1>1. CASE ConsolidationStarts(x)  BY <1>1 DEF ConsolidationStarts
<1>2. CASE ConsolidationFails(x)  BY <1>2 DEF ConsolidationFails
<1>3. CASE ConsolidationEnds(x)
  <2>1. CASE task[x].object = NoObject  BY <1>3, <2>1 DEF ConsolidationEnds
  <2>2. CASE task[x].object # NoObject
    <3>1. heap' = [heap EXCEPT ![task[x].object].mark = NewMark(x)]
      BY <1>3, <2>2 DEF ConsolidationEnds
    <3>2. \A o \in Objects : heap[o] \in Session  BY DEF TypeOK
    <3> QED  BY <3>1, <3>2 DEF Session, TypeOK
  <2> QED  BY <2>1, <2>2
<1> QED  BY <1>1, <1>2, <1>3 DEF Consolidation

\* Every step keeps the cached object and the file together.
LEMMA StepAgrees == TypeOK /\ CacheIsOnDisk /\ [Next]_vars => CacheIsOnDisk'
<1> SUFFICES ASSUME TypeOK, CacheIsOnDisk, [Next]_vars PROVE CacheIsOnDisk'  OBVIOUS
<1>1. CASE UNCHANGED vars  BY <1>1 DEF vars, CacheIsOnDisk
<1>2. ASSUME NEW t \in Turns, Turn(t) PROVE CacheIsOnDisk'
  <2>1. CASE TurnStarts(t)  BY <2>1, FetchAgrees DEF TurnStarts
  <2>2. CASE SystemTurnStarts(t)  BY <2>2, FetchAgrees DEF SystemTurnStarts
  <2>3. CASE TurnEnds(t)
    <3>1. turn[t].object \in Objects  BY <2>3 DEF TurnEnds, TypeOK
    <3> QED  BY <2>3, <3>1, SaveAgrees DEF TurnEnds
  <2>4. CASE TurnFails(t)  BY <2>4 DEF TurnFails, CacheIsOnDisk
  <2>5. CASE NewSession(t)  BY <2>5 DEF NewSession, CacheIsOnDisk
  <2> QED  BY <1>2, <2>1, <2>2, <2>3, <2>4, <2>5 DEF Turn
<1>3. ASSUME NEW x \in Workers, Consolidation(x) PROVE CacheIsOnDisk'
  <2>1. file' = file /\ cached' = cached
    BY <1>3 DEF Consolidation, ConsolidationStarts, ConsolidationEnds, ConsolidationFails
  <2> QED  BY <1>3, <2>1, ConsolidationKeepsMessages DEF CacheIsOnDisk, TypeOK
<1>4. ASSUME NEW i \in Injects, Inject(i) PROVE CacheIsOnDisk'
  BY <1>4, SaveAgrees DEF Inject
<1>5. ASSUME NEW c \in Compactions, Compact(c) PROVE CacheIsOnDisk'
  BY <1>5, FetchAgrees DEF Compact
<1>6. CASE Look  BY <1>6, FetchAgrees DEF Look
<1>7. CASE Reset  BY <1>7, SaveAgrees DEF Reset
<1>8. CASE Patch  BY <1>8, SaveAgrees DEF Patch
<1>9. CASE Delete  BY <1>9 DEF Delete, CacheIsOnDisk
<1>10. CASE Restart  BY <1>10 DEF Restart, CacheIsOnDisk
<1> QED
  BY <1>1, <1>2, <1>3, <1>4, <1>5, <1>6, <1>7, <1>8, <1>9, <1>10 DEF Next, Workers

\* What the gateway shows of a session is what it would show after a restart.
THEOREM CacheNeverLags == Spec => []CacheIsOnDisk
<1>1. Init => CacheIsOnDisk  BY DEF Init, CacheIsOnDisk
<1> QED  BY <1>1, InitTypes, StepTypes, StepAgrees, PTL DEF Spec

-----------------------------------------------------------------------------
(* Who may overwrite *)

\* Every step extends the stored messages by what one writer wrote, clears them, or is
\* the end of a turn whose object has left the cache.
LEMMA StepStores ==
  ASSUME TypeOK, CacheIsOnDisk, Next
  PROVE  \/ file'.messages = <<>>
         \/ \E new \in Written : file'.messages = file.messages \o new
         \/ \E t \in Turns : StaleWriter(t) /\ turn'[t] = Over
<1> DEFINE Goal == \/ file'.messages = <<>>
                   \/ \E new \in Written : file'.messages = file.messages \o new
                   \/ \E t \in Turns : StaleWriter(t) /\ turn'[t] = Over
<1>1. ASSUME file'.messages = file.messages PROVE Goal
  <2>1. file.messages \o <<>> = file.messages  BY DEF TypeOK, Session
  <2>2. <<>> \in Written  BY DEF Written
  <2> QED  BY <1>1, <2>1, <2>2
<1>2. \A o \in Objects : Found(o) => /\ Content(o) \in Session
                                     /\ Content(o).messages = file.messages
  BY ContentType DEF Content, CacheIsOnDisk
<1>3. ASSUME NEW t \in Turns, Turn(t) PROVE Goal
  <2>1. CASE TurnStarts(t)  BY <1>1, <2>1 DEF TurnStarts
  <2>2. CASE SystemTurnStarts(t)  BY <1>1, <2>2 DEF SystemTurnStarts
  <2>3. CASE TurnEnds(t)
    <3> DEFINE o == turn[t].object
               new == <<<<t, "user">>, <<t, "assistant">>>>
    <3>1. o \in Objects /\ heap[o] \in Session  BY <2>3 DEF TurnEnds, TypeOK
    <3>2. file'.messages = heap[o].messages \o new
      BY <2>3, <3>1, PlusType, WrittenType DEF TurnEnds, Save
    <3>3. new \in Written  BY DEF Written
    <3>4. CASE o = cached
      <4>1. heap[o].messages = file.messages  BY <3>1, <3>4 DEF CacheIsOnDisk
      <4> QED  BY <3>2, <3>3, <4>1
    <3>5. CASE o # cached
      <4>1. StaleWriter(t)  BY <2>3, <3>5 DEF StaleWriter, TurnEnds
      <4>2. turn'[t] = Over  BY <2>3 DEF TurnEnds, TypeOK
      <4> QED  BY <4>1, <4>2
    <3> QED  BY <3>4, <3>5
  <2>4. CASE TurnFails(t)  BY <1>1, <2>4 DEF TurnFails
  <2>5. CASE NewSession(t)
    <3>1. PICK o \in Objects : file' = Cleared(Content(o))  BY <2>5 DEF NewSession
    <3> QED  BY <3>1, ContentType, ClearedType
  <2> QED  BY <1>3, <2>1, <2>2, <2>3, <2>4, <2>5 DEF Turn
<1>4. ASSUME NEW x \in Workers, Consolidation(x) PROVE Goal
  BY <1>1, <1>4 DEF Consolidation, ConsolidationStarts, ConsolidationEnds, ConsolidationFails
<1>5. ASSUME NEW i \in Injects, Inject(i) PROVE Goal
  <2>1. PICK o \in Objects : Found(o) /\ file' = Plus(Content(o), <<<<i, "user">>>>)
    BY <1>5 DEF Inject, Save
  <2>2. file'.messages = file.messages \o <<<<i, "user">>>>
    BY <1>2, <2>1, PlusType, WrittenType
  <2>3. <<<<i, "user">>>> \in Written  BY DEF Written
  <2> QED  BY <2>2, <2>3
<1>6. ASSUME NEW c \in Compactions, Compact(c) PROVE Goal  BY <1>1, <1>6 DEF Compact
<1>7. CASE Look  BY <1>1, <1>7 DEF Look
<1>8. CASE Reset
  <2>1. PICK o \in Objects : file' = Cleared(Content(o))  BY <1>8 DEF Reset, Save
  <2> QED  BY <2>1, ContentType, ClearedType
<1>9. CASE Patch
  <2>1. PICK o \in Objects : Found(o) /\ file' = Content(o)  BY <1>9 DEF Patch, Save
  <2> QED  BY <1>1, <1>2, <2>1
<1>10. CASE Delete  BY <1>10 DEF Delete, Blank
<1>11. CASE Restart  BY <1>1, <1>11 DEF Restart
<1> QED
  BY <1>3, <1>4, <1>5, <1>6, <1>7, <1>8, <1>9, <1>10, <1>11 DEF Next, Workers

\* Stored messages are append-only or cleared, but for turns whose object has left the
\* cache.
THEOREM StoredIsAppendOnly == Spec => OnlyStaleTurnsOverwrite
<1>1. TypeOK /\ CacheIsOnDisk /\ [Next]_vars
        => [\/ file'.messages = <<>>
            \/ \E new \in Written : file'.messages = file.messages \o new
            \/ \E t \in Turns : StaleWriter(t) /\ turn'[t] = Over]_vars
  BY StepStores
<1> QED  BY <1>1, SessionTypes, CacheNeverLags, PTL DEF Spec, OnlyStaleTurnsOverwrite

-----------------------------------------------------------------------------
(* The offsets *)

\* Honest offsets of the next state by their parts.
LEMMA NextHonest ==
  ASSUME NEW f, NEW h, NEW k, NEW a,
         file' = f, heap' = h, task' = k, archived' = a, AllHonest(f, h, k, a)
  PROVE  HonestInv'
BY DEF HonestInv, AllHonest, HonestIn, HonestTask, Due, OldMessages

\* The parts an action does not write stay honest: it is enough to look at the file,
\* one object and one consolidation.
LEMMA OneHonest ==
  ASSUME TypeOK, AllHonest(file, heap, task, archived),
         NEW f, HonestIn(f, archived),
         NEW o \in Objects, NEW s, HonestIn(s, archived),
         NEW x \in Workers, NEW k, HonestTask(k, archived)
  PROVE  /\ AllHonest(f, heap, task, archived)
         /\ AllHonest(f, [heap EXCEPT ![o] = s], task, archived)
         /\ AllHonest(f, heap, [task EXCEPT ![x] = k], archived)
         /\ AllHonest(f, [heap EXCEPT ![o] = s], [task EXCEPT ![x] = k], archived)
BY TypeParts DEF AllHonest, TaskTable

\* Appending keeps an offset honest, clearing makes it so.
LEMMA WritesAreHonest ==
  ASSUME NEW s \in Session, NEW a, NEW new \in Seq(Message)
  PROVE  /\ HonestIn(s, a) => HonestIn(Plus(s, new), a)
         /\ HonestIn(Cleared(s), a)
         /\ HonestIn(Blank, a)
<1>1. ASSUME HonestIn(s, a) PROVE HonestIn(Plus(s, new), a)
  <2>1. /\ Plus(s, new).mark = s.mark
        /\ Plus(s, new).messages = s.messages \o new
    BY PlusType
  <2>2. s.messages \in Seq(Message) /\ Len(s.messages) \in Nat /\ Len(new) \in Nat
        /\ s.mark \in 0 .. Len(s.messages)
    BY <1>1 DEF Session, HonestIn
  <2>3. Len(s.messages \o new) = Len(s.messages) + Len(new)  BY <2>2
  <2>4. \A i \in 1 .. Len(s.messages) : (s.messages \o new)[i] = s.messages[i]  BY <2>2
  <2>5. 1 .. s.mark \subseteq 1 .. Len(s.messages)  BY <2>2
  <2> QED  BY <1>1, <2>1, <2>2, <2>3, <2>4, <2>5 DEF HonestIn
<1>2. HonestIn(Cleared(s), a)  BY ClearedType DEF HonestIn
<1>3. HonestIn(Blank, a)  BY DEF HonestIn, Blank
<1> QED  BY <1>1, <1>2, <1>3

\* The records of consolidations that are written.
LEMMA TasksAreHonest ==
  ASSUME NEW s, NEW a
  PROVE  /\ HonestTask(Idle, a)
         /\ \A o : HonestTask(Spawned(o), a)
         /\ \A o, b : HonestIn(s, a) => HonestTask(Reading(o, s, b), a)
         /\ \A o : HonestTask(Reading(o, s, TRUE), a)
BY DEF HonestTask, Idle, Spawned, Reading

\* The object a handler fetched has an honest offset.
LEMMA ContentIsHonest ==
  ASSUME TypeOK, AllHonest(file, heap, task, archived), NEW o \in Objects
  PROVE  HonestIn(Content(o), archived)
BY DEF AllHonest, Content

\* Turns keep the offsets honest.
LEMMA TurnHonest ==
  ASSUME TypeOK, AllHonest(file, heap, task, archived), NEW t \in Turns, Turn(t)
  PROVE  HonestInv'
<1>1. t \in Workers  BY DEF Workers
<1>2. HonestIn(file, archived)  BY DEF AllHonest
<1>3. task[t] \in [state : {"idle", "spawned", "asking"}, archive : BOOLEAN,
                   object : Objects \cup {NoObject}, base : Session]
      /\ HonestTask(task[t], archived)
  BY <1>1 DEF AllHonest, TypeOK, Workers
<1>4. CASE TurnStarts(t)
  <2>1. PICK o \in Objects :
          /\ heap' = [heap EXCEPT ![o] = Content(o)]
          /\ task' = [task EXCEPT ![t] = Spawned(o)] \/ task' = task
          /\ UNCHANGED <<file, archived>>
    BY <1>4 DEF TurnStarts, Fetch
  <2>2. HonestIn(Content(o), archived)  BY ContentIsHonest
  <2>3. HonestTask(Spawned(o), archived)  BY TasksAreHonest
  <2>4. AllHonest(file, [heap EXCEPT ![o] = Content(o)], task, archived)
    BY <1>1, <1>2, <2>2, <2>3, OneHonest
  <2>5. AllHonest(file, [heap EXCEPT ![o] = Content(o)],
                  [task EXCEPT ![t] = Spawned(o)], archived)
    BY <1>1, <1>2, <2>2, <2>3, OneHonest
  <2> QED  BY <2>1, <2>4, <2>5, NextHonest
<1>5. CASE SystemTurnStarts(t)
  <2>1. PICK o \in Objects :
          heap' = [heap EXCEPT ![o] = Content(o)] /\ UNCHANGED <<file, task, archived>>
    BY <1>5 DEF SystemTurnStarts, Fetch
  <2>2. HonestIn(Content(o), archived)  BY ContentIsHonest
  <2>3. AllHonest(file, [heap EXCEPT ![o] = Content(o)], task, archived)
    BY <1>1, <1>2, <1>3, <2>2, OneHonest
  <2> QED  BY <2>1, <2>3, NextHonest
<1>6. CASE TurnEnds(t)
  <2> DEFINE o == turn[t].object
             s == Plus(heap[o], <<<<t, "user">>, <<t, "assistant">>>>)
  <2>1. o \in Objects /\ heap[o] \in Session  BY <1>6 DEF TurnEnds, TypeOK
  <2>2. HonestIn(s, archived)  BY <2>1, WritesAreHonest, WrittenType DEF AllHonest
  <2>3. heap' = [heap EXCEPT ![o] = s] /\ file' = s /\ UNCHANGED <<task, archived>>
    BY <1>6 DEF TurnEnds, Save
  <2> HIDE DEF o, s
  <2>4. AllHonest(s, [heap EXCEPT ![o] = s], task, archived)
    BY <1>1, <1>3, <2>1, <2>2, OneHonest
  <2> QED  BY <2>3, <2>4, NextHonest
<1>7. CASE TurnFails(t)
  <2>1. UNCHANGED <<file, heap, task, archived>>  BY <1>7 DEF TurnFails
  <2> QED  BY <2>1, NextHonest
<1>8. CASE NewSession(t)
  <2>1. PICK o \in Objects :
          /\ heap' = [heap EXCEPT ![o] = Cleared(Content(o))]
          /\ file' = Cleared(Content(o))
          /\ task' = [task EXCEPT ![t] =
                Reading(NoObject, [Blank EXCEPT !.messages = Content(o).messages], TRUE)]
          /\ UNCHANGED archived
    BY <1>8 DEF NewSession
  <2> DEFINE s == Cleared(Content(o))
             k == Reading(NoObject, [Blank EXCEPT !.messages = Content(o).messages], TRUE)
  <2>2. HonestIn(s, archived) /\ HonestTask(k, archived)
    BY ContentType, WritesAreHonest, WrittenType, TasksAreHonest
  <2> HIDE DEF s, k
  <2>3. AllHonest(s, [heap EXCEPT ![o] = s], [task EXCEPT ![t] = k], archived)
    BY <1>1, <2>2, OneHonest
  <2>4. heap' = [heap EXCEPT ![o] = s] /\ file' = s /\ task' = [task EXCEPT ![t] = k]
    BY <2>1 DEF s, k
  <2> QED  BY <2>1, <2>3, <2>4, NextHonest
<1> QED  BY <1>4, <1>5, <1>6, <1>7, <1>8 DEF Turn

\* The history only grows, and what was honest stays so.
LEMMA LongerHistory ==
  ASSUME AllHonest(file, heap, task, archived), NEW a, archived \subseteq a
  PROVE  AllHonest(file, heap, task, a)
BY DEF AllHonest, HonestIn, HonestTask

\* A consolidation whose list is as it was read moves the offset over what was
\* summarised.
LEMMA MovedOffset ==
  ASSUME NEW s \in Session, NEW base \in Session, NEW a,
         HonestIn(base, a), Due(base), s.messages = base.messages,
         ToSet(OldMessages(base)) \subseteq a
  PROVE  HonestIn([s EXCEPT !.mark = Len(s.messages) - Keep], a)
<1> USE KeepNat
<1> DEFINE n == Len(base.messages)
           r == [s EXCEPT !.mark = Len(s.messages) - Keep]
<1>1. n \in Nat /\ base.mark \in Int /\ base.mark >= 0 /\ base.mark <= n /\ n > Keep
  BY DEF Session, HonestIn, Due
<1>2. r.messages = base.messages /\ r.mark = n - Keep  BY <1>1, MarkType
<1>3. n - Keep \in 0 .. n  BY <1>1
<1>4. ASSUME NEW i \in 1 .. (n - Keep) PROVE base.messages[i] \in a
  <2>1. CASE i <= base.mark  BY <1>1, <2>1 DEF HonestIn
  <2>2. CASE i > base.mark
    <3>1. i \in Int /\ base.mark < i /\ i <= n - Keep  BY <1>1, <2>2
    <3> QED  BY <1>1, <3>1, OldCovers
  <2> QED  BY <1>1, <2>1, <2>2
<1> HIDE DEF r, n
<1> QED
  <2>1. Len(r.messages) = n  BY <1>2 DEF n
  <2> QED  BY <1>2, <1>3, <1>4, <2>1 DEF HonestIn, r

\* Consolidations keep the offsets honest when they end on the list they have read.
LEMMA ConsolidationHonest ==
  ASSUME TypeOK, AllHonest(file, heap, task, archived), ~raced',
         NEW x \in Workers, Consolidation(x)
  PROVE  HonestInv'
<1> DEFINE o == task[x].object
<1>1. TaskType(task[x]) /\ HonestTask(task[x], archived)  BY TypeParts DEF TaskTable, AllHonest
<1>2. HonestIn(file, archived)  BY DEF AllHonest
<1>3. CASE ConsolidationStarts(x)
  <2>1. o \in Objects  BY <1>1, <1>3 DEF ConsolidationStarts, TaskType
  <2>2. HonestIn(heap[o], archived)  BY <2>1 DEF AllHonest
  <2> DEFINE k == Reading(o, heap[o], FALSE)
  <2>3. HonestTask(k, archived)  BY <2>2, TasksAreHonest
  <2>4. task' = [task EXCEPT ![x] = k] /\ UNCHANGED <<file, heap, archived>>
    BY <1>3, TypeParts DEF ConsolidationStarts, TaskTable
  <2> HIDE DEF o, k
  <2>5. AllHonest(file, heap, [task EXCEPT ![x] = k], archived)
    BY <1>2, <2>1, <2>2, <2>3, OneHonest
  <2> QED  BY <2>4, <2>5, NextHonest
<1>4. CASE ConsolidationFails(x)
  <2>1. task' = [task EXCEPT ![x] = Idle] /\ UNCHANGED <<file, heap, archived>>
    BY <1>4 DEF ConsolidationFails
  <2>2. AllHonest(file, heap, [task EXCEPT ![x] = Idle], archived)
    BY TypeParts, TasksAreHonest DEF AllHonest, TaskTable
  <2> QED  BY <2>1, <2>2, NextHonest
<1>5. CASE ConsolidationEnds(x)
  <2> DEFINE a == archived \cup ToSet(Source(task[x]))
  <2>1. archived' = a /\ task' = [task EXCEPT ![x] = Idle] /\ file' = file
    BY <1>5 DEF ConsolidationEnds
  <2>2. AllHonest(file, heap, task, a)  BY LongerHistory
  <2>3. AllHonest(file, heap, [task EXCEPT ![x] = Idle], a)
    BY <2>2, TypeParts, TasksAreHonest DEF AllHonest, TaskTable
  <2>4. CASE o = NoObject
    <3>1. heap' = heap  BY <1>5, <2>4 DEF ConsolidationEnds
    <3> HIDE DEF a
    <3> QED  BY <2>1, <2>3, <3>1, NextHonest
  <2>5. CASE o # NoObject
    <3> DEFINE s == [heap[o] EXCEPT !.mark = NewMark(x)]
    <3>1. o \in Objects /\ heap[o] \in Session  BY <1>1, <2>5 DEF TaskType, TypeOK
    <3>2. heap' = [heap EXCEPT ![o] = s]  BY <1>5, <2>5, <3>1 DEF ConsolidationEnds
    <3>3. HonestIn(s, a)
      <4>1. CASE task[x].archive
        <5>1. s = [heap[o] EXCEPT !.mark = 0]  BY <4>1 DEF NewMark
        <5>2. s.mark = 0 /\ s.messages = heap[o].messages
          <6> HIDE DEF s, o
          <6> QED  BY <3>1, <5>1, MarkType
        <5>3. Len(s.messages) \in Nat  BY <3>1, <5>2 DEF Session
        <5> HIDE DEF s
        <5> QED  BY <5>2, <5>3 DEF HonestIn
      <4>2. CASE ~task[x].archive
        <5>1. heap[o].messages = task[x].base.messages
          BY <1>5, <2>5, <4>2 DEF ConsolidationEnds
        <5>2. task[x].base \in Session  BY <1>1 DEF TaskType
        <5>3. HonestIn(task[x].base, a) /\ Due(task[x].base)
          BY <1>1, <1>5, <4>2 DEF HonestTask, HonestIn, ConsolidationEnds
        <5>4. ToSet(OldMessages(task[x].base)) \subseteq a  BY <4>2 DEF Source
        <5>5. s = [heap[o] EXCEPT !.mark = Len(heap[o].messages) - Keep]
          BY <4>2 DEF NewMark
        <5> HIDE DEF s, a, o
        <5> QED  BY <3>1, <5>1, <5>2, <5>3, <5>4, <5>5, MovedOffset
      <4> QED  BY <4>1, <4>2
    <3> HIDE DEF s, a
    <3>4. AllHonest(file, [heap EXCEPT ![o] = s], [task EXCEPT ![x] = Idle], a)
      BY <2>3, <3>1, <3>3 DEF AllHonest, TypeOK
    <3> QED  BY <2>1, <3>2, <3>4, NextHonest
  <2> QED  BY <2>4, <2>5
<1> QED  BY <1>3, <1>4, <1>5 DEF Consolidation

\* A saved session with an honest offset.
LEMMA SaveHonest ==
  ASSUME TypeOK, AllHonest(file, heap, task, archived),
         NEW o \in Objects, NEW s, HonestIn(s, archived),
         Save(o, s), UNCHANGED <<task, archived>>
  PROVE  HonestInv'
<1>1. AllHonest(s, [heap EXCEPT ![o] = s], task, archived)  BY DEF AllHonest, TypeOK
<1> QED  BY <1>1, NextHonest DEF Save

\* The operators' calls and a restart keep the offsets honest.
LEMMA CallHonest ==
  ASSUME TypeOK, AllHonest(file, heap, task, archived),
         \/ \E i \in Injects : Inject(i)
         \/ \E c \in Compactions : Compact(c)
         \/ Look \/ Reset \/ Patch \/ Delete \/ Restart
  PROVE  HonestInv'
<1>1. HonestIn(file, archived)  BY DEF AllHonest
<1>2. ASSUME NEW i \in Injects, Inject(i) PROVE HonestInv'
  <2>1. PICK o \in Objects : /\ Save(o, Plus(Content(o), <<<<i, "user">>>>))
                             /\ UNCHANGED <<task, archived>>
    BY <1>2 DEF Inject
  <2>2. HonestIn(Plus(Content(o), <<<<i, "user">>>>), archived)
    BY ContentType, ContentIsHonest, WritesAreHonest, WrittenType
  <2> QED  BY <2>1, <2>2, SaveHonest
<1>3. ASSUME NEW c \in Compactions, Compact(c) PROVE HonestInv'
  <2>1. PICK o \in Objects, whole \in BOOLEAN :
          /\ heap' = [heap EXCEPT ![o] = Content(o)]
          /\ task' = [task EXCEPT ![c] = Reading(o, Content(o), whole)]
          /\ UNCHANGED <<file, archived>>
    BY <1>3 DEF Compact, Fetch
  <2>2. HonestIn(Content(o), archived)  BY ContentIsHonest
  <2>3. HonestTask(Reading(o, Content(o), whole), archived)  BY <2>2, TasksAreHonest
  <2>4. AllHonest(file, [heap EXCEPT ![o] = Content(o)],
                  [task EXCEPT ![c] = Reading(o, Content(o), whole)], archived)
    BY <1>1, <2>2, <2>3, OneHonest DEF Workers
  <2> QED  BY <2>1, <2>4, NextHonest
<1>4. CASE Look
  <2>1. PICK o \in Objects :
          heap' = [heap EXCEPT ![o] = Content(o)] /\ UNCHANGED <<file, task, archived>>
    BY <1>4 DEF Look, Fetch
  <2>2. HonestIn(Content(o), archived)  BY ContentIsHonest
  <2>3. AllHonest(file, [heap EXCEPT ![o] = Content(o)], task, archived)
    BY <2>2 DEF AllHonest, TypeOK
  <2> QED  BY <2>1, <2>3, NextHonest
<1>5. CASE Reset
  <2>1. PICK o \in Objects : Save(o, Cleared(Content(o))) /\ UNCHANGED <<task, archived>>
    BY <1>5 DEF Reset
  <2>2. HonestIn(Cleared(Content(o)), archived)
    BY ContentType, ClearedType DEF HonestIn
  <2> QED  BY <2>1, <2>2, SaveHonest
<1>6. CASE Patch
  <2>1. PICK o \in Objects : Save(o, Content(o)) /\ UNCHANGED <<task, archived>>
    BY <1>6 DEF Patch
  <2> QED  BY <2>1, ContentIsHonest, SaveHonest
<1>7. CASE Delete
  <2>1. file' = Blank /\ UNCHANGED <<heap, task, archived>>  BY <1>7 DEF Delete
  <2>2. AllHonest(Blank, heap, task, archived)  BY DEF AllHonest, HonestIn, Blank
  <2> QED  BY <2>1, <2>2, NextHonest
<1>8. CASE Restart
  <2>1. /\ heap' = [o \in Objects |-> Blank] /\ task' = [x \in Workers |-> Idle]
        /\ UNCHANGED <<file, archived>>
    BY <1>8 DEF Restart, Workers
  <2>2. HonestIn(Blank, archived)  BY DEF HonestIn, Blank
  <2>3. AllHonest(file, [o \in Objects |-> Blank], [x \in Workers |-> Idle], archived)
    BY <1>1, <2>2, TasksAreHonest DEF AllHonest
  <2> QED  BY <2>1, <2>3, NextHonest
<1> QED  BY <1>2, <1>3, <1>4, <1>5, <1>6, <1>7, <1>8

\* A race that has happened is not forgotten.
LEMMA RacedStays == TypeOK /\ [Next]_vars /\ ~raced' => ~raced
<1> SUFFICES ASSUME TypeOK, [Next]_vars, ~raced' PROVE ~raced  OBVIOUS
<1>1. ASSUME NEW x \in Workers, ConsolidationEnds(x) PROVE ~raced
  BY <1>1 DEF ConsolidationEnds
<1>2. ASSUME NEW t \in Turns, Turn(t) PROVE ~raced
  BY <1>2 DEF Turn, TurnStarts, SystemTurnStarts, TurnEnds, TurnFails, NewSession
<1>3. ASSUME NEW x \in Workers, Consolidation(x) PROVE ~raced
  BY <1>1, <1>3 DEF Consolidation, ConsolidationStarts, ConsolidationFails
<1> QED
  BY <1>2, <1>3 DEF Next, Workers, Inject, Compact, Look, Reset, Patch, Delete, Restart, vars

\* Every step keeps the offsets honest.
LEMMA StepHonest == TypeOK /\ HonestInv /\ [Next]_vars => HonestInv'
<1> SUFFICES ASSUME TypeOK, HonestInv, [Next]_vars, ~raced' PROVE HonestInv'
  BY DEF HonestInv
<1>1. AllHonest(file, heap, task, archived)  BY RacedStays DEF HonestInv
<1>2. CASE UNCHANGED vars  BY <1>1, <1>2, NextHonest DEF vars
<1>3. CASE Next
  BY <1>1, <1>3, TurnHonest, ConsolidationHonest, CallHonest DEF Next, Workers
<1> QED  BY <1>2, <1>3

\* As long as no consolidation has raced with a writer, last_consolidated counts
\* messages that are in the history file, in the cache and on disk.
THEOREM QuietOffsets == Spec => []QuietOffsetIsHonest
<1>1. Init => HonestInv
  <2> SUFFICES ASSUME Init PROVE AllHonest(file, heap, task, archived)  BY DEF HonestInv
  <2>1. HonestIn(Blank, archived)  BY DEF HonestIn, Blank
  <2> QED  BY <2>1, TasksAreHonest DEF Init, AllHonest, Workers
<1>2. TypeOK /\ HonestInv => QuietOffsetIsHonest
  BY DEF TypeOK, HonestInv, AllHonest, HonestIn, QuietOffsetIsHonest, Honest
<1> QED  BY <1>1, <1>2, InitTypes, StepTypes, StepHonest, PTL DEF Spec

-------------------------------------------------------------------------------
(* The long-term memory: the inductive invariant.                             *)

\* A task between two of its writes is the one at work, so no two tasks of the gateway
\* are in the middle of a write; only a flush's write is marked as one.
TaskStages ==
  \A j \in MemoryJobs :
     /\ tasks[j].at \in {"entry", "daily", "update", "truncated", "reread"} => atWork = j
     /\ tasks[j].flushed => tasks[j].at \in {"truncated", "reread"}
     /\ tasks[j].at \in {"entry", "daily", "update"} => tasks[j].read \subseteq tasks[j].update

JanitorArchives == janitor.at \in {"archived", "truncated"} => janitor.read \cap Expiring \subseteq archive

Sound == ~overwritten /\ ~torn

\* What a task that is not stale goes by, or is about to write, covers all there was to
\* know, unless it was read while the janitor was writing: then the janitor's write
\* makes it stale, and the janitor's end tears the file.
Basis(j) == IF tasks[j].at = "truncated" THEN tasks[j].update ELSE tasks[j].read
TasksKnow ==
  \A j \in MemoryJobs :
     Sound /\ j \notin stale /\ tasks[j].at \notin {"idle", "created", "reread"} =>
        recorded \subseteq Basis(j) \cup archive \/ janitor.at = "truncated"

\* The same of the janitor.
JanitorKnows ==
  Sound /\ "janitor" \notin stale /\ janitor.at # "idle" =>
     recorded \subseteq janitor.read \cup archive \/ \E j \in MemoryJobs : tasks[j].at = "truncated"

MemoryKept == Sound /\ ~BeingWritten => recorded \subseteq longTerm \cup archive
WordsKept ==
  said \subseteq (UNION {talks[t] : t \in Talks}) \cup daily \cup InHandOfNew \cup dropped

MemoryInv ==
  /\ MemoryTypeOK /\ TaskStages /\ JanitorArchives /\ TasksKnow /\ JanitorKnows
  /\ MemoryKept /\ WordsKept

-------------------------------------------------------------------------------
(* Types.                                                                     *)
LEMMA TrimmedTypes ==
  ASSUME MemoryAssumption, NEW history \in Seq(SUBSET Facts)
  PROVE  Trimmed(history) \in Seq(SUBSET Facts)
<1>1. HistoryLimit \in Nat /\ Len(history) \in Nat
  BY DEF MemoryAssumption
<1>2. CASE HistoryLimit # 0 /\ Len(history) > HistoryLimit
  <2>1. \A i \in (Len(history) - HistoryLimit + 1)..Len(history) : history[i] \in SUBSET Facts
    BY <1>1, <1>2
  <2>2. SubSeq(history, Len(history) - HistoryLimit + 1, Len(history)) \in Seq(SUBSET Facts)
    BY <1>1, <1>2, <2>1
  <2> QED BY <1>1, <1>2, <2>2 DEF Trimmed
<1>3. CASE HistoryLimit = 0 \/ Len(history) <= HistoryLimit
  BY <1>3 DEF Trimmed
<1> QED BY <1>1, <1>2, <1>3

LEMMA NoTaskType == NoTask \in Job
BY DEF NoTask, Job

\* The steps of the task in place j.
TaskSteps(j) ==
  /\ Steps(j)
  /\ \/ TaskReads(j) \/ FlushIsSkipped(j) \/ FlushAdds(j) \/ FlushIsRead(j)
     \/ ConsolidationGivesUp(j) \/ ConsolidationIsAnswered(j)
     \/ LogEntry(j) \/ UpdateBegins(j) \/ UpdateEnds(j)
     \/ \E t \in Talks : ConsolidationIsCreated(j, t) \/ ArchiveIsCreated(j, t)
     \/ \E f \in Facts : AgentEdits(j, f)

LEMMA StepsAre ==
  MemoryNext => \/ \E t \in Talks, f \in Facts : Say(t, f)
                \/ \E j \in MemoryJobs : TaskSteps(j)
                \/ MemoryGatewayEnds \/ JanitorReads \/ JanitorMoves \/ JanitorEnds
<1>1. ASSUME NEW j \in MemoryJobs, Steps(j),
             \/ \E t \in Talks : ConsolidationIsCreated(j, t) \/ ArchiveIsCreated(j, t)
             \/ TaskReads(j) \/ FlushIsSkipped(j) \/ FlushAdds(j) \/ FlushIsRead(j)
             \/ ConsolidationGivesUp(j) \/ ConsolidationIsAnswered(j)
             \/ LogEntry(j) \/ UpdateBegins(j) \/ UpdateEnds(j)
             \/ \E f \in Facts : AgentEdits(j, f)
      PROVE  TaskSteps(j)
  BY <1>1 DEF TaskSteps
<1> QED BY <1>1 DEF MemoryNext

\* What a gateway task's step does to the places of the tasks.
LEMMA TaskTypes ==
  ASSUME MemoryTypeOK, NEW j \in MemoryJobs, TaskSteps(j)
  PROVE  tasks' \in [MemoryJobs -> Job]
<1>1. tasks \in [MemoryJobs -> Job] /\ longTerm \subseteq Facts /\ tasks[j] \in Job
      /\ talks \in [Talks -> SUBSET Facts]
  BY DEF MemoryTypeOK
<1>2. CASE TaskReads(j)
  <2>1. tasks' = [tasks EXCEPT ![j].at = "flush", ![j].read = longTerm]
    BY <1>2 DEF TaskReads
  <2> QED BY <1>1, <2>1 DEF Job
<1>3. CASE FlushIsSkipped(j)
  <2>1. tasks' = [tasks EXCEPT ![j].at = "asked"]
    BY <1>3 DEF FlushIsSkipped
  <2> QED BY <1>1, <2>1 DEF Job
<1>4. CASE FlushAdds(j)
  <2>1. PICK added \in SUBSET tasks[j].facts :
           tasks' = [tasks EXCEPT ![j].at = "truncated", ![j].flushed = TRUE,
                                  ![j].update = longTerm \cup added]
    BY <1>4 DEF FlushAdds
  <2>2. longTerm \cup added \subseteq Facts
    BY <1>1 DEF Job
  <2> QED BY <1>1, <2>1, <2>2 DEF Job
<1>5. CASE FlushIsRead(j)
  <2>1. tasks' = [tasks EXCEPT ![j].at = "asked", ![j].flushed = FALSE, ![j].read = longTerm]
    BY <1>5 DEF FlushIsRead, ShownAfterFlush
  <2> QED BY <1>1, <2>1 DEF Job
<1>6. CASE ConsolidationGivesUp(j)
  BY <1>1, <1>6, NoTaskType DEF ConsolidationGivesUp
<1>7. CASE ConsolidationIsAnswered(j)
  <2>1. PICK at \in {"entry", "update"}, new \in SUBSET tasks[j].facts :
           tasks' = [tasks EXCEPT ![j].at = at, ![j].update = tasks[j].read \cup new]
    BY <1>7 DEF ConsolidationIsAnswered
  <2>2. tasks[j].read \cup new \subseteq Facts
    BY <1>1 DEF Job
  <2> QED BY <1>1, <2>1, <2>2 DEF Job
<1>8. CASE LogEntry(j)
  <2>1. \E at \in {"daily", "update"} : tasks' = [tasks EXCEPT ![j].at = at]
    BY <1>8 DEF LogEntry
  <2> QED BY <1>1, <2>1 DEF Job
<1>9. CASE UpdateBegins(j)
  <2>1. tasks' = [tasks EXCEPT ![j] = NoTask] \/ tasks' = [tasks EXCEPT ![j].at = "truncated"]
    BY <1>9 DEF UpdateBegins
  <2>2. [tasks[j] EXCEPT !.at = "truncated"] \in Job
    BY <1>1 DEF Job
  <2> HIDE DEF Job
  <2> QED BY <1>1, <2>1, <2>2, NoTaskType
<1>10. CASE UpdateEnds(j)
  <2>1. tasks' = [tasks EXCEPT ![j] = NoTask] \/ tasks' = [tasks EXCEPT ![j].at = "reread"]
    BY <1>10 DEF UpdateEnds
  <2>2. [tasks[j] EXCEPT !.at = "reread"] \in Job
    BY <1>1 DEF Job
  <2> HIDE DEF Job
  <2> QED BY <1>1, <2>1, <2>2, NoTaskType
<1>11. ASSUME NEW t \in Talks, ConsolidationIsCreated(j, t) PROVE tasks' \in [MemoryJobs -> Job]
  <2>1. PICK old \in SUBSET talks[t] :
           tasks' = [tasks EXCEPT ![j] = [NoTask EXCEPT !.at = "created", !.facts = old]]
    BY <1>11 DEF ConsolidationIsCreated
  <2>2. [NoTask EXCEPT !.at = "created", !.facts = old] \in Job
    BY <1>1 DEF NoTask, Job
  <2> QED BY <1>1, <2>1, <2>2
<1>12. ASSUME NEW t \in Talks, ArchiveIsCreated(j, t) PROVE tasks' \in [MemoryJobs -> Job]
  <2>1. tasks' = [tasks EXCEPT ![j] =
                    [NoTask EXCEPT !.at = "created", !.all = TRUE, !.facts = talks[t]]]
    BY <1>12 DEF ArchiveIsCreated
  <2>2. [NoTask EXCEPT !.at = "created", !.all = TRUE, !.facts = talks[t]] \in Job
    BY <1>1 DEF NoTask, Job
  <2> QED BY <1>1, <2>1, <2>2
<1>13. ASSUME NEW f \in Facts, AgentEdits(j, f) PROVE tasks' \in [MemoryJobs -> Job]
  <2>1. tasks' = [tasks EXCEPT ![j] =
                    [NoTask EXCEPT !.at = "truncated", !.update = longTerm \cup {f}]]
    BY <1>13 DEF AgentEdits
  <2>2. [NoTask EXCEPT !.at = "truncated", !.update = longTerm \cup {f}] \in Job
    BY <1>1 DEF NoTask, Job
  <2> QED BY <1>1, <2>1, <2>2
<1> QED BY <1>2, <1>3, <1>4, <1>5, <1>6, <1>7, <1>8, <1>9, <1>10, <1>11, <1>12, <1>13 DEF TaskSteps

\* What is in the hands of tasks of /new are facts.
LEMMA InHandTypes == ASSUME MemoryTypeOK PROVE InHandOfNew \subseteq Facts /\ \A j \in MemoryJobs : OnlyInHand(j) \subseteq Facts
<1>1. \A j \in MemoryJobs : tasks[j].facts \subseteq Facts
  BY DEF MemoryTypeOK, Job
<1>2. \A j \in MemoryJobs : OnlyInHand(j) \subseteq Facts
  BY <1>1 DEF OnlyInHand
<1> QED BY <1>2 DEF InHandOfNew

LEMMA MemoryTypesNext ==
  ASSUME MemoryAssumption, MemoryTypeOK, [MemoryNext]_memoryVars
  PROVE  MemoryTypeOK'
<1> USE DEF conversationVars, logs, readings, bounds
<1>1. \A j \in MemoryJobs : tasks[j].facts \subseteq Facts /\ tasks[j].read \subseteq Facts
                            /\ tasks[j].update \subseteq Facts
  BY DEF MemoryTypeOK, Job
<1>2. MemoryEnds \in Nat /\ MemoryTasks \in Nat /\ JanitorRuns \in Nat
  BY DEF MemoryAssumption
<1>3. ASSUME NEW t \in Talks, NEW f \in Facts, Say(t, f) PROVE MemoryTypeOK'
  BY <1>3 DEF MemoryTypeOK, Say
<1>4. ASSUME NEW j \in MemoryJobs, NEW t \in Talks, Steps(j),
             ConsolidationIsCreated(j, t) \/ ArchiveIsCreated(j, t)
      PROVE  MemoryTypeOK'
  <2>1. tasks' \in [MemoryJobs -> Job]
    BY <1>4, TaskTypes DEF TaskSteps
  <2>2. /\ talks' = talks \/ talks' = [talks EXCEPT ![t] = {}]
        /\ memoryTasks' = memoryTasks + 1 /\ memoryTasks < MemoryTasks
        /\ UNCHANGED <<said, longTerm, archive, logs, atWork, janitor, readings, torn, dropped,
                       memoryEnds, janitorRuns>>
    BY <1>4 DEF ConsolidationIsCreated, ArchiveIsCreated, Begins
  <2>3. talks' \in [Talks -> SUBSET Facts] /\ memoryTasks' \in 0..MemoryTasks
    BY <1>2, <2>2 DEF MemoryTypeOK
  <2> QED BY <2>1, <2>2, <2>3 DEF MemoryTypeOK
<1>5. ASSUME NEW j \in MemoryJobs, Steps(j),
             TaskReads(j) \/ FlushIsSkipped(j) \/ FlushAdds(j) \/ FlushIsRead(j)
      PROVE  MemoryTypeOK'
  <2>1. tasks' \in [MemoryJobs -> Job]
    BY <1>5, TaskTypes DEF TaskSteps
  <2>2. /\ longTerm' \in {longTerm, {}} /\ atWork' \in {atWork, j, "none"} /\ stale' \subseteq stale
        /\ UNCHANGED <<talks, said, archive, logs, janitor, bounds, torn, dropped, recorded, overwritten>>
    BY <1>5 DEF TaskReads, FlushIsSkipped, FlushAdds, FlushIsRead, Reads
  <2> QED BY <2>1, <2>2 DEF MemoryTypeOK
<1>6. ASSUME NEW j \in MemoryJobs, Steps(j),
             ConsolidationGivesUp(j) \/ ConsolidationIsAnswered(j)
      PROVE  MemoryTypeOK'
  <2>1. tasks' \in [MemoryJobs -> Job]
    BY <1>6, TaskTypes DEF TaskSteps
  <2>2. /\ atWork' \in {atWork, j} /\ dropped' \in {dropped, dropped \cup OnlyInHand(j)}
        /\ memoryEnds' = memoryEnds \/ (memoryEnds < MemoryEnds /\ memoryEnds' = memoryEnds + 1)
        /\ UNCHANGED <<talks, said, longTerm, archive, logs, janitor, memoryTasks, janitorRuns,
                       readings, torn>>
    BY <1>6 DEF ConsolidationGivesUp, ConsolidationIsAnswered
  <2>3. dropped' \subseteq Facts
    BY <2>2, InHandTypes DEF MemoryTypeOK
  <2>4. memoryEnds' \in 0..MemoryEnds
    BY <1>2, <2>2 DEF MemoryTypeOK
  <2> QED BY <2>1, <2>2, <2>3, <2>4 DEF MemoryTypeOK
<1>7. ASSUME NEW j \in MemoryJobs, Steps(j), LogEntry(j) PROVE MemoryTypeOK'
  <2>1. tasks' \in [MemoryJobs -> Job]
    BY <1>7, TaskTypes DEF TaskSteps
  <2>2. paragraphs' \in Seq(SUBSET Facts)
    <3>1. Append(paragraphs, tasks[j].facts) \in Seq(SUBSET Facts)
      BY <1>1 DEF MemoryTypeOK
    <3>2. Trimmed(Append(paragraphs, tasks[j].facts)) \in Seq(SUBSET Facts)
      BY <3>1, TrimmedTypes
    <3>3. paragraphs \in Seq(SUBSET Facts)
      BY DEF MemoryTypeOK
    <3> QED BY <1>7, <3>2, <3>3 DEF LogEntry
  <2>3. daily' \subseteq Facts
    <3>1. daily' = daily \/ daily' = daily \cup tasks[j].facts
      BY <1>7 DEF LogEntry
    <3>2. daily \subseteq Facts
      BY DEF MemoryTypeOK
    <3> QED BY <1>1, <3>1, <3>2
  <2>4. UNCHANGED <<talks, said, longTerm, archive, atWork, janitor, bounds, readings, torn, dropped>>
    BY <1>7 DEF LogEntry
  <2> QED BY <2>1, <2>2, <2>3, <2>4 DEF MemoryTypeOK
<1>8. ASSUME NEW j \in MemoryJobs, Steps(j),
             UpdateBegins(j) \/ UpdateEnds(j) \/ \E f \in Facts : AgentEdits(j, f)
      PROVE  MemoryTypeOK'
  <2>1. tasks' \in [MemoryJobs -> Job]
    BY <1>8, TaskTypes DEF TaskSteps
  <2>2. /\ longTerm' \in {longTerm, {}, tasks[j].update} /\ atWork' \in {atWork, j, "none"}
        /\ recorded' \in {recorded, recorded \cup tasks[j].update}
        /\ stale' \subseteq stale \cup MemoryWriters
        /\ overwritten' = overwritten \/ overwritten' = (overwritten \/ j \in stale)
        /\ memoryTasks' = memoryTasks \/ (memoryTasks < MemoryTasks /\ memoryTasks' = memoryTasks + 1)
        /\ UNCHANGED <<talks, said, archive, logs, janitor, memoryEnds, janitorRuns, torn, dropped>>
    BY <1>8 DEF UpdateBegins, UpdateEnds, AgentEdits, Reads, Writes, Begins
  <2>3. memoryTasks' \in 0..MemoryTasks
    BY <1>2, <2>2 DEF MemoryTypeOK
  <2>4. longTerm' \subseteq Facts /\ recorded' \subseteq Facts /\ stale' \subseteq MemoryWriters
        /\ overwritten' \in BOOLEAN
    BY <1>1, <2>2 DEF MemoryTypeOK
  <2>5. atWork' \in MemoryJobs \cup {"none"}
    BY <2>2 DEF MemoryTypeOK
  <2> QED BY <2>1, <2>2, <2>3, <2>4, <2>5 DEF MemoryTypeOK
<1>9. CASE MemoryGatewayEnds
  <2>1. tasks' \in [MemoryJobs -> Job]
    BY <1>9, NoTaskType DEF MemoryGatewayEnds
  <2>2. dropped' \subseteq Facts
    BY <1>9, InHandTypes DEF MemoryGatewayEnds, MemoryTypeOK
  <2>3. memoryEnds' \in 0..MemoryEnds
    BY <1>2, <1>9 DEF MemoryGatewayEnds, MemoryTypeOK
  <2> QED BY <1>9, <2>1, <2>2, <2>3 DEF MemoryGatewayEnds, MemoryTypeOK
<1>10. CASE JanitorReads
  <2>1. janitor' \in [at: {"idle", "read", "archived", "truncated"}, read: SUBSET Facts]
    BY <1>10 DEF JanitorReads, MemoryTypeOK
  <2>2. stale' \subseteq MemoryWriters /\ janitorRuns' \in 0..JanitorRuns
    BY <1>2, <1>10 DEF JanitorReads, Reads, MemoryTypeOK
  <2>3. UNCHANGED <<talks, said, longTerm, archive, logs, tasks, atWork, memoryEnds, memoryTasks,
                    torn, dropped, recorded, overwritten>>
    BY <1>10 DEF JanitorReads, Reads
  <2> QED BY <2>1, <2>2, <2>3 DEF MemoryTypeOK
<1>11. CASE JanitorMoves
  <2>1. janitor \in [at: {"idle", "read", "archived", "truncated"}, read: SUBSET Facts]
        /\ janitor.read \subseteq Facts
    BY DEF MemoryTypeOK
  <2>2. janitor' \in [at: {"idle", "read", "archived", "truncated"}, read: SUBSET Facts]
    BY <1>11, <2>1 DEF JanitorMoves
  <2>3. /\ archive' \in {archive, archive \cup (janitor.read \cap Expiring)}
        /\ longTerm' \in {longTerm, {}, janitor.read \ Expiring}
        /\ recorded' \in {recorded, recorded \cup (janitor.read \ Expiring)}
        /\ stale' \in {stale, MemoryWriters \ {"janitor"}}
        /\ overwritten' = overwritten \/ overwritten' = (overwritten \/ "janitor" \in stale)
        /\ UNCHANGED <<talks, said, logs, tasks, atWork, bounds, torn, dropped>>
    BY <1>11 DEF JanitorMoves, Writes
  <2>4. archive' \subseteq Facts /\ longTerm' \subseteq Facts /\ recorded' \subseteq Facts
        /\ stale' \subseteq MemoryWriters
    BY <2>1, <2>3 DEF MemoryTypeOK
  <2>5. overwritten' \in BOOLEAN
    BY <2>3 DEF MemoryTypeOK
  <2> QED BY <2>2, <2>3, <2>4, <2>5 DEF MemoryTypeOK
<1>12. CASE JanitorEnds
  <2>1. /\ janitor' = [at |-> "idle", read |-> {}] /\ memoryEnds' = memoryEnds + 1
        /\ memoryEnds < MemoryEnds /\ torn' = (torn \/ janitor.at = "truncated")
        /\ UNCHANGED <<talks, said, longTerm, archive, logs, tasks, atWork, memoryTasks,
                       janitorRuns, readings, dropped>>
    BY <1>12 DEF JanitorEnds
  <2>2. janitor' \in [at: {"idle", "read", "archived", "truncated"}, read: SUBSET Facts]
    BY <2>1
  <2>3. memoryEnds' \in 0..MemoryEnds
    BY <1>2, <2>1 DEF MemoryTypeOK
  <2>4. torn' \in BOOLEAN
    BY <2>1 DEF MemoryTypeOK
  <2> QED BY <2>1, <2>2, <2>3, <2>4 DEF MemoryTypeOK
<1>13. CASE UNCHANGED memoryVars
  BY <1>13 DEF memoryVars, MemoryTypeOK
<1>14. CASE \E j \in MemoryJobs : TaskSteps(j)
  BY <1>4, <1>5, <1>6, <1>7, <1>8, <1>14 DEF TaskSteps
<1>15. CASE \E t \in Talks, f \in Facts : Say(t, f)
  BY <1>3, <1>15
<1> QED BY <1>9, <1>10, <1>11, <1>12, <1>13, <1>14, <1>15, StepsAre

-------------------------------------------------------------------------------
(* What the messages were about.                                              *)

\* Fact by fact: it is in a conversation, in a daily log, in the hands of a task of
\* /new, or was dropped with one.
Holds(j, f) == Unlogged(j) /\ f \in OnlyInHand(j)

LEMMA WordsAre ==
  /\ WordsKept <=> \A f \in said : \/ \E t \in Talks : f \in talks[t]
                                   \/ f \in daily \cup dropped
                                   \/ \E j \in MemoryJobs : Holds(j, f)
  /\ WordsKept' <=> \A f \in said' : \/ \E t \in Talks : f \in talks'[t]
                                     \/ f \in daily' \cup dropped'
                                     \/ \E j \in MemoryJobs : Holds(j, f)'
<1>1. /\ \A f : f \in InHandOfNew <=> \E j \in MemoryJobs : Holds(j, f)
      /\ \A f : f \in InHandOfNew' <=> \E j \in MemoryJobs : Holds(j, f)'
  BY DEF InHandOfNew, Holds
<1>2. /\ \A f : f \in UNION {talks[t] : t \in Talks} <=> \E t \in Talks : f \in talks[t]
      /\ \A f : f \in UNION {talks'[t] : t \in Talks} <=> \E t \in Talks : f \in talks'[t]
  OBVIOUS
<1> QED BY <1>1, <1>2 DEF WordsKept

\* A step of one task keeps them when what the task had in hand stays there, is logged
\* or is dropped.
LEMMA TaskKeepsWords ==
  ASSUME NEW j \in MemoryJobs, WordsKept, UNCHANGED <<said, talks>>,
         daily \subseteq daily', dropped \subseteq dropped',
         \A k \in MemoryJobs \ {j} : tasks'[k] = tasks[k],
         \A f : Holds(j, f) => f \in daily' \cup dropped' \/ Holds(j, f)'
  PROVE  WordsKept'
<1>1. \A k \in MemoryJobs \ {j} : \A f : Holds(k, f) => Holds(k, f)'
  BY DEF Holds, Unlogged, OnlyInHand
<1>2. ASSUME NEW f \in said
      PROVE  \/ \E t \in Talks : f \in talks'[t]
             \/ f \in daily' \cup dropped'
             \/ \E k \in MemoryJobs : Holds(k, f)'
  <2>1. \/ \E t \in Talks : f \in talks[t]
        \/ f \in daily \cup dropped
        \/ \E k \in MemoryJobs : Holds(k, f)
    BY WordsAre
  <2> QED BY <1>1, <2>1
<1>3. said' = said /\ talks' = talks
  OBVIOUS
<1> QED BY <1>2, <1>3, WordsAre

\* Nothing but the words, the conversations, the tasks and the daily log matters.
LEMMA OthersKeepWords ==
  ASSUME WordsKept, UNCHANGED <<said, talks, daily, dropped, tasks>>
  PROVE  WordsKept'
BY DEF WordsKept, InHandOfNew, OnlyInHand, Unlogged

-------------------------------------------------------------------------------
(* What is known of MEMORY.md.                                                *)

Knowing == TaskStages /\ JanitorArchives /\ TasksKnow /\ JanitorKnows /\ MemoryKept

\* While the task in place j steps, no other is in the middle of a write.
LEMMA OthersRest ==
  ASSUME MemoryAssumption, TaskStages, NEW j \in MemoryJobs, atWork \in {"none", j}
  PROVE  \A k \in MemoryJobs \ {j} :
            tasks[k].at \notin {"entry", "daily", "update", "truncated", "reread"}
BY DEF TaskStages, MemoryAssumption

\* A task that has just read MEMORY.md knows all there is to know, unless the janitor is
\* writing the file.
LEMMA JustRead ==
  ASSUME MemoryAssumption, MemoryKept, TaskStages, NEW j \in MemoryJobs, atWork \in {"none", j},
         Sound, tasks[j].at # "truncated"
  PROVE  recorded \subseteq longTerm \cup archive \/ janitor.at = "truncated"
BY OthersRest DEF MemoryKept, BeingWritten

\* A step of a task that writes nothing: it goes on with what it knew, or has just read.
LEMMA QuietTaskStep ==
  ASSUME MemoryAssumption, MemoryTypeOK, Knowing, NEW j \in MemoryJobs, Steps(j), atWork' \in {"none", j},
         UNCHANGED <<longTerm, archive, janitor, recorded, overwritten, torn>>,
         \A k \in MemoryJobs \ {j} : tasks'[k] = tasks[k],
         tasks[j].at # "truncated", tasks'[j].at # "truncated",
         \/ stale' = stale
            /\ \/ tasks'[j].at \in {"idle", "created", "reread"}
               \/ tasks[j].at \notin {"idle", "created", "reread"} /\ tasks'[j].read = tasks[j].read
         \/ stale' = stale \ {j} /\ tasks'[j].read = longTerm,
         tasks'[j].at \in {"entry", "daily", "update", "reread"} => atWork' = j,
         tasks'[j].flushed => tasks'[j].at = "reread",
         tasks'[j].at \in {"entry", "daily", "update"} => tasks'[j].read \subseteq tasks'[j].update
  PROVE  Knowing'
<1> USE DEF Knowing
<1>1. atWork \in {"none", j}
  BY DEF Steps
<1>2. \A k \in MemoryJobs \ {j} :
         tasks[k].at \notin {"entry", "daily", "update", "truncated", "reread"}
  BY <1>1, OthersRest
<1>3. TaskStages'
  BY <1>2 DEF TaskStages
<1>4. JanitorArchives'
  BY DEF JanitorArchives
<1>5. TasksKnow'
  <2>1. ASSUME NEW k \in MemoryJobs, Sound, k \notin stale', tasks'[k].at \notin {"idle", "created", "reread"}
        PROVE  recorded \subseteq Basis(k)' \cup archive \/ janitor.at = "truncated"
    <3>1. CASE k # j
      BY <2>1, <3>1 DEF TasksKnow, Basis
    <3>2. CASE k = j /\ stale' = stale /\ tasks'[j].read # longTerm
      <4>1. tasks[j].at \notin {"idle", "created", "reread"} /\ tasks'[j].read = tasks[j].read
        BY <2>1, <3>2
      <4>2. Basis(j)' = tasks[j].read /\ Basis(j) = tasks[j].read
        BY <4>1 DEF Basis
      <4>3. recorded \subseteq Basis(j) \cup archive \/ janitor.at = "truncated"
        BY <2>1, <3>2, <4>1 DEF TasksKnow
      <4> QED BY <3>2, <4>2, <4>3
    <3>3. CASE k = j /\ tasks'[j].read = longTerm
      BY <1>1, <2>1, <3>3, JustRead DEF Basis
    <3> QED BY <3>1, <3>2, <3>3
  <2>2. UNCHANGED <<recorded, archive, janitor, overwritten, torn>>
    OBVIOUS
  <2> QED BY <2>1, <2>2 DEF TasksKnow, Sound
<1>6. JanitorKnows'
  <2>1. "janitor" \in stale' <=> "janitor" \in stale
    BY DEF MemoryAssumption
  <2>2. \A k \in MemoryJobs : tasks[k].at # "truncated"
    BY <1>2
  <2> QED BY <2>1, <2>2 DEF JanitorKnows, Sound
<1>7. MemoryKept'
  <2>1. BeingWritten => BeingWritten'
    BY DEF BeingWritten
  <2> QED BY <2>1 DEF MemoryKept, Sound
<1> QED BY <1>3, <1>4, <1>5, <1>6, <1>7

\* A task that truncates the file goes on with what it knew, or with what it has just read.
LEMMA TruncatingTaskStep ==
  ASSUME MemoryAssumption, MemoryTypeOK, Knowing, NEW j \in MemoryJobs, Steps(j), atWork' = j,
         UNCHANGED <<archive, janitor, recorded, overwritten, torn>>,
         \A k \in MemoryJobs \ {j} : tasks'[k] = tasks[k],
         tasks[j].at # "truncated", tasks'[j].at = "truncated",
         \/ stale' = stale /\ tasks[j].at \notin {"idle", "created", "reread"}
            /\ tasks[j].read \subseteq tasks'[j].update
         \/ stale' = stale \ {j} /\ longTerm \subseteq tasks'[j].update
  PROVE  Knowing'
<1> USE DEF Knowing
<1>1. atWork \in {"none", j}
  BY DEF Steps
<1>2. \A k \in MemoryJobs \ {j} :
         tasks[k].at \notin {"entry", "daily", "update", "truncated", "reread"}
  BY <1>1, OthersRest
<1>3. TaskStages'
  BY <1>2 DEF TaskStages
<1>4. JanitorArchives'
  BY DEF JanitorArchives
<1>5. TasksKnow'
  <2>1. ASSUME NEW k \in MemoryJobs, Sound, k \notin stale', tasks'[k].at \notin {"idle", "created", "reread"}
        PROVE  recorded \subseteq Basis(k)' \cup archive \/ janitor.at = "truncated"
    <3>1. CASE k # j
      BY <2>1, <3>1 DEF TasksKnow, Basis
    <3>2. CASE k = j /\ stale' = stale /\ tasks[j].at \notin {"idle", "created", "reread"}
               /\ tasks[j].read \subseteq tasks'[j].update
      BY <2>1, <3>2 DEF TasksKnow, Basis
    <3>3. CASE k = j /\ longTerm \subseteq tasks'[j].update
      BY <1>1, <2>1, <3>3, JustRead DEF Basis
    <3> QED BY <3>1, <3>2, <3>3
  <2> QED BY <2>1 DEF TasksKnow, Sound
<1>6. JanitorKnows'
  BY DEF JanitorKnows
<1>7. MemoryKept'
  BY DEF MemoryKept, BeingWritten
<1> QED BY <1>3, <1>4, <1>5, <1>6, <1>7

\* The end of a write: the writer alone has read what the file now holds.
LEMMA UpdateEndsKnows ==
  ASSUME MemoryAssumption, MemoryTypeOK, Knowing, NEW j \in MemoryJobs, Steps(j), UpdateEnds(j)
  PROVE  Knowing'
<1> USE DEF Knowing
<1>1. /\ tasks[j].at = "truncated" /\ atWork = j
      /\ longTerm' = tasks[j].update /\ recorded' = recorded \cup tasks[j].update
      /\ overwritten' = (overwritten \/ j \in stale) /\ stale' = MemoryWriters \ {j}
      /\ UNCHANGED <<archive, janitor, torn>>
  BY DEF UpdateEnds, Writes, TaskStages
<1>2. /\ \A k \in MemoryJobs \ {j} : tasks'[k] = tasks[k]
      /\ \/ tasks'[j].at = "reread" /\ atWork' = j
         \/ tasks'[j].at = "idle" /\ ~tasks'[j].flushed
  <2>1. tasks \in [MemoryJobs -> Job] /\ tasks[j] \in Job
    BY DEF MemoryTypeOK
  <2>2. CASE tasks[j].flushed
    BY <1>1, <2>1, <2>2 DEF UpdateEnds, Job
  <2>3. CASE ~tasks[j].flushed
    BY <2>1, <2>3 DEF UpdateEnds, NoTask
  <2> QED BY <2>2, <2>3
<1>3. \A k \in MemoryJobs \ {j} :
         tasks[k].at \notin {"entry", "daily", "update", "truncated", "reread"}
  BY <1>1, OthersRest
<1>4. TaskStages'
  BY <1>1, <1>2, <1>3 DEF TaskStages
<1>5. JanitorArchives'
  BY <1>1 DEF JanitorArchives
<1>6. TasksKnow'
  <2>1. \A k \in MemoryJobs \ {j} : k \in stale'
    BY <1>1 DEF MemoryWriters
  <2> QED BY <1>2, <2>1 DEF TasksKnow
<1>7. JanitorKnows'
  <2>1. "janitor" \in stale'
    BY <1>1 DEF MemoryWriters, MemoryAssumption
  <2> QED BY <2>1 DEF JanitorKnows
<1>8. MemoryKept'
  <2>1. ASSUME Sound', janitor.at # "truncated" PROVE recorded' \subseteq longTerm' \cup archive'
    <3>1. Sound /\ j \notin stale
      BY <1>1, <2>1 DEF Sound
    <3>2. recorded \subseteq tasks[j].update \cup archive
      BY <1>1, <2>1, <3>1 DEF TasksKnow, Basis
    <3> QED BY <1>1, <3>2
  <2>2. ~BeingWritten' => janitor.at # "truncated"
    BY <1>1 DEF BeingWritten
  <2> QED BY <2>1, <2>2 DEF MemoryKept
<1> QED BY <1>4, <1>5, <1>6, <1>7, <1>8

\* Every step of a task.
LEMMA TaskKnows ==
  ASSUME MemoryAssumption, MemoryTypeOK, Knowing, NEW j \in MemoryJobs, TaskSteps(j)
  PROVE  Knowing'
<1>0. /\ Steps(j) /\ tasks \in [MemoryJobs -> Job] /\ tasks[j] \in Job
      /\ tasks[j].flushed => tasks[j].at \in {"truncated", "reread"}
  BY DEF TaskSteps, MemoryTypeOK, Knowing, TaskStages
<1>1. ASSUME NEW t \in Talks, ConsolidationIsCreated(j, t) \/ ArchiveIsCreated(j, t)
      PROVE  Knowing'
  <2>1. /\ tasks[j].at = "idle" /\ atWork = "none"
        /\ UNCHANGED <<atWork, longTerm, archive, janitor, recorded, overwritten, stale, torn>>
    BY <1>1 DEF ConsolidationIsCreated, ArchiveIsCreated, Begins, readings
  <2>2. /\ \A k \in MemoryJobs \ {j} : tasks'[k] = tasks[k]
        /\ tasks'[j].at = "created" /\ ~tasks'[j].flushed
    <3>1. CASE ConsolidationIsCreated(j, t)
      BY <1>0, <3>1 DEF ConsolidationIsCreated, NoTask
    <3>2. CASE ArchiveIsCreated(j, t)
      BY <1>0, <3>2 DEF ArchiveIsCreated, NoTask
    <3> QED BY <1>1, <3>1, <3>2
  <2> QED BY <1>0, <2>1, <2>2, QuietTaskStep
<1>2. CASE TaskReads(j)
  <2>1. /\ tasks[j].at = "created" /\ atWork = "none" /\ stale' = stale \ {j}
        /\ UNCHANGED <<atWork, longTerm, archive, janitor, recorded, overwritten, torn>>
    BY <1>2 DEF TaskReads, Reads
  <2>2. /\ \A k \in MemoryJobs \ {j} : tasks'[k] = tasks[k]
        /\ tasks'[j].at = "flush" /\ tasks'[j].flushed = tasks[j].flushed /\ tasks'[j].read = longTerm
    BY <1>0, <1>2 DEF TaskReads, Job
  <2> QED BY <1>0, <2>1, <2>2, QuietTaskStep
<1>3. CASE FlushIsSkipped(j)
  <2>1. /\ tasks[j].at = "flush" /\ atWork = "none"
        /\ UNCHANGED <<atWork, longTerm, archive, janitor, recorded, overwritten, stale, torn>>
    BY <1>3 DEF FlushIsSkipped, readings
  <2>2. /\ \A k \in MemoryJobs \ {j} : tasks'[k] = tasks[k]
        /\ tasks'[j].at = "asked" /\ tasks'[j].flushed = tasks[j].flushed
        /\ tasks'[j].read = tasks[j].read
    BY <1>0, <1>3 DEF FlushIsSkipped, Job
  <2> QED BY <1>0, <2>1, <2>2, QuietTaskStep
<1>4. CASE FlushAdds(j)
  <2>1. /\ tasks[j].at = "flush" /\ atWork' = j /\ stale' = stale \ {j}
        /\ UNCHANGED <<archive, janitor, recorded, overwritten, torn>>
    BY <1>4 DEF FlushAdds, Reads
  <2>2. /\ \A k \in MemoryJobs \ {j} : tasks'[k] = tasks[k]
        /\ tasks'[j].at = "truncated" /\ longTerm \subseteq tasks'[j].update
    BY <1>0, <1>4 DEF FlushAdds, Job
  <2> QED BY <1>0, <2>1, <2>2, TruncatingTaskStep
<1>5. CASE FlushIsRead(j)
  <2>1. /\ tasks[j].at = "reread" /\ atWork' = "none" /\ stale' = stale \ {j}
        /\ UNCHANGED <<longTerm, archive, janitor, recorded, overwritten, torn>>
    BY <1>5 DEF FlushIsRead, Reads
  <2>2. /\ \A k \in MemoryJobs \ {j} : tasks'[k] = tasks[k]
        /\ tasks'[j].at = "asked" /\ ~tasks'[j].flushed /\ tasks'[j].read = longTerm
    BY <1>0, <1>5 DEF FlushIsRead, ShownAfterFlush, Job
  <2> QED BY <1>0, <2>1, <2>2, QuietTaskStep
<1>6. CASE ConsolidationGivesUp(j)
  <2>1. /\ tasks[j].at = "asked" /\ atWork = "none"
        /\ UNCHANGED <<atWork, longTerm, archive, janitor, recorded, overwritten, stale, torn>>
    BY <1>6 DEF ConsolidationGivesUp, readings
  <2>2. /\ \A k \in MemoryJobs \ {j} : tasks'[k] = tasks[k]
        /\ tasks'[j].at = "idle" /\ ~tasks'[j].flushed
    BY <1>0, <1>6 DEF ConsolidationGivesUp, NoTask
  <2> QED BY <1>0, <2>1, <2>2, QuietTaskStep
<1>7. CASE ConsolidationIsAnswered(j)
  <2>1. /\ tasks[j].at = "asked" /\ atWork' = j
        /\ UNCHANGED <<longTerm, archive, janitor, recorded, overwritten, stale, torn>>
    BY <1>7 DEF ConsolidationIsAnswered, readings
  <2>2. /\ \A k \in MemoryJobs \ {j} : tasks'[k] = tasks[k]
        /\ tasks'[j].at \in {"entry", "update"} /\ tasks'[j].flushed = tasks[j].flushed
        /\ tasks'[j].read = tasks[j].read /\ tasks'[j].read \subseteq tasks'[j].update
    BY <1>0, <1>7 DEF ConsolidationIsAnswered, Job
  <2> QED BY <1>0, <2>1, <2>2, QuietTaskStep
<1>8. CASE LogEntry(j)
  <2>1. /\ tasks[j].at \in {"entry", "daily"}
        /\ UNCHANGED <<atWork, longTerm, archive, janitor, recorded, overwritten, stale, torn>>
    BY <1>8 DEF LogEntry, readings
  <2>2. /\ \A k \in MemoryJobs \ {j} : tasks'[k] = tasks[k]
        /\ tasks'[j].at \in {"daily", "update"} /\ tasks'[j].flushed = tasks[j].flushed
        /\ tasks'[j].read = tasks[j].read /\ tasks'[j].update = tasks[j].update
    BY <1>0, <1>8 DEF LogEntry, Job
  <2>3. atWork = j /\ tasks[j].read \subseteq tasks[j].update
    BY <2>1 DEF Knowing, TaskStages
  <2> QED BY <1>0, <2>1, <2>2, <2>3, QuietTaskStep
<1>9. CASE UpdateBegins(j)
  <2>1. /\ tasks[j].at = "update" /\ UNCHANGED <<archive, janitor, recorded, overwritten, stale, torn>>
    BY <1>9 DEF UpdateBegins, readings
  <2>2. atWork = j /\ tasks[j].read \subseteq tasks[j].update
    BY <2>1 DEF Knowing, TaskStages
  <2>3. CASE tasks[j].update = tasks[j].read
    <3>1. /\ \A k \in MemoryJobs \ {j} : tasks'[k] = tasks[k] /\ longTerm' = longTerm
          /\ tasks'[j].at = "idle" /\ ~tasks'[j].flushed /\ atWork' = "none"
      BY <1>0, <1>9, <2>3 DEF UpdateBegins, NoTask
    <3>2. longTerm' = longTerm
      BY <1>9, <2>3 DEF UpdateBegins
    <3> QED BY <1>0, <2>1, <2>2, <3>1, <3>2, QuietTaskStep
  <2>4. CASE tasks[j].update # tasks[j].read
    <3>1. /\ \A k \in MemoryJobs \ {j} : tasks'[k] = tasks[k]
          /\ tasks'[j].at = "truncated" /\ tasks'[j].update = tasks[j].update /\ atWork' = j
      BY <1>0, <1>9, <2>2, <2>4 DEF UpdateBegins, Job
    <3> QED BY <1>0, <2>1, <2>2, <3>1, TruncatingTaskStep
  <2> QED BY <2>3, <2>4
<1>10. CASE UpdateEnds(j)
  BY <1>0, <1>10, UpdateEndsKnows
<1>11. ASSUME NEW f \in Facts, AgentEdits(j, f) PROVE Knowing'
  <2>1. /\ tasks[j].at = "idle" /\ atWork' = j /\ stale' = stale \ {j}
        /\ UNCHANGED <<archive, janitor, recorded, overwritten, torn>>
    BY <1>11 DEF AgentEdits, Reads, Begins
  <2>2. /\ \A k \in MemoryJobs \ {j} : tasks'[k] = tasks[k]
        /\ tasks'[j].at = "truncated" /\ longTerm \subseteq tasks'[j].update
    BY <1>0, <1>11 DEF AgentEdits, NoTask
  <2> QED BY <1>0, <2>1, <2>2, TruncatingTaskStep
<1> QED BY <1>1, <1>2, <1>3, <1>4, <1>5, <1>6, <1>7, <1>8, <1>9, <1>10, <1>11 DEF TaskSteps

\* Every other step.
LEMMA OthersKnow ==
  ASSUME MemoryAssumption, MemoryTypeOK, Knowing,
         \/ \E t \in Talks, f \in Facts : Say(t, f)
         \/ MemoryGatewayEnds \/ JanitorReads \/ JanitorMoves \/ JanitorEnds
         \/ UNCHANGED memoryVars
  PROVE  Knowing'
<1>0. /\ \A j \in MemoryJobs : j # "janitor"
      /\ janitor \in [at: {"idle", "read", "archived", "truncated"}, read: SUBSET Facts]
  BY DEF MemoryAssumption, MemoryTypeOK
<1>1. CASE UNCHANGED <<tasks, atWork, janitor, stale, overwritten, torn, recorded, longTerm, archive>>
  <2>1. TaskStages' /\ JanitorArchives'
    BY <1>1 DEF Knowing, TaskStages, JanitorArchives
  <2>2. TasksKnow'
    BY <1>1 DEF Knowing, TasksKnow, Basis, Sound
  <2>3. JanitorKnows' /\ MemoryKept'
    BY <1>1 DEF Knowing, JanitorKnows, MemoryKept, BeingWritten, Sound
  <2> QED BY <2>1, <2>2, <2>3 DEF Knowing
<1>2. CASE MemoryGatewayEnds
  <2>1. /\ torn' = (torn \/ \E j \in MemoryJobs : tasks[j].at = "truncated")
        /\ \A j \in MemoryJobs : tasks'[j].at = "idle" /\ ~tasks'[j].flushed
        /\ UNCHANGED <<longTerm, archive, janitor, recorded, stale, overwritten>>
    BY <1>2 DEF MemoryGatewayEnds, NoTask, readings
  <2>2. TaskStages' /\ JanitorArchives' /\ TasksKnow'
    BY <2>1 DEF Knowing, TaskStages, JanitorArchives, TasksKnow
  <2>3. Sound' => Sound /\ \A j \in MemoryJobs : tasks[j].at # "truncated"
    BY <2>1 DEF Sound
  <2>4. JanitorKnows' /\ MemoryKept'
    BY <2>1, <2>3 DEF Knowing, JanitorKnows, MemoryKept, BeingWritten
  <2> QED BY <2>2, <2>4 DEF Knowing
<1>3. CASE JanitorReads
  <2>1. /\ janitor.at = "idle" /\ janitor'.at = "read" /\ janitor'.read = longTerm
        /\ stale' = stale \ {"janitor"}
        /\ UNCHANGED <<longTerm, archive, tasks, atWork, recorded, overwritten, torn>>
    BY <1>3 DEF JanitorReads, Reads
  <2>2. TaskStages' /\ JanitorArchives'
    BY <2>1 DEF Knowing, TaskStages, JanitorArchives
  <2>3. TasksKnow'
    BY <1>0, <2>1 DEF Knowing, TasksKnow, Basis, Sound
  <2>4. JanitorKnows' /\ MemoryKept'
    BY <2>1 DEF Knowing, JanitorKnows, MemoryKept, BeingWritten, Sound
  <2> QED BY <2>2, <2>3, <2>4 DEF Knowing
<1>4. CASE JanitorMoves
  <2>1. UNCHANGED <<tasks, atWork, torn>>
    BY <1>4 DEF JanitorMoves
  <2>2. TaskStages'
    BY <2>1 DEF Knowing, TaskStages
  <2>3. CASE janitor.at = "read"
    <3>1. /\ janitor'.at = "archived" /\ janitor'.read = janitor.read
          /\ archive' = archive \cup (janitor.read \cap Expiring)
          /\ UNCHANGED <<longTerm, recorded, stale, overwritten>>
      BY <1>0, <1>4, <2>3 DEF JanitorMoves, readings
    <3>2. JanitorArchives'
      BY <3>1 DEF JanitorArchives
    <3>3. TasksKnow'
      BY <2>1, <2>3, <3>1 DEF Knowing, TasksKnow, Basis, Sound
    <3>4. JanitorKnows' /\ MemoryKept'
      BY <2>1, <2>3, <3>1 DEF Knowing, JanitorKnows, MemoryKept, BeingWritten, Sound
    <3> QED BY <2>2, <3>2, <3>3, <3>4 DEF Knowing
  <2>4. CASE janitor.at = "archived"
    <3>1. /\ janitor'.at = "truncated" /\ janitor'.read = janitor.read /\ archive' = archive
          /\ UNCHANGED <<recorded, stale, overwritten>>
      BY <1>0, <1>4, <2>4 DEF JanitorMoves, readings
    <3>2. JanitorArchives' /\ TasksKnow'
      BY <2>4, <3>1 DEF Knowing, JanitorArchives, TasksKnow
    <3>3. JanitorKnows' /\ MemoryKept'
      BY <2>1, <2>4, <3>1 DEF Knowing, JanitorKnows, MemoryKept, BeingWritten, Sound
    <3> QED BY <2>2, <3>2, <3>3 DEF Knowing
  <2>5. CASE janitor.at = "truncated"
    <3>1. /\ janitor'.at = "idle" /\ archive' = archive
          /\ longTerm' = janitor.read \ Expiring
          /\ recorded' = recorded \cup (janitor.read \ Expiring)
          /\ overwritten' = (overwritten \/ "janitor" \in stale)
          /\ stale' = MemoryWriters \ {"janitor"}
      BY <1>4, <2>5 DEF JanitorMoves, Writes
    <3>2. JanitorArchives' /\ JanitorKnows'
      BY <3>1 DEF JanitorArchives, JanitorKnows
    <3>3. TasksKnow'
      <4>1. \A j \in MemoryJobs : j \in stale'
        BY <1>0, <3>1 DEF MemoryWriters
      <4> QED BY <4>1 DEF TasksKnow
    <3>4. MemoryKept'
      <4>1. ASSUME Sound', ~BeingWritten' PROVE recorded' \subseteq longTerm' \cup archive'
        <5>1. Sound /\ "janitor" \notin stale /\ \A j \in MemoryJobs : tasks[j].at # "truncated"
          BY <2>1, <3>1, <4>1 DEF Sound, BeingWritten
        <5>2. recorded \subseteq janitor.read \cup archive
          BY <2>5, <5>1 DEF Knowing, JanitorKnows
        <5>3. janitor.read \cap Expiring \subseteq archive
          BY <2>5 DEF Knowing, JanitorArchives
        <5> QED BY <3>1, <5>2, <5>3
      <4> QED BY <4>1 DEF MemoryKept
    <3> QED BY <2>2, <3>2, <3>3, <3>4 DEF Knowing
  <2> QED BY <1>4, <2>3, <2>4, <2>5 DEF JanitorMoves
<1>5. CASE JanitorEnds
  <2>1. /\ torn' = (torn \/ janitor.at = "truncated") /\ janitor'.at = "idle"
        /\ UNCHANGED <<longTerm, archive, tasks, atWork, recorded, stale, overwritten>>
    BY <1>5 DEF JanitorEnds, readings
  <2>2. TaskStages' /\ JanitorArchives' /\ JanitorKnows'
    BY <2>1 DEF Knowing, TaskStages, JanitorArchives, JanitorKnows
  <2>3. Sound' => Sound /\ janitor.at # "truncated"
    BY <2>1 DEF Sound
  <2>4. TasksKnow'
    BY <2>1, <2>3 DEF Knowing, TasksKnow, Basis
  <2>5. MemoryKept'
    BY <2>1, <2>3 DEF Knowing, MemoryKept, BeingWritten
  <2> QED BY <2>2, <2>4, <2>5 DEF Knowing
<1>6. CASE \E t \in Talks, f \in Facts : Say(t, f)
  BY <1>1, <1>6 DEF Say, readings
<1>7. CASE UNCHANGED memoryVars
  BY <1>1, <1>7 DEF memoryVars, readings
<1> QED BY <1>2, <1>3, <1>4, <1>5, <1>6, <1>7

-------------------------------------------------------------------------------
(* What conversations were about.                                             *)
LEMMA TaskWords ==
  ASSUME MemoryAssumption, MemoryTypeOK, TaskStages, WordsKept, NEW j \in MemoryJobs, TaskSteps(j)
  PROVE  WordsKept'
<1>0. /\ Steps(j) /\ tasks \in [MemoryJobs -> Job] /\ tasks[j] \in Job
      /\ tasks[j].flushed => tasks[j].at \in {"truncated", "reread"}
  BY DEF TaskSteps, MemoryTypeOK, TaskStages
<1> USE DEF conversationVars, logs
<1>1. ASSUME NEW t \in Talks, ConsolidationIsCreated(j, t)
      PROVE  WordsKept'
  <2>1. UNCHANGED <<said, talks, daily, dropped>> /\ tasks[j].at = "idle"
    BY <1>1 DEF ConsolidationIsCreated, Begins
  <2>2. \A k \in MemoryJobs \ {j} : tasks'[k] = tasks[k]
    BY <1>0, <1>1 DEF ConsolidationIsCreated
  <2>3. \A f : ~Holds(j, f)
    BY <1>0, <2>1 DEF Holds, Unlogged
  <2> QED BY <2>1, <2>2, <2>3, TaskKeepsWords
<1>2. ASSUME NEW t \in Talks, ArchiveIsCreated(j, t)
      PROVE  WordsKept'
  <2>1. /\ UNCHANGED <<said, daily, dropped>> /\ tasks[j].at = "idle"
        /\ talks' = [talks EXCEPT ![t] = {}]
    BY <1>2 DEF ArchiveIsCreated, Begins
  <2>2. /\ \A k \in MemoryJobs \ {j} : tasks'[k] = tasks[k]
        /\ tasks'[j].at = "created" /\ tasks'[j].all /\ tasks'[j].facts = talks[t]
    BY <1>0, <1>2 DEF ArchiveIsCreated, NoTask
  <2>3. \A f : ~Holds(j, f)
    BY <1>0, <2>1 DEF Holds, Unlogged
  <2>4. \A k \in MemoryJobs \ {j} : \A f : Holds(k, f) => Holds(k, f)'
    BY <2>2 DEF Holds, Unlogged, OnlyInHand
  <2>5. \A f \in talks[t] : Holds(j, f)'
    BY <2>2 DEF Holds, Unlogged, OnlyInHand
  <2>6. \A u \in Talks : u # t => talks'[u] = talks[u]
    BY <2>1 DEF MemoryTypeOK
  <2>7. ASSUME NEW f \in said
        PROVE  \/ \E u \in Talks : f \in talks'[u]
               \/ f \in daily' \cup dropped'
               \/ \E k \in MemoryJobs : Holds(k, f)'
    <3>1. \/ \E u \in Talks : f \in talks[u]
          \/ f \in daily \cup dropped
          \/ \E k \in MemoryJobs : Holds(k, f)
      BY WordsAre
    <3> QED BY <2>1, <2>3, <2>4, <2>5, <2>6, <3>1
  <2> QED BY <2>1, <2>7, WordsAre
<1>3. CASE TaskReads(j)
  <2>1. UNCHANGED <<said, talks, daily, dropped>> /\ tasks[j].at = "created"
    BY <1>3 DEF TaskReads
  <2>2. /\ \A k \in MemoryJobs \ {j} : tasks'[k] = tasks[k]
        /\ tasks'[j].at = "flush" /\ tasks'[j].all = tasks[j].all /\ tasks'[j].facts = tasks[j].facts
    BY <1>0, <1>3 DEF TaskReads, Job
  <2>3. \A f : Holds(j, f) => Holds(j, f)'
    BY <2>2 DEF Holds, Unlogged, OnlyInHand
  <2> QED BY <2>1, <2>2, <2>3, TaskKeepsWords
<1>4. CASE FlushIsSkipped(j)
  <2>1. UNCHANGED <<said, talks, daily, dropped>>
    BY <1>4 DEF FlushIsSkipped
  <2>2. /\ \A k \in MemoryJobs \ {j} : tasks'[k] = tasks[k]
        /\ tasks'[j].at = "asked" /\ tasks'[j].all = tasks[j].all /\ tasks'[j].facts = tasks[j].facts
    BY <1>0, <1>4 DEF FlushIsSkipped, Job
  <2>3. \A f : Holds(j, f) => Holds(j, f)'
    BY <2>2 DEF Holds, Unlogged, OnlyInHand
  <2> QED BY <2>1, <2>2, <2>3, TaskKeepsWords
<1>5. CASE FlushAdds(j)
  <2>1. UNCHANGED <<said, talks, daily, dropped>>
    BY <1>5 DEF FlushAdds
  <2>2. /\ \A k \in MemoryJobs \ {j} : tasks'[k] = tasks[k]
        /\ tasks'[j].flushed /\ tasks'[j].all = tasks[j].all /\ tasks'[j].facts = tasks[j].facts
    BY <1>0, <1>5 DEF FlushAdds, Job
  <2>3. \A f : Holds(j, f) => Holds(j, f)'
    BY <2>2 DEF Holds, Unlogged, OnlyInHand
  <2> QED BY <2>1, <2>2, <2>3, TaskKeepsWords
<1>6. CASE FlushIsRead(j)
  <2>1. UNCHANGED <<said, talks, daily, dropped>>
    BY <1>6 DEF FlushIsRead
  <2>2. /\ \A k \in MemoryJobs \ {j} : tasks'[k] = tasks[k]
        /\ tasks'[j].at = "asked" /\ tasks'[j].all = tasks[j].all /\ tasks'[j].facts = tasks[j].facts
    BY <1>0, <1>6 DEF FlushIsRead, Job
  <2>3. \A f : Holds(j, f) => Holds(j, f)'
    BY <2>2 DEF Holds, Unlogged, OnlyInHand
  <2> QED BY <2>1, <2>2, <2>3, TaskKeepsWords
<1>7. CASE ConsolidationGivesUp(j)
  <2>1. UNCHANGED <<said, talks, daily>> /\ dropped' = dropped \cup OnlyInHand(j)
    BY <1>7 DEF ConsolidationGivesUp
  <2>2. \A k \in MemoryJobs \ {j} : tasks'[k] = tasks[k]
    BY <1>0, <1>7 DEF ConsolidationGivesUp
  <2>3. \A f : Holds(j, f) => f \in dropped'
    BY <2>1 DEF Holds
  <2> QED BY <2>1, <2>2, <2>3, TaskKeepsWords
<1>8. CASE ConsolidationIsAnswered(j)
  <2>1. /\ UNCHANGED <<said, talks, daily>>
        /\ \/ dropped' = dropped /\ tasks'[j].at = "entry"
           \/ dropped' = dropped \cup OnlyInHand(j)
    BY <1>0, <1>8 DEF ConsolidationIsAnswered
  <2>2. /\ \A k \in MemoryJobs \ {j} : tasks'[k] = tasks[k]
        /\ tasks'[j].all = tasks[j].all /\ tasks'[j].facts = tasks[j].facts
    BY <1>0, <1>8 DEF ConsolidationIsAnswered, Job
  <2>3. \A f : Holds(j, f) => f \in dropped' \/ Holds(j, f)'
    BY <2>1, <2>2 DEF Holds, Unlogged, OnlyInHand
  <2> QED BY <2>1, <2>2, <2>3, TaskKeepsWords
<1>9. CASE LogEntry(j)
  <2>1. /\ UNCHANGED <<said, talks, dropped>>
        /\ \/ daily' = daily /\ tasks'[j].at = "daily"
           \/ daily' = daily \cup tasks[j].facts
    <3>1. UNCHANGED <<said, talks, dropped>>
      BY <1>9 DEF LogEntry
    <3>2. CASE tasks[j].at = "entry"
      BY <1>0, <1>9, <3>1, <3>2 DEF LogEntry, Job
    <3>3. CASE tasks[j].at = "daily"
      BY <1>9, <3>1, <3>3 DEF LogEntry
    <3> QED BY <1>9, <3>2, <3>3 DEF LogEntry
  <2>2. /\ \A k \in MemoryJobs \ {j} : tasks'[k] = tasks[k]
        /\ tasks'[j].all = tasks[j].all /\ tasks'[j].facts = tasks[j].facts
    BY <1>0, <1>9 DEF LogEntry, Job
  <2>3. \A f : Holds(j, f) => f \in daily' \/ Holds(j, f)'
    BY <2>1, <2>2 DEF Holds, Unlogged, OnlyInHand
  <2> QED BY <2>1, <2>2, <2>3, TaskKeepsWords
<1>10. CASE UpdateBegins(j)
  <2>1. UNCHANGED <<said, talks, daily, dropped>> /\ tasks[j].at = "update"
    BY <1>10 DEF UpdateBegins
  <2>2. \A k \in MemoryJobs \ {j} : tasks'[k] = tasks[k]
    BY <1>0, <1>10 DEF UpdateBegins
  <2>3. \A f : ~Holds(j, f)
    BY <1>0, <2>1 DEF Holds, Unlogged
  <2> QED BY <2>1, <2>2, <2>3, TaskKeepsWords
<1>11. CASE UpdateEnds(j)
  <2>1. UNCHANGED <<said, talks, daily, dropped>> /\ tasks[j].at = "truncated"
    BY <1>11 DEF UpdateEnds
  <2>2. \A k \in MemoryJobs \ {j} : tasks'[k] = tasks[k]
    BY <1>0, <1>11 DEF UpdateEnds
  <2>3. CASE tasks[j].flushed
    <3>1. tasks'[j].flushed /\ tasks'[j].all = tasks[j].all /\ tasks'[j].facts = tasks[j].facts
      BY <1>0, <1>11, <2>3 DEF UpdateEnds, Job
    <3>2. \A f : Holds(j, f) => Holds(j, f)'
      BY <3>1 DEF Holds, Unlogged, OnlyInHand
    <3> QED BY <2>1, <2>2, <3>2, TaskKeepsWords
  <2>4. CASE ~tasks[j].flushed
    <3>1. \A f : ~Holds(j, f)
      BY <2>1, <2>4 DEF Holds, Unlogged
    <3> QED BY <2>1, <2>2, <3>1, TaskKeepsWords
  <2> QED BY <2>3, <2>4
<1>12. ASSUME NEW f \in Facts, AgentEdits(j, f) PROVE WordsKept'
  <2>1. UNCHANGED <<said, talks, daily, dropped>> /\ tasks[j].at = "idle"
    BY <1>12 DEF AgentEdits, Begins
  <2>2. \A k \in MemoryJobs \ {j} : tasks'[k] = tasks[k]
    BY <1>0, <1>12 DEF AgentEdits
  <2>3. \A g : ~Holds(j, g)
    BY <1>0, <2>1 DEF Holds, Unlogged
  <2> QED BY <2>1, <2>2, <2>3, TaskKeepsWords
<1> QED BY <1>1, <1>2, <1>3, <1>4, <1>5, <1>6, <1>7, <1>8, <1>9, <1>10, <1>11, <1>12 DEF TaskSteps

LEMMA OtherWords ==
  ASSUME MemoryTypeOK, WordsKept,
         \/ \E t \in Talks, f \in Facts : Say(t, f)
         \/ MemoryGatewayEnds \/ JanitorReads \/ JanitorMoves \/ JanitorEnds
         \/ UNCHANGED memoryVars
  PROVE  WordsKept'
<1> USE DEF conversationVars, logs
<1>1. ASSUME NEW t \in Talks, NEW f \in Facts, Say(t, f) PROVE WordsKept'
  <2>1. /\ said' = said \cup {f} /\ talks' = [talks EXCEPT ![t] = @ \cup {f}]
        /\ UNCHANGED <<daily, dropped, tasks>>
    BY <1>1 DEF Say
  <2>2. f \in talks'[t] /\ \A u \in Talks : talks[u] \subseteq talks'[u]
    BY <2>1 DEF MemoryTypeOK
  <2>3. \A k \in MemoryJobs : \A g : Holds(k, g) => Holds(k, g)'
    BY <2>1 DEF Holds, Unlogged, OnlyInHand
  <2>4. ASSUME NEW g \in said'
        PROVE  \/ \E u \in Talks : g \in talks'[u]
               \/ g \in daily' \cup dropped'
               \/ \E k \in MemoryJobs : Holds(k, g)'
    <3>1. CASE g = f
      BY <2>2, <3>1
    <3>2. CASE g \in said
      <4>1. \/ \E u \in Talks : g \in talks[u]
            \/ g \in daily \cup dropped
            \/ \E k \in MemoryJobs : Holds(k, g)
        BY <3>2, WordsAre
      <4> QED BY <2>1, <2>2, <2>3, <4>1
    <3> QED BY <2>1, <3>1, <3>2
  <2> QED BY <2>4, WordsAre
<1>2. CASE MemoryGatewayEnds
  <2>1. UNCHANGED <<said, talks, daily>> /\ dropped' = dropped \cup InHandOfNew
    BY <1>2 DEF MemoryGatewayEnds
  <2> QED BY <2>1 DEF WordsKept
<1>3. CASE JanitorReads
  BY <1>3, OthersKeepWords DEF JanitorReads
<1>4. CASE JanitorMoves
  BY <1>4, OthersKeepWords DEF JanitorMoves
<1>5. CASE JanitorEnds
  BY <1>5, OthersKeepWords DEF JanitorEnds
<1>6. CASE UNCHANGED memoryVars
  BY <1>6, OthersKeepWords DEF memoryVars
<1> QED BY <1>1, <1>2, <1>3, <1>4, <1>5, <1>6

-------------------------------------------------------------------------------
(* The theorems.                                                              *)
LEMMA MemoryStarts == ASSUME MemoryAssumption, MemoryInit PROVE MemoryInv
<1>1. MemoryTypeOK
  <2>1. tasks \in [MemoryJobs -> Job]
    BY NoTaskType DEF MemoryInit
  <2>2. janitor \in [at: {"idle", "read", "archived", "truncated"}, read: SUBSET Facts]
    BY DEF MemoryInit
  <2>3. memoryEnds \in 0..MemoryEnds /\ memoryTasks \in 0..MemoryTasks /\ janitorRuns \in 0..JanitorRuns
    BY DEF MemoryAssumption, MemoryInit
  <2>4. paragraphs \in Seq(SUBSET Facts)
    BY DEF MemoryInit
  <2> QED BY <2>1, <2>2, <2>3, <2>4 DEF MemoryInit, MemoryTypeOK
<1>2. TaskStages /\ TasksKnow
  BY DEF MemoryInit, TaskStages, TasksKnow, NoTask
<1>3. JanitorArchives /\ JanitorKnows /\ MemoryKept /\ WordsKept
  BY DEF MemoryInit, JanitorArchives, JanitorKnows, MemoryKept, WordsKept
<1> QED BY <1>1, <1>2, <1>3 DEF MemoryInv

LEMMA MemoryNextKeeps == ASSUME MemoryAssumption, MemoryInv, [MemoryNext]_memoryVars PROVE MemoryInv'
<1>1. MemoryTypeOK /\ Knowing /\ WordsKept /\ TaskStages
  BY DEF MemoryInv, Knowing
<1>2. MemoryTypeOK'
  BY <1>1, MemoryTypesNext
<1>3. CASE \E j \in MemoryJobs : TaskSteps(j)
  <2>1. Knowing' /\ WordsKept'
    BY <1>1, <1>3, TaskKnows, TaskWords
  <2> QED BY <1>2, <2>1 DEF MemoryInv, Knowing
<1>4. CASE \/ \E t \in Talks, f \in Facts : Say(t, f)
           \/ MemoryGatewayEnds \/ JanitorReads \/ JanitorMoves \/ JanitorEnds
           \/ UNCHANGED memoryVars
  <2>1. Knowing'
    BY <1>1, <1>4, OthersKnow
  <2>2. WordsKept'
    BY <1>1, <1>4, OtherWords
  <2> QED BY <1>2, <2>1, <2>2 DEF MemoryInv, Knowing
<1> QED BY <1>3, <1>4, StepsAre

\* The inductive invariant holds in every behaviour of the memory's files.
THEOREM MemoryInvariant == MemorySpec => []MemoryInv
<1>1. MemoryInit => MemoryInv
  BY MemoryAssumption, MemoryStarts
<1>2. MemoryInv /\ [MemoryNext]_memoryVars => MemoryInv'
  BY MemoryAssumption, MemoryNextKeeps
<1> QED BY <1>1, <1>2, PTL DEF MemorySpec

\* However many tasks, edits and janitors read and write MEMORY.md, and wherever they
\* fail or end: what has once been in it is in it or in the archive, unless a writer
\* wrote over what it had not read or ended between truncating and writing the file; and
\* what a conversation was about stays in its messages or in a daily log, unless the
\* task of a /new lost it (agent/memory.py, agent/loop.py, agent/memory_janitor.py).
THEOREM MemoryForgetsNothing == MemorySpec => []NothingIsForgotten
<1>1. MemoryInv => NothingIsForgotten
  BY DEF MemoryInv, MemoryKept, WordsKept, Sound, NothingIsForgotten
<1> QED BY <1>1, MemoryInvariant, PTL

-------------------------------------------------------------------------------
(* The two parts in one run.                                                  *)

\* Whatever the run of MCSessionMemory does is a behaviour of each part: what is proved of
\* the sessions and of the long-term memory holds of the run too.
THEOREM SessionsAreParts == SessionsSpec => Spec /\ MemorySpec
<1>1. SessionsInit => Init /\ MemoryInit  BY DEF SessionsInit
<1>2. [SessionsNext]_<<part, vars, memoryVars>> => [Next]_vars /\ [MemoryNext]_memoryVars
  BY DEF SessionsNext
<1> QED  BY <1>1, <1>2, PTL DEF SessionsSpec, Spec, MemorySpec

\* Every variable of both parts is of its type, in the run of the two.
THEOREM SessionsTyped == SessionsSpec => []SessionsTypesOK
<1>1. TypeOK /\ MemoryTypeOK => SessionsTypesOK  BY DEF SessionsTypesOK
<1>2. MemoryInv => MemoryTypeOK  BY DEF MemoryInv
<1> QED  BY <1>1, <1>2, SessionsAreParts, SessionTypes, MemoryInvariant, PTL
===============================================================================
