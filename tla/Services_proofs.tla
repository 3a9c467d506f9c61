--------------------------- MODULE Services_proofs ----------------------------
(***************************************************************************)
(* What TaskQueue, MessageRouting, ModelFallback and Collaboration         *)
(* guarantee for every number of workers, tasks, chats, turns, subagents,  *)
(* models, auth profiles, jobs and topics, and every limit; and that the   *)
(* run of MCServices, where the four are checked together, shows what is   *)
(* proved of each.                                                         *)
(***************************************************************************)
EXTENDS MCServices, Selection_proofs, FiniteSetTheorems, TLAPS

-------------------------------------------------------------------------------
(* The task queue: the inductive invariant.                                   *)

\* What the argument needs of the types (the bound of retry_count is not part of it).
ExecPlace == [at: Points, retries: Nat]
QueueRow == [status: {"absent", "queued", "running", "completed", "failed"},
             source: {"cloud", "local"}, due: BOOLEAN, retries: Nat]

QueueTypes ==
  /\ row \in [Tasks -> QueueRow]
  /\ exec \in [Workers -> [Tasks -> ExecPlace]]
  /\ runs \in [Tasks -> Nat] /\ manual \in [Tasks -> Nat]
  /\ told \in [Tasks -> SUBSET {"result", "failure"}]

\* w has marked t as its own and has not left it.
Holds(w, t) == exec[w][t].at \notin {"none", "picked"}

\* A task that is not contested has one holder, whose place the status follows, and whose
\* retry_count is still that of the row.
OneHolder(t) ==
  /\ \A v, w \in Workers : Holds(v, t) /\ Holds(w, t) => v = w
  /\ \A w \in Workers :
        /\ exec[w][t].at \in {"marked", "started", "turn", "answered"} => row[t].status = "running"
        /\ exec[w][t].at = "telling" => row[t].status = "completed"
        /\ exec[w][t].at = "failing" => row[t].status \in {"running", "completed"}
        /\ exec[w][t].at \in {"started", "turn", "answered", "telling", "failing"} =>
              exec[w][t].retries = row[t].retries

\* Every execution but the latest has been paid for with a retry.
RunsArePaid(t) ==
  /\ runs[t] <= row[t].retries + 1
  /\ row[t].status \in {"absent", "queued"} => runs[t] <= row[t].retries
  /\ \A w \in Workers : exec[w][t].at \in {"marked", "started"} => runs[t] <= row[t].retries
  /\ row[t].retries <= MaxTaskRetries + manual[t]

\* A completed task of the cloud has been told, or its worker is still there to tell it.
TellingOrTold(t) ==
  t \notin orphans /\ FromCloud(t) /\ row[t].status = "completed" =>
     "result" \in told[t] \/ \E w \in Workers : exec[w][t].at \in {"telling", "failing"}

TaskIsKept(t) == OneHolder(t) /\ RunsArePaid(t) /\ TellingOrTold(t)

QueueInv == QueueTypes /\ \A t \in Tasks : t \notin contested => TaskIsKept(t)

-------------------------------------------------------------------------------
(* Preservation.                                                              *)

\* A task that a step leaves alone is kept.
LEMMA TaskUntouched ==
  ASSUME NEW t \in Tasks, t \notin contested => TaskIsKept(t), contested \subseteq contested',
         t \in orphans' <=> t \in orphans,
         UNCHANGED <<row[t], runs[t], manual[t], told[t]>>,
         \A w \in Workers : exec'[w][t] = exec[w][t]
  PROVE  t \notin contested' => TaskIsKept(t)'
<1> SUFFICES ASSUME t \notin contested' PROVE TaskIsKept(t)'
  OBVIOUS
<1>1. TaskIsKept(t)
  OBVIOUS
<1>2. OneHolder(t)'
  BY <1>1 DEF TaskIsKept, OneHolder, Holds
<1>3. RunsArePaid(t)'
  BY <1>1 DEF TaskIsKept, RunsArePaid
<1>4. TellingOrTold(t)'
  BY <1>1 DEF TaskIsKept, TellingOrTold, FromCloud
<1> QED BY <1>2, <1>3, <1>4 DEF TaskIsKept

\* A step of w at t: what it may change of t, and that it changes nothing of other tasks.
OnlyAt(w, t) ==
  /\ \A u \in Tasks \ {t} : /\ UNCHANGED <<row[u], runs[u], manual[u], told[u]>>
                            /\ \A v \in Workers : exec'[v][u] = exec[v][u]
                            /\ u \in orphans' <=> u \in orphans
  /\ \A v \in Workers \ {w} : exec'[v][t] = exec[v][t]
  /\ contested \subseteq contested'

LEMMA OthersUntouched ==
  ASSUME NEW w \in Workers, NEW t \in Tasks, QueueInv, OnlyAt(w, t),
         t \notin contested' => TaskIsKept(t)'
  PROVE  \A u \in Tasks : u \notin contested' => TaskIsKept(u)'
<1> SUFFICES ASSUME NEW u \in Tasks, u # t, u \notin contested' PROVE TaskIsKept(u)'
  OBVIOUS
<1>1. TaskIsKept(u)
  BY DEF QueueInv, OnlyAt
<1>2. /\ UNCHANGED <<row[u], runs[u], manual[u], told[u]>> /\ \A v \in Workers : exec'[v][u] = exec[v][u]
      /\ u \in orphans' <=> u \in orphans
  BY DEF OnlyAt
<1>3. OneHolder(u)'
  BY <1>1, <1>2 DEF TaskIsKept, OneHolder, Holds
<1>4. RunsArePaid(u)'
  BY <1>1, <1>2 DEF TaskIsKept, RunsArePaid
<1>5. TellingOrTold(u)'
  BY <1>1, <1>2 DEF TaskIsKept, TellingOrTold, FromCloud
<1> QED BY <1>3, <1>4, <1>5 DEF TaskIsKept

\* What moving one place, or changing one row, does to the types.
LEMMA PlaceTypes ==
  ASSUME NEW f \in [Workers -> [Tasks -> ExecPlace]], NEW w \in Workers, NEW t \in Tasks
  PROVE  /\ \A point \in Points : [f EXCEPT ![w][t].at = point] \in [Workers -> [Tasks -> ExecPlace]]
         /\ \A e \in ExecPlace : [f EXCEPT ![w][t] = e] \in [Workers -> [Tasks -> ExecPlace]]
<1>1. \A e \in ExecPlace : [f EXCEPT ![w][t] = e] \in [Workers -> [Tasks -> ExecPlace]]
  OBVIOUS
<1>2. ASSUME NEW point \in Points
      PROVE  [f EXCEPT ![w][t].at = point] \in [Workers -> [Tasks -> ExecPlace]]
  <2>1. f[w][t] \in ExecPlace
    OBVIOUS
  <2>2. [f[w][t] EXCEPT !.at = point] \in ExecPlace
    BY <2>1 DEF ExecPlace
  <2>3. [f EXCEPT ![w][t].at = point] = [f EXCEPT ![w][t] = [f[w][t] EXCEPT !.at = point]]
    OBVIOUS
  <2> QED BY <1>1, <2>2, <2>3
<1> QED BY <1>1, <1>2

LEMMA RowStatus ==
  ASSUME NEW f \in [Tasks -> QueueRow], NEW t \in Tasks,
         NEW status \in {"queued", "running", "completed", "failed"}
  PROVE  [f EXCEPT ![t].status = status] \in [Tasks -> QueueRow]
<1>1. f[t] \in QueueRow
  OBVIOUS
<1>2. [f[t] EXCEPT !.status = status] \in QueueRow
  BY <1>1 DEF QueueRow
<1>3. [f EXCEPT ![t].status = status] = [f EXCEPT ![t] = [f[t] EXCEPT !.status = status]]
  OBVIOUS
<1> QED BY <1>2, <1>3

\* What a step of w at t does to the types.
LEMMA QueueTypesNext ==
  ASSUME WorkerAssumption, QueueTypes, [TaskNext]_taskVars
  PROVE  QueueTypes'
<1> USE DEF process, queue, history, At, Leave, Unoccupied, SetStatus
<1>1. /\ row \in [Tasks -> QueueRow]
      /\ exec \in [Workers -> [Tasks -> ExecPlace]]
      /\ runs \in [Tasks -> Nat] /\ manual \in [Tasks -> Nat]
      /\ told \in [Tasks -> SUBSET {"result", "failure"}]
  BY DEF QueueTypes
<1>2. ASSUME NEW w \in Workers, StartWorker(w) \/ Drain(w) \/ Exit(w) PROVE QueueTypes'
  BY <1>1, <1>2 DEF StartWorker, Drain, Exit, QueueTypes
<1>3. ASSUME NEW w \in Workers, Crash(w) PROVE QueueTypes'
  <2>1. exec' \in [Workers -> [Tasks -> ExecPlace]]
    BY <1>1, <1>3 DEF Crash, Points, ExecPlace
  <2> QED BY <1>1, <1>3, <2>1 DEF Crash, QueueTypes
<1>4. ASSUME NEW t \in Tasks, NEW source \in {"cloud", "local"}, Enqueue(t, source),
             UNCHANGED <<exec, history>>
      PROVE  QueueTypes'
  <2>0. row[t] \in QueueRow
    BY <1>1
  <2>1. row' \in [Tasks -> QueueRow]
    <3>1. Enqueued(t, source) \in QueueRow
      BY <2>0 DEF Enqueued, QueueRow
    <3> QED BY <1>1, <1>4, <3>1 DEF Enqueue
  <2> QED BY <1>1, <1>4, <2>1 DEF Enqueue, QueueTypes
<1>5. ASSUME NEW t \in Tasks, RetryFallsDue(t) PROVE QueueTypes'
  <2>1. [row[t] EXCEPT !.due = TRUE] \in QueueRow
    BY <1>1 DEF QueueRow
  <2>2. row' = [row EXCEPT ![t] = [row[t] EXCEPT !.due = TRUE]]
    BY <1>1, <1>5 DEF RetryFallsDue
  <2>3. row' \in [Tasks -> QueueRow]
    BY <1>1, <2>1, <2>2
  <2> QED BY <1>1, <1>5, <2>3 DEF RetryFallsDue, QueueTypes
<1>6. ASSUME NEW t \in Tasks, RetryByHand(t) PROVE QueueTypes'
  <2>1. row' \in [Tasks -> QueueRow]
    <3>1. row' = [row EXCEPT ![t].status = "queued", ![t].retries = @ + 1, ![t].due = TRUE] /\ 1 \in Nat
      BY <1>6 DEF RetryByHand
    <3>2. row[t] \in QueueRow /\ row[t].retries + 1 \in Nat
      BY <1>1 DEF QueueRow
    <3> QED BY <1>1, <3>1, <3>2 DEF QueueRow
  <2> QED BY <1>1, <1>6, <2>1 DEF RetryByHand, QueueTypes
<1>7. ASSUME NEW w \in Workers, NEW t \in Tasks,
             \/ Pick(w, t) \/ Take(w, t) \/ TakeFails(w, t) \/ SetupFails(w, t)
             \/ StartTurn(w, t) \/ TurnEnds(w, t)
      PROVE  QueueTypes'
  <2>1. UNCHANGED <<row, manual, told>>
    BY <1>7 DEF Pick, Take, TakeFails, SetupFails, Abandon, StartTurn, TurnEnds
  <2>2. runs' \in [Tasks -> Nat]
    BY <1>1, <1>7 DEF Pick, Take, TakeFails, SetupFails, Abandon, StartTurn, TurnEnds
  <2>3. \/ \E point \in Points : exec' = [exec EXCEPT ![w][t].at = point]
        \/ \E n \in Nat : exec' = [exec EXCEPT ![w][t] = [at |-> "started", retries |-> n]]
        \/ exec' = [exec EXCEPT ![w][t] = [at |-> "none", retries |-> 0]]
    BY <1>1, <1>7 DEF Pick, Take, TakeFails, SetupFails, Abandon, StartTurn, TurnEnds, Points, QueueRow
  <2>4. exec' \in [Workers -> [Tasks -> ExecPlace]]
    <3>1. ASSUME NEW point \in Points, exec' = [exec EXCEPT ![w][t].at = point]
          PROVE  exec' \in [Workers -> [Tasks -> ExecPlace]]
      BY <1>1, <3>1, PlaceTypes
    <3>2. ASSUME NEW e \in ExecPlace, exec' = [exec EXCEPT ![w][t] = e]
          PROVE  exec' \in [Workers -> [Tasks -> ExecPlace]]
      BY <1>1, <3>2, PlaceTypes
    <3>3. [at |-> "none", retries |-> 0] \in ExecPlace /\ \A n \in Nat : [at |-> "started", retries |-> n] \in ExecPlace
      BY DEF ExecPlace, Points
    <3> QED BY <2>3, <3>1, <3>2, <3>3
  <2> QED BY <1>1, <2>1, <2>2, <2>4 DEF QueueTypes
<1>8. ASSUME NEW w \in Workers, NEW t \in Tasks, NEW point \in Points,
             \/ exec' = [exec EXCEPT ![w][t].at = point]
             \/ exec' = [exec EXCEPT ![w][t] = [at |-> "none", retries |-> 0]],
             NEW status \in {"queued", "running", "completed", "failed"}, NEW n \in Nat, NEW due \in BOOLEAN,
             \/ row' = row
             \/ row' = [row EXCEPT ![t].status = status]
             \/ row' = [row EXCEPT ![t].status = status, ![t].retries = @ + n, ![t].due = due],
             UNCHANGED <<runs, manual>>,
             NEW word \in {"result", "failure"},
             told' = told \/ told' = [told EXCEPT ![t] = @ \cup {word}]
      PROVE  QueueTypes'
  <2>1. exec' \in [Workers -> [Tasks -> ExecPlace]]
    <3>1. [at |-> "none", retries |-> 0] \in ExecPlace
      BY DEF ExecPlace, Points
    <3>2. CASE exec' = [exec EXCEPT ![w][t].at = point]
      <4>1. [exec EXCEPT ![w][t].at = point] \in [Workers -> [Tasks -> ExecPlace]]
        BY <1>1, PlaceTypes
      <4> QED BY <3>2, <4>1
    <3>3. CASE exec' = [exec EXCEPT ![w][t] = [at |-> "none", retries |-> 0]]
      BY <1>1, <3>1, <3>3, PlaceTypes
    <3> QED BY <1>8, <3>2, <3>3
  <2>2. row' \in [Tasks -> QueueRow]
    <3>1. CASE row' = [row EXCEPT ![t].status = status]
      <4>1. [row EXCEPT ![t].status = status] \in [Tasks -> QueueRow]
        BY <1>1, RowStatus
      <4> QED BY <3>1, <4>1
    <3>2. CASE row' = [row EXCEPT ![t].status = status, ![t].retries = @ + n, ![t].due = due]
      <4>1. [row EXCEPT ![t].status = status, ![t].retries = @ + n, ![t].due = due] \in [Tasks -> QueueRow]
        <5>1. row[t] \in QueueRow /\ row[t].retries + n \in Nat
          BY <1>1 DEF QueueRow
        <5> QED BY <1>1, <5>1 DEF QueueRow
      <4> QED BY <3>2, <4>1
    <3> QED BY <1>1, <1>8, <3>1, <3>2
  <2>3. told' \in [Tasks -> SUBSET {"result", "failure"}]
    BY <1>1, <1>8
  <2> QED BY <1>1, <1>8, <2>1, <2>2, <2>3 DEF QueueTypes
<1>9. ASSUME NEW w \in Workers, NEW t \in Tasks,
             Mark(w, t) \/ Complete(w, t) \/ Tell(w, t) \/ Retry(w, t) \/ GiveUp(w, t)
      PROVE  QueueTypes'
  <2>0. {"none", "marked", "telling", "failing"} \subseteq Points /\ {0, 1} \subseteq Nat
    BY DEF Points
  <2>1. CASE Mark(w, t)
    <3>1. exec' = [exec EXCEPT ![w][t].at = "marked"] /\ row' = [row EXCEPT ![t].status = "running"]
          /\ UNCHANGED <<runs, manual, told>>
      BY <2>1 DEF Mark
    <3> QED BY <1>8, <2>0, <3>1
  <2>2. CASE Complete(w, t)
    <3>1. \/ /\ exec' = [exec EXCEPT ![w][t].at = "telling"]
             /\ row' = [row EXCEPT ![t].status = "completed", ![t].retries = @ + 0, ![t].due = TRUE]
          \/ exec' = [exec EXCEPT ![w][t].at = "failing"] /\ row' = row
      BY <2>2 DEF Complete
    <3>2. UNCHANGED <<runs, manual, told>>
      BY <2>2 DEF Complete
    <3> QED BY <1>8, <2>0, <3>1, <3>2
  <2>3. CASE Tell(w, t)
    <3>1. /\ \/ exec' = [exec EXCEPT ![w][t].at = "failing"]
             \/ exec' = [exec EXCEPT ![w][t] = [at |-> "none", retries |-> 0]]
          /\ told' = told \/ told' = [told EXCEPT ![t] = @ \cup {"result"}]
          /\ UNCHANGED <<row, runs, manual>>
      BY <2>3 DEF Tell
    <3> QED BY <1>8, <2>0, <3>1
  <2>4. CASE Retry(w, t)
    <3>1. exec' = [exec EXCEPT ![w][t] = [at |-> "none", retries |-> 0]]
          /\ \/ row' = [row EXCEPT ![t].status = "queued", ![t].retries = @ + 1, ![t].due = FALSE]
             \/ row' = row
          /\ UNCHANGED <<runs, manual, told>>
      BY <2>4 DEF Retry, Abandon
    <3> QED BY <1>8, <2>0, <3>1
  <2>5. CASE GiveUp(w, t)
    <3>1. /\ exec' = [exec EXCEPT ![w][t] = [at |-> "none", retries |-> 0]]
          /\ \/ row' = [row EXCEPT ![t].status = "failed", ![t].retries = @ + 0, ![t].due = TRUE]
             \/ row' = row
          /\ \/ told' = told
             \/ told' = [told EXCEPT ![t] = @ \cup {"failure"}]
          /\ UNCHANGED <<runs, manual>>
      BY <2>5 DEF GiveUp, Abandon
    <3> QED BY <1>8, <2>0, <3>1
  <2> QED BY <1>9, <2>1, <2>2, <2>3, <2>4, <2>5
<1>10. ASSUME NEW w \in Workers, NEW t \in Tasks, WorkerStep(w, t) PROVE QueueTypes'
  BY <1>7, <1>9, <1>10 DEF WorkerStep
<1>11. ASSUME NEW w \in Workers, NEW t \in Tasks, ReceiveTask(w, t) PROVE QueueTypes'
  BY <1>4, <1>11 DEF ReceiveTask
<1>12. ASSUME NEW t \in Tasks, AddLocal(t) PROVE QueueTypes'
  BY <1>4, <1>12 DEF AddLocal
<1>13. CASE UNCHANGED taskVars
  BY <1>1, <1>13 DEF taskVars, QueueTypes
<1> QED BY <1>2, <1>3, <1>5, <1>6, <1>7, <1>10, <1>11, <1>12, <1>13 DEF TaskNext

\* Each step of a worker at a task, for that task.
LEMMA WorkerKeepsTask ==
  ASSUME WorkerAssumption, QueueInv, NEW w \in Workers, NEW t \in Tasks,
         Pick(w, t) \/ WorkerStep(w, t)
  PROVE  OnlyAt(w, t) /\ (t \notin contested' => TaskIsKept(t)')
<1> USE DEF process, queue, history, At, Leave, Unoccupied, SetStatus
<1>0. /\ row \in [Tasks -> QueueRow] /\ row[t] \in QueueRow
      /\ exec \in [Workers -> [Tasks -> ExecPlace]] /\ exec[w][t] \in ExecPlace
      /\ runs \in [Tasks -> Nat] /\ manual \in [Tasks -> Nat]
      /\ told \in [Tasks -> SUBSET {"result", "failure"}]
      /\ row[t].retries \in Nat /\ runs[t] \in Nat /\ manual[t] \in Nat /\ exec[w][t].retries \in Nat
      /\ MaxTaskRetries \in Nat
      /\ t \notin contested => TaskIsKept(t)
  BY DEF QueueInv, QueueTypes, QueueRow, ExecPlace, WorkerAssumption
<1>1. CASE Pick(w, t)
  <2>1. /\ exec[w][t].at = "none" /\ exec' = [exec EXCEPT ![w][t].at = "picked"]
        /\ UNCHANGED <<row, manual, runs, told, contested, orphans>>
    BY <1>1 DEF Pick
  <2>2. OnlyAt(w, t) /\ exec'[w][t].at = "picked" /\ \A v \in Workers \ {w} : exec'[v][t] = exec[v][t]
    BY <1>0, <2>1 DEF OnlyAt, ExecPlace
  <2>3. ASSUME TaskIsKept(t) PROVE TaskIsKept(t)'
    <3>1. OneHolder(t)'
      BY <2>1, <2>2, <2>3 DEF TaskIsKept, OneHolder, Holds
    <3>2. RunsArePaid(t)'
      BY <2>1, <2>2, <2>3 DEF TaskIsKept, RunsArePaid
    <3>3. TellingOrTold(t)'
      BY <2>1, <2>2, <2>3 DEF TaskIsKept, TellingOrTold, FromCloud
    <3> QED BY <3>1, <3>2, <3>3 DEF TaskIsKept
  <2> QED BY <1>0, <2>1, <2>2, <2>3
<1>2. CASE Mark(w, t)
  <2>1. /\ exec[w][t].at = "picked" /\ exec' = [exec EXCEPT ![w][t].at = "marked"]
        /\ row' = [row EXCEPT ![t].status = "running"]
        /\ contested' = IF row[t].status = "queued" THEN contested ELSE contested \cup {t}
        /\ UNCHANGED <<manual, runs, told, orphans>>
    BY <1>2 DEF Mark
  <2>2. /\ OnlyAt(w, t) /\ exec'[w][t].at = "marked" /\ \A v \in Workers \ {w} : exec'[v][t] = exec[v][t]
        /\ row'[t].status = "running" /\ row'[t].retries = row[t].retries
    BY <1>0, <2>1 DEF OnlyAt, ExecPlace, QueueRow
  <2>3. ASSUME TaskIsKept(t), row[t].status = "queued" PROVE TaskIsKept(t)'
    <3>1. \A v \in Workers : ~Holds(v, t)
      BY <1>0, <2>3 DEF TaskIsKept, OneHolder, Holds, ExecPlace, Points
    <3>2. OneHolder(t)'
      BY <2>2, <3>1 DEF OneHolder, Holds
    <3>3. RunsArePaid(t)'
      BY <2>1, <2>2, <2>3 DEF TaskIsKept, RunsArePaid
    <3>4. TellingOrTold(t)'
      BY <2>2 DEF TellingOrTold
    <3> QED BY <3>2, <3>3, <3>4 DEF TaskIsKept
  <2> QED BY <1>0, <2>1, <2>2, <2>3
<1>3. CASE Take(w, t)
  <2>1. /\ exec[w][t].at = "marked"
        /\ exec' = [exec EXCEPT ![w][t] = [at |-> "started", retries |-> row[t].retries]]
        /\ UNCHANGED <<row, manual, runs, told, contested, orphans>>
    BY <1>3 DEF Take
  <2>2. /\ OnlyAt(w, t) /\ \A v \in Workers \ {w} : exec'[v][t] = exec[v][t]
        /\ exec'[w][t].at = "started" /\ exec'[w][t].retries = row[t].retries
    BY <1>0, <2>1 DEF OnlyAt
  <2>3. ASSUME TaskIsKept(t) PROVE TaskIsKept(t)'
    <3>1. OneHolder(t)'
      BY <2>1, <2>2, <2>3 DEF TaskIsKept, OneHolder, Holds
    <3>2. RunsArePaid(t)'
      BY <2>1, <2>2, <2>3 DEF TaskIsKept, RunsArePaid
    <3>3. TellingOrTold(t)'
      BY <2>1, <2>2, <2>3 DEF TaskIsKept, TellingOrTold, FromCloud
    <3> QED BY <3>1, <3>2, <3>3 DEF TaskIsKept
  <2> QED BY <1>0, <2>1, <2>2, <2>3
<1>11. ASSUME exec' = [exec EXCEPT ![w][t] = [at |-> "none", retries |-> 0]],
              \/ orphans' = orphans /\ exec[w][t].at = "picked"
              \/ orphans' = orphans \cup {t},
              UNCHANGED <<row, manual, runs, told, contested>>
       PROVE  OnlyAt(w, t) /\ (t \notin contested' => TaskIsKept(t)')
  <2>2. /\ OnlyAt(w, t) /\ \A v \in Workers \ {w} : exec'[v][t] = exec[v][t]
        /\ exec'[w][t].at = "none"
    BY <1>0, <1>11 DEF OnlyAt
  <2>3. ASSUME TaskIsKept(t) PROVE TaskIsKept(t)'
    <3>1. OneHolder(t)'
      BY <1>11, <2>2, <2>3 DEF TaskIsKept, OneHolder, Holds
    <3>2. RunsArePaid(t)'
      BY <1>11, <2>2, <2>3 DEF TaskIsKept, RunsArePaid
    <3>3. TellingOrTold(t)'
      <4>1. CASE orphans' = orphans \cup {t}
        BY <4>1 DEF TellingOrTold
      <4>2. CASE orphans' = orphans /\ exec[w][t].at = "picked"
        BY <1>11, <2>2, <2>3, <4>2 DEF TaskIsKept, TellingOrTold, FromCloud
      <4> QED BY <1>11, <4>1, <4>2
    <3> QED BY <3>1, <3>2, <3>3 DEF TaskIsKept
  <2> QED BY <1>0, <1>11, <2>2, <2>3
<1>4. CASE TakeFails(w, t) \/ SetupFails(w, t)
  BY <1>4, <1>11 DEF TakeFails, SetupFails, Abandon
<1>5. CASE StartTurn(w, t)
  <2>1. /\ exec[w][t].at = "started"
        /\ \E point \in {"turn", "failing"} : exec' = [exec EXCEPT ![w][t].at = point]
        /\ runs' = [runs EXCEPT ![t] = IF @ < MaxRuns THEN @ + 1 ELSE @]
        /\ UNCHANGED <<row, manual, told, contested, orphans>>
    BY <1>5 DEF StartTurn
  <2>2. /\ OnlyAt(w, t) /\ \A v \in Workers \ {w} : exec'[v][t] = exec[v][t]
        /\ exec'[w][t].at \in {"turn", "failing"} /\ exec'[w][t].retries = exec[w][t].retries
        /\ runs'[t] \in {runs[t], runs[t] + 1}
    BY <1>0, <2>1 DEF OnlyAt, ExecPlace
  <2>3. ASSUME TaskIsKept(t) PROVE TaskIsKept(t)'
    <3>0. row[t].status = "running" /\ runs[t] <= row[t].retries
      BY <2>1, <2>3 DEF TaskIsKept, OneHolder, RunsArePaid
    <3>1. OneHolder(t)'
      BY <2>1, <2>2, <2>3, <3>0 DEF TaskIsKept, OneHolder, Holds
    <3>2. \A v \in Workers : exec'[v][t].at \notin {"marked", "started"}
      BY <2>1, <2>2, <2>3 DEF TaskIsKept, OneHolder, Holds
    <3>3. RunsArePaid(t)'
      BY <1>0, <2>1, <2>2, <2>3, <3>0, <3>2 DEF TaskIsKept, RunsArePaid
    <3>4. TellingOrTold(t)'
      BY <2>1, <3>0 DEF TellingOrTold
    <3> QED BY <3>1, <3>3, <3>4 DEF TaskIsKept
  <2> QED BY <1>0, <2>1, <2>2, <2>3
<1>6. CASE TurnEnds(w, t)
  <2>1. /\ exec[w][t].at = "turn"
        /\ \E point \in {"answered", "failing"} : exec' = [exec EXCEPT ![w][t].at = point]
        /\ UNCHANGED <<row, manual, runs, told, contested, orphans>>
    BY <1>6 DEF TurnEnds
  <2>2. /\ OnlyAt(w, t) /\ \A v \in Workers \ {w} : exec'[v][t] = exec[v][t]
        /\ exec'[w][t].at \in {"answered", "failing"} /\ exec'[w][t].retries = exec[w][t].retries
    BY <1>0, <2>1 DEF OnlyAt, ExecPlace
  <2>3. ASSUME TaskIsKept(t) PROVE TaskIsKept(t)'
    <3>1. OneHolder(t)'
      BY <2>1, <2>2, <2>3 DEF TaskIsKept, OneHolder, Holds
    <3>2. RunsArePaid(t)'
      BY <2>1, <2>2, <2>3 DEF TaskIsKept, RunsArePaid
    <3>3. row[t].status = "running"
      BY <2>1, <2>3 DEF TaskIsKept, OneHolder
    <3>4. TellingOrTold(t)'
      BY <2>1, <3>3 DEF TellingOrTold
    <3> QED BY <3>1, <3>2, <3>4 DEF TaskIsKept
  <2> QED BY <1>0, <2>1, <2>2, <2>3
<1>7. CASE Complete(w, t)
  <2>1. /\ exec[w][t].at = "answered"
        /\ \/ /\ exec' = [exec EXCEPT ![w][t].at = "telling"]
              /\ row' = [row EXCEPT ![t].status = "completed", ![t].retries = @ + 0, ![t].due = TRUE]
           \/ exec' = [exec EXCEPT ![w][t].at = "failing"] /\ row' = row
        /\ UNCHANGED <<manual, runs, told, contested, orphans>>
    BY <1>7 DEF Complete
  <2>2. /\ OnlyAt(w, t) /\ \A v \in Workers \ {w} : exec'[v][t] = exec[v][t]
        /\ exec'[w][t].retries = exec[w][t].retries /\ row'[t].retries = row[t].retries
        /\ \/ exec'[w][t].at = "telling" /\ row'[t].status = "completed"
           \/ exec'[w][t].at = "failing" /\ row' = row
    <3>1. CASE exec' = [exec EXCEPT ![w][t].at = "failing"] /\ row' = row
      BY <1>0, <2>1, <3>1 DEF OnlyAt, ExecPlace
    <3>2. CASE /\ exec' = [exec EXCEPT ![w][t].at = "telling"]
               /\ row' = [row EXCEPT ![t].status = "completed", ![t].retries = @ + 0, ![t].due = TRUE]
      BY <1>0, <2>1, <3>2 DEF OnlyAt, ExecPlace, QueueRow
    <3> QED BY <2>1, <3>1, <3>2
  <2>3. ASSUME TaskIsKept(t) PROVE TaskIsKept(t)'
    <3>0. (\A v \in Workers \ {w} : ~Holds(v, t)) /\ row[t].status = "running"
      BY <2>1, <2>3 DEF TaskIsKept, OneHolder, Holds
    <3>1. OneHolder(t)'
      BY <2>1, <2>2, <2>3, <3>0 DEF TaskIsKept, OneHolder, Holds
    <3>2. RunsArePaid(t)'
      BY <2>1, <2>2, <2>3, <3>0 DEF TaskIsKept, RunsArePaid
    <3>3. TellingOrTold(t)'
      BY <2>1, <2>2, <3>0 DEF TellingOrTold
    <3> QED BY <3>1, <3>2, <3>3 DEF TaskIsKept
  <2> QED BY <1>0, <2>1, <2>2, <2>3
<1>8. CASE Tell(w, t)
  <2>1. /\ exec[w][t].at = "telling" /\ UNCHANGED <<row, manual, runs, contested, orphans>>
        /\ \/ exec' = [exec EXCEPT ![w][t].at = "failing"]
           \/ exec' = [exec EXCEPT ![w][t] = [at |-> "none", retries |-> 0]]
        /\ \/ told' = told
           \/ told' = [told EXCEPT ![t] = @ \cup {"result"}]
    BY <1>8 DEF Tell
  <2>2. /\ OnlyAt(w, t) /\ \A v \in Workers \ {w} : exec'[v][t] = exec[v][t]
        /\ \/ exec'[w][t].at = "none"
           \/ exec'[w][t].at = "failing" /\ exec'[w][t].retries = exec[w][t].retries
        /\ told[t] \subseteq told'[t]
    <3>1. told[t] \subseteq told'[t] /\ \A u \in Tasks \ {t} : told'[u] = told[u]
      BY <1>0, <2>1
    <3>2. CASE exec' = [exec EXCEPT ![w][t].at = "failing"]
      BY <1>0, <2>1, <3>1, <3>2 DEF OnlyAt, ExecPlace
    <3>3. CASE exec' = [exec EXCEPT ![w][t] = [at |-> "none", retries |-> 0]]
      BY <1>0, <2>1, <3>1, <3>3 DEF OnlyAt
    <3> QED BY <2>1, <3>2, <3>3
  <2>3. ~FromCloud(t) \/ exec'[w][t].at = "failing" \/ "result" \in told'[t]
    BY <1>0, <1>8 DEF Tell, ExecPlace
  <2>4. ASSUME TaskIsKept(t) PROVE TaskIsKept(t)'
    <3>1. OneHolder(t)'
      BY <2>1, <2>2, <2>4 DEF TaskIsKept, OneHolder, Holds
    <3>2. RunsArePaid(t)'
      BY <2>1, <2>2, <2>4 DEF TaskIsKept, RunsArePaid
    <3>3. TellingOrTold(t)'
      BY <2>1, <2>3 DEF TellingOrTold, FromCloud
    <3> QED BY <3>1, <3>2, <3>3 DEF TaskIsKept
  <2> QED BY <1>0, <2>1, <2>2, <2>4
<1>9. CASE Retry(w, t)
  <2> SUFFICES ASSUME ~Abandon(w, t)
               PROVE  OnlyAt(w, t) /\ (t \notin contested' => TaskIsKept(t)')
    BY <1>9, <1>11 DEF Retry, Abandon
  <2>1. /\ exec[w][t].at = "failing" /\ exec[w][t].retries < MaxTaskRetries
        /\ exec' = [exec EXCEPT ![w][t] = [at |-> "none", retries |-> 0]]
        /\ row' = [row EXCEPT ![t].status = "queued", ![t].retries = @ + 1, ![t].due = FALSE]
        /\ UNCHANGED <<manual, runs, told, contested, orphans>>
    BY <1>9 DEF Retry
  <2>2. /\ OnlyAt(w, t) /\ \A v \in Workers \ {w} : exec'[v][t] = exec[v][t]
        /\ exec'[w][t].at = "none"
        /\ row'[t].status = "queued" /\ row'[t].retries = row[t].retries + 1
    BY <1>0, <2>1 DEF OnlyAt, QueueRow
  <2>3. ASSUME TaskIsKept(t) PROVE TaskIsKept(t)'
    <3>1. (\A v \in Workers \ {w} : ~Holds(v, t)) /\ exec[w][t].retries = row[t].retries
      BY <2>1, <2>3 DEF TaskIsKept, OneHolder, Holds
    <3>2. OneHolder(t)'
      BY <2>2, <3>1 DEF OneHolder, Holds
    <3>3. RunsArePaid(t)'
      BY <1>0, <2>1, <2>2, <2>3, <3>1 DEF TaskIsKept, RunsArePaid
    <3>4. TellingOrTold(t)'
      BY <2>2 DEF TellingOrTold
    <3> QED BY <3>2, <3>3, <3>4 DEF TaskIsKept
  <2> QED BY <1>0, <2>1, <2>2, <2>3
<1>10. CASE GiveUp(w, t)
  <2> SUFFICES ASSUME ~(Abandon(w, t) /\ UNCHANGED told)
               PROVE  OnlyAt(w, t) /\ (t \notin contested' => TaskIsKept(t)')
    BY <1>10, <1>11 DEF GiveUp, Abandon
  <2>1. /\ exec[w][t].at = "failing"
        /\ exec' = [exec EXCEPT ![w][t] = [at |-> "none", retries |-> 0]]
        /\ row' = [row EXCEPT ![t].status = "failed", ![t].retries = @ + 0, ![t].due = TRUE]
        /\ \/ told' = told
           \/ told' = [told EXCEPT ![t] = @ \cup {"failure"}]
        /\ UNCHANGED <<manual, runs, contested, orphans>>
    BY <1>10 DEF GiveUp
  <2>2. /\ OnlyAt(w, t) /\ \A v \in Workers \ {w} : exec'[v][t] = exec[v][t]
        /\ exec'[w][t].at = "none"
        /\ row'[t].status = "failed" /\ row'[t].retries = row[t].retries
    BY <1>0, <2>1 DEF OnlyAt, QueueRow
  <2>3. ASSUME TaskIsKept(t) PROVE TaskIsKept(t)'
    <3>1. \A v \in Workers \ {w} : ~Holds(v, t)
      BY <2>1, <2>3 DEF TaskIsKept, OneHolder, Holds
    <3>2. OneHolder(t)'
      BY <2>2, <3>1 DEF OneHolder, Holds
    <3>3. RunsArePaid(t)'
      BY <2>1, <2>2, <2>3, <3>1 DEF TaskIsKept, RunsArePaid, Holds
    <3>4. TellingOrTold(t)'
      BY <2>2 DEF TellingOrTold
    <3> QED BY <3>2, <3>3, <3>4 DEF TaskIsKept
  <2> QED BY <1>0, <2>1, <2>2, <2>3
<1> QED BY <1>1, <1>2, <1>3, <1>4, <1>5, <1>6, <1>7, <1>8, <1>9, <1>10 DEF WorkerStep

\* Steps that are not a worker's at a task: the rows of others, the operator and the ends
\* of processes.
LEMMA OthersKeepTasks ==
  ASSUME WorkerAssumption, QueueInv,
         \/ \E w \in Workers : StartWorker(w) \/ Drain(w) \/ Exit(w) \/ Crash(w)
         \/ \E w \in Workers, t \in Tasks : ReceiveTask(w, t)
         \/ \E t \in Tasks : RetryFallsDue(t) \/ AddLocal(t) \/ RetryByHand(t)
         \/ UNCHANGED taskVars
  PROVE  \A t \in Tasks : t \notin contested' => TaskIsKept(t)'
<1> USE DEF process, queue, history, SetStatus
<1>0. /\ row \in [Tasks -> QueueRow] /\ exec \in [Workers -> [Tasks -> ExecPlace]]
      /\ runs \in [Tasks -> Nat] /\ manual \in [Tasks -> Nat]
      /\ MaxTaskRetries \in Nat /\ \A t \in Tasks : row[t] \in QueueRow /\ row[t].retries \in Nat
      /\ \A t \in Tasks : t \notin contested => TaskIsKept(t)
  BY DEF QueueInv, QueueTypes, QueueRow, WorkerAssumption
<1>1. CASE UNCHANGED <<row, manual, exec, runs, told, contested, orphans>>
  BY <1>0, <1>1, TaskUntouched
<1>2. ASSUME NEW w \in Workers, Crash(w) PROVE \A t \in Tasks : t \notin contested' => TaskIsKept(t)'
  <2> SUFFICES ASSUME NEW t \in Tasks, t \notin contested PROVE TaskIsKept(t)'
    BY <1>2 DEF Crash
  <2>1. /\ exec' = [exec EXCEPT ![w] = [u \in Tasks |-> Unoccupied]]
        /\ orphans' = orphans \cup {u \in BeingRun(w) : exec[w][u].at # "picked"}
        /\ UNCHANGED <<row, manual, runs, told, contested>>
    BY <1>2 DEF Crash
  <2>2. exec'[w][t].at = "none" /\ \A v \in Workers \ {w} : exec'[v][t] = exec[v][t]
    BY <1>0, <2>1 DEF Unoccupied
  <2>3. TaskIsKept(t)
    BY <1>0
  <2>4. OneHolder(t)'
    BY <2>1, <2>2, <2>3 DEF TaskIsKept, OneHolder, Holds
  <2>5. RunsArePaid(t)'
    BY <2>1, <2>2, <2>3 DEF TaskIsKept, RunsArePaid
  <2>6. t \notin orphans' => t \notin orphans /\ exec[w][t].at \in {"none", "picked"}
    BY <2>1 DEF BeingRun
  <2>7. TellingOrTold(t)'
    BY <2>1, <2>2, <2>3, <2>6 DEF TaskIsKept, TellingOrTold, FromCloud
  <2> QED BY <2>4, <2>5, <2>7 DEF TaskIsKept
<1>3. ASSUME NEW t \in Tasks, NEW source \in {"cloud", "local"}, Enqueue(t, source),
             UNCHANGED <<exec, runs, told, contested, orphans>>
      PROVE  \A u \in Tasks : u \notin contested' => TaskIsKept(u)'
  <2>1. /\ row' = [row EXCEPT ![t] = Enqueued(t, source)] /\ UNCHANGED manual
    BY <1>3 DEF Enqueue
  <2>2. /\ \A u \in Tasks \ {t} : row'[u] = row[u]
        /\ row'[t] = Enqueued(t, source)
    BY <1>0, <2>1
  <2>3. \A u \in Tasks \ {t} : u \notin contested' => TaskIsKept(u)'
    BY <1>0, <1>3, <2>1, <2>2, TaskUntouched
  <2>4. CASE row[t].status # "absent"
    <3>1. row'[t] = row[t]
      BY <2>2, <2>4 DEF Enqueued
    <3>2. t \notin contested' => TaskIsKept(t)'
      BY <1>0, <1>3, <2>1, <3>1, TaskUntouched
    <3> QED BY <2>3, <3>2
  <2>5. CASE row[t].status = "absent"
    <3>1. row'[t].status = "queued" /\ row'[t].retries = row[t].retries
      BY <1>0, <2>2, <2>5 DEF Enqueued, QueueRow
    <3>2. ASSUME t \notin contested' PROVE TaskIsKept(t)'
      <4>1. TaskIsKept(t)
        BY <1>0, <1>3, <3>2
      <4>2. \A v \in Workers : ~Holds(v, t)
        BY <1>0, <2>5, <4>1 DEF TaskIsKept, OneHolder, Holds, ExecPlace, Points
      <4>3. OneHolder(t)'
        BY <1>3, <4>2 DEF OneHolder, Holds
      <4>4. RunsArePaid(t)'
        BY <1>3, <2>1, <2>5, <3>1, <4>1, <4>2 DEF TaskIsKept, RunsArePaid, Holds
      <4>5. TellingOrTold(t)'
        BY <3>1 DEF TellingOrTold
      <4> QED BY <4>3, <4>4, <4>5 DEF TaskIsKept
    <3> QED BY <2>3, <3>2
  <2> QED BY <2>4, <2>5
<1>4. ASSUME NEW t \in Tasks, RetryFallsDue(t) PROVE \A u \in Tasks : u \notin contested' => TaskIsKept(u)'
  <2>1. row' = [row EXCEPT ![t].due = TRUE] /\ UNCHANGED <<manual, exec, runs, told, contested, orphans>>
    BY <1>4 DEF RetryFallsDue
  <2>2. \A u \in Tasks : /\ row'[u].status = row[u].status /\ row'[u].retries = row[u].retries
                         /\ row'[u].source = row[u].source
    BY <1>0, <2>1 DEF QueueRow
  <2> SUFFICES ASSUME NEW u \in Tasks, TaskIsKept(u) PROVE TaskIsKept(u)'
    BY <1>0, <2>1
  <2>3. OneHolder(u)'
    BY <2>1, <2>2 DEF TaskIsKept, OneHolder, Holds
  <2>4. RunsArePaid(u)'
    BY <2>1, <2>2 DEF TaskIsKept, RunsArePaid
  <2>5. TellingOrTold(u)'
    BY <2>1, <2>2 DEF TaskIsKept, TellingOrTold, FromCloud
  <2> QED BY <2>3, <2>4, <2>5 DEF TaskIsKept
<1>5. ASSUME NEW t \in Tasks, RetryByHand(t) PROVE \A u \in Tasks : u \notin contested' => TaskIsKept(u)'
  <2>1. /\ row' = [row EXCEPT ![t].status = "queued", ![t].retries = @ + 1, ![t].due = TRUE]
        /\ manual' = [manual EXCEPT ![t] = @ + 1]
        /\ contested' = IF Holders(t) = {} THEN contested ELSE contested \cup {t}
        /\ orphans' = orphans \/ orphans' = orphans \ {t}
        /\ UNCHANGED <<exec, runs, told>>
    BY <1>5 DEF RetryByHand
  <2>2. /\ \A u \in Tasks \ {t} : row'[u] = row[u] /\ manual'[u] = manual[u]
        /\ row'[t].status = "queued" /\ row'[t].retries = row[t].retries + 1
        /\ manual'[t] = manual[t] + 1
    BY <1>0, <2>1 DEF QueueRow
  <2>3. \A u \in Tasks \ {t} : u \notin contested' => TaskIsKept(u)'
    BY <1>0, <2>1, <2>2, TaskUntouched
  <2>4. ASSUME t \notin contested' PROVE TaskIsKept(t)'
    <3>1. TaskIsKept(t) /\ \A v \in Workers : exec[v][t].at = "none"
      BY <1>0, <2>1, <2>4 DEF Holders
    <3>2. OneHolder(t)'
      BY <2>1, <3>1 DEF OneHolder, Holds
    <3>3. runs[t] \in Nat /\ manual[t] \in Nat
      BY <1>0
    <3>4. RunsArePaid(t)'
      BY <1>0, <2>1, <2>2, <3>1, <3>3 DEF TaskIsKept, RunsArePaid
    <3>5. TellingOrTold(t)'
      BY <2>2 DEF TellingOrTold
    <3> QED BY <3>2, <3>4, <3>5 DEF TaskIsKept
  <2> QED BY <2>3, <2>4
<1>6. ASSUME NEW w \in Workers, StartWorker(w) \/ Drain(w) \/ Exit(w)
      PROVE  \A t \in Tasks : t \notin contested' => TaskIsKept(t)'
  BY <1>1, <1>6 DEF StartWorker, Drain, Exit
<1>7. ASSUME NEW w \in Workers, NEW t \in Tasks, ReceiveTask(w, t)
      PROVE  \A u \in Tasks : u \notin contested' => TaskIsKept(u)'
  BY <1>3, <1>7 DEF ReceiveTask
<1>8. ASSUME NEW t \in Tasks, AddLocal(t) PROVE \A u \in Tasks : u \notin contested' => TaskIsKept(u)'
  BY <1>3, <1>8 DEF AddLocal
<1>9. CASE UNCHANGED taskVars
  BY <1>1, <1>9 DEF taskVars
<1> QED BY <1>2, <1>4, <1>5, <1>6, <1>7, <1>8, <1>9

LEMMA QueueStarts == ASSUME WorkerAssumption, TaskInit PROVE QueueInv
<1>1. NoRow \in QueueRow /\ Unoccupied \in ExecPlace /\ MaxTaskRetries \in Nat
  BY DEF NoRow, QueueRow, Unoccupied, ExecPlace, Points, WorkerAssumption
<1>2. QueueTypes
  BY <1>1 DEF TaskInit, QueueTypes
<1>3. ASSUME NEW t \in Tasks PROVE TaskIsKept(t)
  <2>1. /\ row[t].status = "absent" /\ row[t].retries = 0 /\ runs[t] = 0 /\ manual[t] = 0
        /\ \A w \in Workers : exec[w][t].at = "none"
    BY DEF TaskInit, NoRow, Unoccupied
  <2>2. OneHolder(t)
    BY <2>1 DEF OneHolder, Holds
  <2>3. RunsArePaid(t)
    BY <1>1, <2>1 DEF RunsArePaid
  <2>4. TellingOrTold(t)
    BY <2>1 DEF TellingOrTold
  <2> QED BY <2>2, <2>3, <2>4 DEF TaskIsKept
<1> QED BY <1>2, <1>3 DEF QueueInv

LEMMA QueueNextKeeps == ASSUME WorkerAssumption, QueueInv, [TaskNext]_taskVars PROVE QueueInv'
<1>1. QueueTypes'
  BY QueueTypesNext DEF QueueInv
<1>2. ASSUME NEW w \in Workers, NEW t \in Tasks, Pick(w, t) \/ WorkerStep(w, t)
      PROVE  \A u \in Tasks : u \notin contested' => TaskIsKept(u)'
  BY <1>2, WorkerKeepsTask, OthersUntouched
<1>3. \A u \in Tasks : u \notin contested' => TaskIsKept(u)'
  BY <1>2, OthersKeepTasks DEF TaskNext
<1> QED BY <1>1, <1>3 DEF QueueInv

-------------------------------------------------------------------------------
(* What follows from it.                                                      *)
LEMMA QueuePromises == ASSUME WorkerAssumption, QueueInv PROVE WorkIsDoneOnceAndTold
<1>1. OneExecution
  <2> SUFFICES ASSUME NEW t \in Tasks \ contested
               PROVE  Cardinality({w \in Workers : exec[w][t].at \in Executing}) <= 1
    BY DEF OneExecution
  <2> DEFINE S == {w \in Workers : exec[w][t].at \in Executing}
  <2>1. \A v, w \in S : v = w
    BY DEF QueueInv, TaskIsKept, OneHolder, Holds, Executing
  <2>2. CASE S = {}
    BY <2>2, FS_EmptySet
  <2>3. CASE S # {}
    <3>1. PICK w \in S : TRUE
      BY <2>3
    <3>2. S = {w}
      BY <2>1, <3>1
    <3> HIDE DEF S
    <3>3. Cardinality(S) = 1
      BY <3>2, FS_Singleton
    <3> QED BY <3>3 DEF S
  <2> QED BY <2>2, <2>3
<1>2. CompletedIsTold
  <2> SUFFICES ASSUME NEW t \in Tasks \ (contested \cup orphans), FromCloud(t),
                      row[t].status = "completed", Holders(t) = {}
               PROVE  "result" \in told[t]
    BY DEF CompletedIsTold
  <2>1. \A w \in Workers : exec[w][t].at = "none"
    BY DEF Holders
  <2> QED BY <2>1 DEF QueueInv, TaskIsKept, TellingOrTold
<1>3. RunsAreBounded
  <2> SUFFICES ASSUME NEW t \in Tasks \ contested PROVE runs[t] <= MaxTaskRetries + 1 + manual[t]
    BY DEF RunsAreBounded
  <2>1. runs[t] \in Nat /\ manual[t] \in Nat /\ row[t].retries \in Nat /\ MaxTaskRetries \in Nat
    BY DEF QueueInv, QueueTypes, QueueRow, WorkerAssumption
  <2>2. runs[t] <= row[t].retries + 1 /\ row[t].retries <= MaxTaskRetries + manual[t]
    BY DEF QueueInv, TaskIsKept, RunsArePaid
  <2> QED BY <2>1, <2>2
<1> QED BY <1>1, <1>2, <1>3 DEF WorkIsDoneOnceAndTold

\* A task is executed by one worker at a time, a completed one has been told to the
\* control plane, and no task is executed more often than its retries and the operator
\* allow, whatever workers crash and whichever calls fail, unless the task was contested
\* (sqlite_store.py, house_command.py).
THEOREM WorkIsDone == TaskSpec => []WorkIsDoneOnceAndTold
<1>1. TaskInit => QueueInv
  BY WorkerAssumption, QueueStarts
<1>2. QueueInv /\ [TaskNext]_taskVars => QueueInv'
  BY WorkerAssumption, QueueNextKeeps
<1>3. QueueInv => WorkIsDoneOnceAndTold
  BY WorkerAssumption, QueuePromises
<1> QED BY <1>1, <1>2, <1>3, PTL DEF TaskSpec

-------------------------------------------------------------------------------
(* The routing of messages: the inductive invariant.                          *)

\* What is queued about a user's message is for the chat it was sent in.
ForItsChat(to, about) == about \in Messages => to = Home[about]
InMessage == {i \in [chat: Places, about: Messages \cup Helpers] : ForItsChat(i.chat, i.about)}
OutMessage == {o \in [to: Places, about: Subjects, reply: BOOLEAN] : o.reply => ForItsChat(o.to, o.about)}
TurnRecord == [on: BOOLEAN, chat: Places, about: Subjects \cup {Nobody}, used: BOOLEAN]

RoutesTyped ==
  /\ inbound \in Seq(InMessage) /\ outbound \in Seq(OutMessage)
  /\ turn \in [Turns -> TurnRecord]
  /\ toolChat \in Places
  /\ helper \in [Helpers -> [at: {"none", "working", "announced"}, origin: Places]]
  /\ sending \in Seq(OutMessage) /\ Len(sending) <= 1
  /\ sent \in SUBSET Messages /\ offered \in SUBSET [to: Chats, about: Messages \cup Helpers]
  /\ silenced \in SUBSET Messages /\ failedNews \in SUBSET Helpers
  /\ crossed \in SUBSET Turns

\* A turn that goes on is about something, and the consumer's about a message of its chat;
\* the tools are those of a turn that no other has overlapped.
TurnsTyped ==
  \A t \in Turns : turn[t].on =>
     /\ turn[t].about \in Subjects
     /\ t = Bus => turn[t].about \in Messages \cup Helpers /\ ForItsChat(turn[t].chat, turn[t].about)
     /\ t # Bus => turn[t].about = t
     /\ t \notin crossed => toolChat = turn[t].chat

RoutingInv == RoutesTyped /\ TurnsTyped

LEMMA RoutingStarts == ASSUME RoutingAssumption, RoutingInit PROVE RoutingInv
<1>1. NoTurn \in TurnRecord /\ NoHelper \in [at: {"none", "working", "announced"}, origin: Places]
  BY DEF NoTurn, TurnRecord, NoHelper, Places
<1>2. inbound \in Seq(InMessage) /\ outbound \in Seq(OutMessage) /\ sending \in Seq(OutMessage) /\ Len(sending) <= 1
  BY DEF RoutingInit
<1>3. RoutesTyped
  BY <1>1, <1>2 DEF RoutingInit, RoutesTyped, Places
<1>4. TurnsTyped
  BY DEF RoutingInit, TurnsTyped, NoTurn
<1> QED BY <1>3, <1>4 DEF RoutingInv

\* A turn begins: others that go on are crossed, and so is it.
LEMMA BeginKeepsTurns ==
  ASSUME RoutingAssumption, RoutingInv, NEW t \in Turns, NEW chat \in Places, NEW about \in Subjects,
         Begin(t, chat, about),
         t = Bus => about \in Messages \cup Helpers /\ ForItsChat(chat, about),
         t # Bus => about = t
  PROVE  TurnsTyped' /\ turn' \in [Turns -> TurnRecord] /\ toolChat' \in Places /\ crossed' \in SUBSET Turns
<1>1. /\ turn' = [turn EXCEPT ![t] = [on |-> TRUE, chat |-> chat, about |-> about, used |-> FALSE]]
      /\ toolChat' = chat /\ crossed' = Crossing(t)
      /\ turn \in [Turns -> TurnRecord] /\ crossed \in SUBSET Turns
  BY DEF Begin, RoutingInv, RoutesTyped
<1>2. /\ turn'[t].on /\ turn'[t].chat = chat /\ turn'[t].about = about
      /\ \A u \in Turns \ {t} : turn'[u] = turn[u]
  BY <1>1
<1>3. \A u \in Turns \ {t} : turn[u].on => u \in crossed'
  BY <1>1 DEF Crossing
<1>4. TurnsTyped'
  BY <1>1, <1>2, <1>3 DEF RoutingInv, TurnsTyped, ForItsChat
<1>5. turn' \in [Turns -> TurnRecord]
  BY <1>1 DEF TurnRecord
<1>6. crossed' \in SUBSET Turns
  BY <1>1 DEF Crossing
<1> QED BY <1>1, <1>4, <1>5, <1>6

\* A turn ends, or uses a tool.
LEMMA TurnGoesOn ==
  ASSUME RoutingInv, NEW t \in Turns, UNCHANGED <<toolChat, crossed>>,
         turn' = [turn EXCEPT ![t].used = TRUE] \/ End(t)
  PROVE  TurnsTyped' /\ turn' \in [Turns -> TurnRecord]
<1>0. turn \in [Turns -> TurnRecord] /\ turn[t] \in TurnRecord
  BY DEF RoutingInv, RoutesTyped
<1>1. CASE turn' = [turn EXCEPT ![t].used = TRUE]
  <2>1. /\ \A u \in Turns : /\ turn'[u].on = turn[u].on /\ turn'[u].chat = turn[u].chat
                            /\ turn'[u].about = turn[u].about
        /\ turn' \in [Turns -> TurnRecord]
    BY <1>0, <1>1 DEF TurnRecord
  <2> QED BY <2>1 DEF RoutingInv, TurnsTyped
<1>2. CASE End(t)
  <2>1. NoTurn \in TurnRecord /\ Over(t) \in TurnRecord /\ ~NoTurn.on /\ ~Over(t).on
    BY <1>0 DEF NoTurn, Over, TurnRecord, Places
  <2>2. PICK r \in TurnRecord : turn' = [turn EXCEPT ![t] = r] /\ ~r.on
    BY <1>2, <2>1 DEF End
  <2>3. turn' \in [Turns -> TurnRecord] /\ ~turn'[t].on /\ \A u \in Turns \ {t} : turn'[u] = turn[u]
    BY <1>0, <2>2
  <2> QED BY <2>3 DEF RoutingInv, TurnsTyped
<1> QED BY <1>1, <1>2

\* What is published is put at the end of the queue.
LEMMA PublishTypes ==
  ASSUME RoutesTyped, NEW to \in Places, NEW about \in Subjects, NEW reply \in BOOLEAN,
         Publish(to, about, reply), reply => ForItsChat(to, about)
  PROVE  outbound' \in Seq(OutMessage)
<1>1. [to |-> to, about |-> about, reply |-> reply] \in OutMessage
  BY DEF OutMessage
<1>2. outbound \in Seq(OutMessage)
  BY DEF RoutesTyped
<1> QED BY <1>1, <1>2 DEF Publish

LEMMA TailTypes ==
  ASSUME NEW S, NEW s \in Seq(S), s # <<>>
  PROVE  Head(s) \in S /\ Tail(s) \in Seq(S)
OBVIOUS

LEMMA RoutingNextKeeps ==
  ASSUME RoutingAssumption, RoutingInv, [RoutingNext]_routingVars
  PROVE  RoutingInv'
<1> USE DEF bus, dispatch
<1>0. RoutesTyped /\ TurnsTyped /\ Bus \in Turns /\ Bus \notin Directs
  BY DEF RoutingInv, Turns, Bus, RoutingAssumption
<1>1. ASSUME NEW m \in Messages, Receive(m) PROVE RoutingInv'
  <2>1. [chat |-> Home[m], about |-> m] \in InMessage
    BY DEF InMessage, ForItsChat, Places, RoutingAssumption
  <2>2. inbound' \in Seq(InMessage)
    BY <1>0, <1>1, <2>1 DEF Receive, RoutesTyped
  <2> QED BY <1>0, <1>1, <2>2 DEF Receive, RoutesTyped, TurnsTyped, RoutingInv
<1>2. CASE DispatcherTakes
  <2>1. Head(outbound) \in OutMessage /\ outbound' \in Seq(OutMessage)
    BY <1>0, <1>2, TailTypes DEF DispatcherTakes, RoutesTyped
  <2>2. sending' \in Seq(OutMessage) /\ Len(sending') <= 1
    BY <1>2, <2>1 DEF DispatcherTakes
  <2> QED BY <1>0, <1>2, <2>1, <2>2 DEF DispatcherTakes, RoutesTyped, TurnsTyped, RoutingInv
<1>3. CASE DispatcherSends
  <2>1. sending[1] \in OutMessage
    BY <1>0, <1>3 DEF DispatcherSends, RoutesTyped
  <2>2. offered' \in SUBSET [to: Chats, about: Messages \cup Helpers]
    BY <1>0, <1>3, <2>1 DEF DispatcherSends, RoutesTyped, OutMessage, Subjects
  <2>3. sending' \in Seq(OutMessage) /\ Len(sending') <= 1
    BY <1>3 DEF DispatcherSends
  <2> QED BY <1>0, <1>3, <2>2, <2>3 DEF DispatcherSends, RoutesTyped, TurnsTyped, RoutingInv
<1>4. CASE Consume
  <2>1. Head(inbound) \in InMessage /\ inbound' \in Seq(InMessage)
    BY <1>0, <1>4, TailTypes DEF Consume, RoutesTyped
  <2>2. /\ Head(inbound).chat \in Places /\ Head(inbound).about \in Subjects
        /\ Head(inbound).about \in Messages \cup Helpers
        /\ ForItsChat(Head(inbound).chat, Head(inbound).about)
    BY <2>1 DEF InMessage, Subjects
  <2>3. Begin(Bus, Head(inbound).chat, Head(inbound).about)
    BY <1>4 DEF Consume
  <2>4. TurnsTyped' /\ turn' \in [Turns -> TurnRecord] /\ toolChat' \in Places /\ crossed' \in SUBSET Turns
    BY <1>0, <2>2, <2>3, BeginKeepsTurns
  <2> QED BY <1>0, <1>4, <2>1, <2>4 DEF Consume, RoutesTyped, RoutingInv
<1>5. ASSUME NEW d \in Directs, NEW c \in Chats \cup {Cli}, StartDirect(d, c) PROVE RoutingInv'
  <2>1. d \in Turns /\ c \in Places /\ d \in Subjects /\ d # Bus /\ Begin(d, c, d)
    BY <1>0, <1>5 DEF Turns, Places, Subjects, StartDirect
  <2>2. TurnsTyped' /\ turn' \in [Turns -> TurnRecord] /\ toolChat' \in Places /\ crossed' \in SUBSET Turns
    BY <2>1, BeginKeepsTurns
  <2> QED BY <1>0, <1>5, <2>2 DEF StartDirect, RoutesTyped, RoutingInv
<1>6. ASSUME NEW t \in Turns, MessageTool(t) PROVE RoutingInv'
  <2>1. toolChat \in Places /\ turn[t].about \in Subjects /\ Publish(toolChat, turn[t].about, FALSE)
    BY <1>0, <1>6 DEF MessageTool, RoutesTyped, TurnsTyped
  <2>2. outbound' \in Seq(OutMessage)
    BY <1>0, <2>1, PublishTypes
  <2>3. TurnsTyped' /\ turn' \in [Turns -> TurnRecord]
    BY <1>6, TurnGoesOn DEF MessageTool
  <2> QED BY <1>0, <1>6, <2>2, <2>3 DEF MessageTool, RoutesTyped, RoutingInv
<1>7. ASSUME NEW t \in Turns, NEW h \in Helpers, Spawn(t, h) PROVE RoutingInv'
  <2>1. helper' \in [Helpers -> [at: {"none", "working", "announced"}, origin: Places]]
    BY <1>0, <1>7 DEF Spawn, RoutesTyped
  <2>2. TurnsTyped' /\ turn' \in [Turns -> TurnRecord]
    BY <1>7, TurnGoesOn DEF Spawn
  <2> QED BY <1>0, <1>7, <2>1, <2>2 DEF Spawn, RoutesTyped, RoutingInv
<1>8. ASSUME NEW h \in Helpers, Announce(h) PROVE RoutingInv'
  <2>1. helper[h].origin \in Places /\ helper' \in [Helpers -> [at: {"none", "working", "announced"}, origin: Places]]
    <3>1. helper \in [Helpers -> [at: {"none", "working", "announced"}, origin: Places]]
      BY <1>0 DEF RoutesTyped
    <3>2. helper' = [helper EXCEPT ![h].at = "announced"]  BY <1>8 DEF Announce
    <3> QED BY <3>1, <3>2
  <2>2. [chat |-> helper[h].origin, about |-> h] \in InMessage
    BY <2>1 DEF InMessage, ForItsChat, RoutingAssumption
  <2>3. inbound' \in Seq(InMessage)
    BY <1>0, <1>8, <2>2 DEF Announce, RoutesTyped
  <2> QED BY <1>0, <1>8, <2>1, <2>3 DEF Announce, RoutesTyped, TurnsTyped, RoutingInv
<1>9. CASE FinishTurn
  <2>0. /\ turn[Bus].chat \in Places /\ turn[Bus].about \in Subjects
        /\ turn[Bus].about \in Messages \cup Helpers /\ ForItsChat(turn[Bus].chat, turn[Bus].about)
        /\ System \in Places
    <3>1. Bus \in Turns /\ turn[Bus].on
      BY <1>9 DEF FinishTurn, Answered, Cancelled, Failed, Turns
    <3>2. turn[Bus] \in TurnRecord
      BY <1>0, <3>1 DEF RoutesTyped
    <3> QED BY <1>0, <3>1, <3>2 DEF TurnRecord, TurnsTyped, Places
  <2>1. End(Bus) /\ UNCHANGED <<toolChat, crossed, inbound, helper, sending, offered, sent>>
    BY <1>9 DEF FinishTurn, Answered, Cancelled, Failed
  <2>2. TurnsTyped' /\ turn' \in [Turns -> TurnRecord]
    BY <1>0, <2>1, TurnGoesOn
  <2>3. outbound' \in Seq(OutMessage)
    <3>1. CASE Publish(turn[Bus].chat, turn[Bus].about, TRUE)
      BY <1>0, <2>0, <3>1, PublishTypes
    <3>2. CASE Publish(System, turn[Bus].about, TRUE) /\ turn[Bus].about \in Helpers
      <4>1. ForItsChat(System, turn[Bus].about)
        BY <3>2 DEF ForItsChat, RoutingAssumption
      <4> QED BY <1>0, <2>0, <3>2, <4>1, PublishTypes
    <3>3. CASE UNCHANGED outbound
      BY <1>0, <3>3 DEF RoutesTyped
    <3> QED BY <1>9, <3>1, <3>2, <3>3 DEF FinishTurn, Answered, Cancelled, Failed
  <2>4. silenced' \in SUBSET Messages /\ failedNews' \in SUBSET Helpers
    BY <1>0, <1>9 DEF FinishTurn, Answered, Cancelled, Failed, RoutesTyped
  <2> QED BY <1>0, <2>1, <2>2, <2>3, <2>4 DEF RoutesTyped, RoutingInv
<1>10. ASSUME NEW d \in Directs, EndDirect(d) PROVE RoutingInv'
  <2>0. d \in Turns /\ turn[d].chat \in Places /\ d \in Subjects /\ ForItsChat(turn[d].chat, d)
    BY <1>0 DEF Turns, RoutesTyped, TurnRecord, Subjects, ForItsChat, RoutingAssumption
  <2>1. outbound' \in Seq(OutMessage)
    <3>1. CASE Publish(turn[d].chat, d, TRUE)
      BY <1>0, <2>0, <3>1, PublishTypes
    <3> QED BY <1>0, <1>10, <3>1 DEF EndDirect, RoutesTyped
  <2>2. TurnsTyped' /\ turn' \in [Turns -> TurnRecord]
    BY <1>10, <2>0, TurnGoesOn DEF EndDirect
  <2> QED BY <1>0, <1>10, <2>1, <2>2 DEF EndDirect, RoutesTyped, RoutingInv
<1>11. CASE UNCHANGED routingVars
  BY <1>0, <1>11 DEF routingVars, RoutesTyped, TurnsTyped, RoutingInv
<1> QED BY <1>1, <1>2, <1>3, <1>4, <1>5, <1>6, <1>7, <1>8, <1>9, <1>10, <1>11 DEF RoutingNext, Dispatch

\* The invariant holds in every behaviour of the bus and its users.
THEOREM RoutingInvariant == RoutingSpec => []RoutingInv
<1>1. RoutingInit => RoutingInv
  BY RoutingAssumption, RoutingStarts
<1>2. RoutingInv /\ [RoutingNext]_routingVars => RoutingInv'
  BY RoutingAssumption, RoutingNextKeeps
<1> QED BY <1>1, <1>2, PTL DEF RoutingSpec

\* Queues, turns, subagents and tools hold what they are meant to (bus/queue.py,
\* agent/loop.py, agent/subagent.py).
THEOREM RoutingTypesCorrect == RoutingSpec => []RoutingTypeOK
<1>1. RoutingInv => RoutingTypeOK
  <2> SUFFICES ASSUME RoutingInv PROVE RoutingTypeOK
    OBVIOUS
  <2>1. \A k \in 1..Len(inbound) : inbound[k] \in InMessage
    BY DEF RoutingInv, RoutesTyped
  <2>2. \A k \in 1..Len(outbound) : outbound[k] \in OutMessage
    BY DEF RoutingInv, RoutesTyped
  <2> QED BY <2>1, <2>2 DEF RoutingInv, RoutesTyped, RoutingTypeOK, InMessage, OutMessage, TurnRecord
<1> QED BY <1>1, RoutingInvariant, PTL

\* The tools serve the chat of the turn that uses them unless turns overlapped, and a reply
\* to a user goes to the chat the message came from (agent/loop.py:686-698, 1127-1195).
THEOREM ToolsServeTurns == RoutingSpec => []ToolsServeTheirTurn
<1>1. RoutingInv => ToolsServeTheirTurn
  <2> SUFFICES ASSUME RoutingInv PROVE ToolsServeTheirTurn
    OBVIOUS
  <2>1. \A k \in 1..Len(outbound) : outbound[k] \in OutMessage
    BY DEF RoutingInv, RoutesTyped
  <2> QED BY <2>1 DEF RoutingInv, TurnsTyped, ToolsServeTheirTurn, OutMessage, ForItsChat
<1> QED BY <1>1, RoutingInvariant, PTL

-------------------------------------------------------------------------------
(* The models a turn tries.                                                   *)

Calls ==
  [at: {"idle", "asking", "error", "raised"}, active: Model, models: Seq(Model),
   profiles: Seq(Profiles \cup {NoProfile}), tried: SUBSET Model, skipped: SUBSET Model, round: Nat]

\* What a call has tried or skipped and what it has yet to ask are its candidates, and it
\* asks none that it skipped.
CallIsComplete(c) ==
  /\ c.at = "asking" =>
       /\ c.models # <<>>
       /\ c.profiles # <<>>
       /\ c.tried \cup c.skipped \cup Range(c.models) = Range(Candidates(c.active))
       /\ Range(c.models) \cap c.skipped = {}
  /\ c.at = "error" =>
       /\ c.tried \cup c.skipped = Range(Candidates(c.active))
       /\ c.tried \ c.skipped # {}

CallInv ==
  /\ ask \in [ModelTurns -> Calls]
  /\ \A t \in ModelTurns : CallIsComplete(ask[t])

LEMMA ElementsOf ==
  ASSUME NEW T, NEW s \in Seq(T)
  PROVE  (\A x : x \in Range(s) <=> (\E i \in 1..Len(s) : s[i] = x)) /\ Range(s) \subseteq T
<1>1. Range(s) = {s[i] : i \in DOMAIN s}  BY DEF Range
<1>2. \A x : x \in Range(s) <=> (\E i \in 1..Len(s) : s[i] = x)  BY <1>1
<1>3. Range(s) \subseteq T  BY <1>1
<1> QED  BY <1>2, <1>3

LEMMA CandidatesType ==
  ASSUME FallbackAssumption, NEW active \in Model
  PROVE  Candidates(active) \in Seq(Model) /\ Candidates(active) # <<>>
<1>1. Models \in Seq(Model) /\ Models # <<>>  BY DEF FallbackAssumption
<1>2. Tail(Models) \in Seq(Model)  BY <1>1
<1>3. PICK k : k = Kept(Tail(Models), Model \ {active})  OBVIOUS
<1>4. k \in Seq(Model)  BY <1>2, <1>3, KeptType
<1>5. <<active>> \in Seq(Model)  OBVIOUS
<1>6. <<active>> \o k \in Seq(Model) /\ Len(<<active>> \o k) = 1 + Len(k) /\ Len(k) \in Nat
  BY <1>4, <1>5
<1>7. Candidates(active) = <<active>> \o k  BY <1>3 DEF Candidates
<1> QED  BY <1>6, <1>7

LEMMA PlanType ==
  ASSUME FallbackAssumption, NEW active \in Model, NEW l
  PROVE  /\ Plan(l, active) \in Seq(Model) /\ Plan(l, active) # <<>>
         /\ Range(Plan(l, active)) \subseteq Range(Candidates(active))
<1>1. PICK c : c = Candidates(active)  OBVIOUS
<1>2. c \in Seq(Model) /\ c # <<>>  BY <1>1, CandidatesType
<1>3. PICK warm : warm = Kept(c, Model \ cooling[l])  OBVIOUS
<1>4. warm \in Seq(Model)  BY <1>2, <1>3, KeptType
<1>5. \A k \in 1..Len(warm) : \E i \in 1..Len(c) : c[i] = warm[k]
  <2>1. \A k \in 1..Len(Kept(c, Model \ cooling[l])) :
          \E i \in 1..Len(c) : c[i] = Kept(c, Model \ cooling[l])[k]
    BY <1>2, KeptElements
  <2> QED  BY <1>3, <2>1
<1>6. /\ \A x : x \in Range(warm) => (\E k \in 1..Len(warm) : warm[k] = x)
      /\ \A x : (\E i \in 1..Len(c) : c[i] = x) => x \in Range(c)
  BY <1>2, <1>4, ElementsOf
<1>7. Range(warm) \subseteq Range(c)  BY <1>5, <1>6
<1>8. Plan(l, active) = IF l \in Managers \/ warm = <<>> THEN c ELSE warm
  BY <1>1, <1>3 DEF Plan
<1> QED  BY <1>1, <1>2, <1>4, <1>7, <1>8

LEMMA KeysType ==
  ASSUME FallbackAssumption, NEW m \in Model, NEW l
  PROVE  Keys(l, m) \in Seq(Profiles \cup {NoProfile}) /\ Keys(l, m) # <<>>
<1>1. PICK all : all = ProfilesOf[m]  OBVIOUS
<1>2. all \in Seq(Profiles)  BY <1>1 DEF FallbackAssumption
<1>3. PICK usable : usable = Kept(all, Profiles \ resting[l])  OBVIOUS
<1>4. usable \in Seq(Profiles)  BY <1>2, <1>3, KeptType
<1>5. PICK k : k = IF usable = <<>> THEN all ELSE usable  OBVIOUS
<1>6. k \in Seq(Profiles)  BY <1>2, <1>4, <1>5
<1>7. k \in Seq(Profiles \cup {NoProfile}) /\ <<NoProfile>> \in Seq(Profiles \cup {NoProfile})
  BY <1>6
<1>8. /\ <<NoProfile>> \o k \in Seq(Profiles \cup {NoProfile})
      /\ Len(<<NoProfile>> \o k) = 1 + Len(k) /\ Len(k) \in Nat
  BY <1>7
<1>9. Keys(l, m) = <<NoProfile>> \o k  BY <1>1, <1>3, <1>5 DEF Keys
<1> QED  BY <1>8, <1>9

\* The sequence after its first element.
LEMMA TailOfSeq ==
  ASSUME NEW T, NEW s \in Seq(T), s # <<>>
  PROVE  /\ Head(s) \in T /\ Tail(s) \in Seq(T)
         /\ Range(s) = {Head(s)} \cup Range(Tail(s))
<1>1. PICK n \in Nat : n = Len(s) /\ n > 0  OBVIOUS
<1>2. Tail(s) \in Seq(T) /\ Len(Tail(s)) = n - 1 /\ Head(s) = s[1]  BY <1>1
<1>3. \A i \in 1..(n - 1) : Tail(s)[i] = s[i + 1]  BY <1>1
<1>4. \A i \in 2..n : i - 1 \in 1..(n - 1) /\ Tail(s)[i - 1] = s[i]  BY <1>1, <1>3
<1>5. /\ \A x : x \in Range(s) <=> (\E i \in 1..n : s[i] = x)
      /\ \A x : x \in Range(Tail(s)) <=> (\E i \in 1..(n - 1) : Tail(s)[i] = x)
  <2>1. \A x : x \in Range(s) <=> (\E i \in 1..n : s[i] = x)  BY <1>1, ElementsOf
  <2>2. PICK u : u = Tail(s)  OBVIOUS
  <2>3. \A x : x \in Range(u) <=> (\E i \in 1..(n - 1) : u[i] = x)
    <3>1. u \in Seq(T) /\ Len(u) = n - 1  BY <1>2, <2>2
    <3>2. \A x : x \in Range(u) <=> (\E i \in 1..Len(u) : u[i] = x)  BY <3>1, ElementsOf
    <3> QED  BY <3>1, <3>2
  <2> QED  BY <2>1, <2>2, <2>3
<1>6. \A i \in 1..n : i = 1 \/ i \in 2..n  BY <1>1
<1>7. \A i \in 1..(n - 1) : i + 1 \in 1..n  BY <1>1
<1>8. Range(s) = {Head(s)} \cup Range(Tail(s))
  <2>1. Range(s) \subseteq {Head(s)} \cup Range(Tail(s))  BY <1>2, <1>4, <1>5, <1>6
  <2>2. Head(s) \in Range(s)  BY <1>1, <1>2, <1>5
  <2>3. Range(Tail(s)) \subseteq Range(s)  BY <1>3, <1>5, <1>7
  <2> QED  BY <2>1, <2>2, <2>3
<1> QED  BY <1>1, <1>2, <1>8
LEMMA CallInitial ==
  ASSUME FallbackAssumption
  PROVE  Primary \in Model /\ NoCall \in Calls /\ CallIsComplete(NoCall)
<1>1. Models \in Seq(Model) /\ Len(Models) > 0  BY DEF FallbackAssumption
<1>2. Primary \in Model  BY <1>1 DEF Primary
<1>3. <<>> \in Seq(Model) /\ <<>> \in Seq(Profiles \cup {NoProfile})  OBVIOUS
<1>4. NoCall \in Calls  BY <1>2, <1>3 DEF NoCall, Calls
<1>5. CallIsComplete(NoCall)  BY DEF NoCall, CallIsComplete
<1> QED  BY <1>2, <1>4, <1>5

\* One call changes, into one that is as complete.
LEMMA OneCall ==
  ASSUME CallInv, NEW t \in ModelTurns, NEW c \in Calls, CallIsComplete(c),
         ask' = [ask EXCEPT ![t] = c]
  PROVE  CallInv'
<1>1. ask' \in [ModelTurns -> Calls]  BY DEF CallInv
<1>2. \A u \in ModelTurns : ask'[u] = IF u = t THEN c ELSE ask[u]  BY DEF CallInv
<1>3. \A u \in ModelTurns : CallIsComplete(ask'[u])  BY <1>2 DEF CallInv
<1> QED  BY <1>1, <1>3 DEF CallInv

LEMMA CallBegins ==
  ASSUME FallbackAssumption, CallInv, NEW t \in ModelTurns, Call(t)
  PROVE  CallInv'
<1>1. PICK c \in Calls : c = ask[t]  BY DEF CallInv
<1>2. PICK l : l = loopOf[t]  OBVIOUS
<1>3. PICK plan : plan = Plan(l, c.active)  OBVIOUS
<1>4. PICK keys : keys = Keys(l, plan[1])  OBVIOUS
<1>5. PICK all : all = Range(Candidates(c.active))  OBVIOUS
<1>6. c.active \in Model /\ c.round \in Nat  BY DEF Calls
<1>7. plan \in Seq(Model) /\ plan # <<>> /\ Range(plan) \subseteq all
  BY <1>3, <1>5, <1>6, PlanType
<1>8. keys \in Seq(Profiles \cup {NoProfile}) /\ keys # <<>>
  <2>1. plan[1] \in Model  BY <1>7
  <2> QED  BY <1>4, <2>1, KeysType
<1>9. all \subseteq Model
  <2>1. Candidates(c.active) \in Seq(Model)  BY <1>6, CandidatesType
  <2> QED  BY <1>5, <2>1, ElementsOf
<1>10. PICK d : d = [c EXCEPT !.at = "asking", !.models = plan, !.profiles = keys, !.tried = {},
                              !.skipped = all \ Range(plan), !.round = c.round + 1]
  OBVIOUS
<1>11. ask' = [ask EXCEPT ![t] = d]
  <2>1. ask' = [ask EXCEPT ![t] =
          [ask[t] EXCEPT !.at = "asking", !.models = Plan(loopOf[t], ask[t].active),
                    !.profiles = Keys(loopOf[t], Plan(loopOf[t], ask[t].active)[1]), !.tried = {},
                    !.skipped = Range(Candidates(ask[t].active))
                                \ Range(Plan(loopOf[t], ask[t].active)),
                    !.round = ask[t].round + 1]]
    BY DEF Call
  <2>2. Plan(loopOf[t], ask[t].active) = plan /\ Keys(loopOf[t], plan[1]) = keys
        /\ Range(Candidates(ask[t].active)) = all
    BY <1>1, <1>2, <1>3, <1>4, <1>5
  <2> QED  BY <1>1, <1>10, <2>1, <2>2
<1>12. d \in Calls
  <2>1. PICK rest \in SUBSET Model : rest = all \ Range(plan)  BY <1>9
  <2>2. PICK n \in Nat : n = c.round + 1  BY <1>6
  <2>3. d = [c EXCEPT !.at = "asking", !.models = plan, !.profiles = keys, !.tried = {},
                      !.skipped = rest, !.round = n]
    BY <1>10, <2>1, <2>2, Zenon
  <2> QED  BY <1>7, <1>8, <2>3 DEF Calls
<1>13. CallIsComplete(d)
  <2>1. /\ d.at = "asking" /\ d.models = plan /\ d.profiles = keys /\ d.tried = {}
        /\ d.skipped = all \ Range(plan) /\ d.active = c.active
    BY <1>10 DEF Calls
  <2> QED  BY <1>5, <1>7, <1>8, <2>1 DEF CallIsComplete
<1> QED  BY <1>11, <1>12, <1>13, OneCall

\* The model that answered is asked again, or the turn is over.
LEMMA UseKeeps ==
  ASSUME FallbackAssumption, CallInv, NEW t \in ModelTurns, ask[t].at = "asking", Use(t)
  PROVE  CallInv'
<1>1. PICK c \in Calls : c = ask[t]  BY DEF CallInv
<1>2. c.models \in Seq(Model) /\ c.models # <<>> /\ c.round \in Nat
  BY <1>1 DEF CallInv, CallIsComplete, Calls
<1>3. Asked(t) \in Model  BY <1>1, <1>2 DEF Asked
<1>4. NoCall \in Calls /\ CallIsComplete(NoCall)  BY CallInitial
<1>5. PICK d : d = [NoCall EXCEPT !.active = Asked(t), !.round = ask[t].round]  OBVIOUS
<1>6. d \in Calls  BY <1>1, <1>2, <1>3, <1>4, <1>5 DEF Calls
<1>7. d.at = "idle"  BY <1>4, <1>5 DEF Calls, NoCall
<1>8. CallIsComplete(d)  BY <1>7 DEF CallIsComplete
<1>9. ask' = [ask EXCEPT ![t] = d] \/ ask' = [ask EXCEPT ![t] = NoCall]  BY <1>5 DEF Use
<1> QED  BY <1>4, <1>6, <1>8, <1>9, OneCall

\* A key fails: no candidate is lost.
LEMMA MoveKeeps ==
  ASSUME FallbackAssumption, CallInv, NEW t \in ModelTurns, ask[t].at = "asking",
         ask' = [ask EXCEPT ![t] = Move(t, Tail(ask[t].profiles))]
  PROVE  CallInv'
<1>1. PICK c \in Calls : c = ask[t]  BY DEF CallInv
<1>2. /\ c.models # <<>> /\ c.profiles # <<>>
      /\ c.tried \cup c.skipped \cup Range(c.models) = Range(Candidates(c.active))
      /\ Range(c.models) \cap c.skipped = {}
      /\ c.at = "asking"
  BY <1>1 DEF CallInv, CallIsComplete
<1>3. PICK asked, others : asked = Head(c.models) /\ others = Tail(c.models)  OBVIOUS
<1>4. c.models \in Seq(Model) /\ c.tried \subseteq Model  BY DEF Calls
<1>5. asked \in Model /\ others \in Seq(Model) /\ Range(c.models) = {asked} \cup Range(others)
  BY <1>2, <1>3, <1>4, TailOfSeq
<1>6. PICK rest : rest = Tail(c.profiles)  OBVIOUS
<1>7. rest \in Seq(Profiles \cup {NoProfile})
  <2>1. c.profiles \in Seq(Profiles \cup {NoProfile})  BY DEF Calls
  <2> QED  BY <1>2, <1>6, <2>1
<1>8. CASE rest # <<>>
  <2>1. PICK d : d = [c EXCEPT !.profiles = rest]  OBVIOUS
  <2>2. d \in Calls  BY <1>7, <2>1 DEF Calls
  <2>3. /\ d.at = c.at /\ d.models = c.models /\ d.profiles = rest /\ d.tried = c.tried
        /\ d.skipped = c.skipped /\ d.active = c.active
    BY <2>1 DEF Calls
  <2>4. CallIsComplete(d)  BY <1>2, <1>8, <2>3 DEF CallIsComplete
  <2>5. ask' = [ask EXCEPT ![t] = d]  BY <1>1, <1>6, <1>8, <2>1 DEF Move
  <2> QED  BY <2>2, <2>4, <2>5, OneCall
<1>9. CASE rest = <<>> /\ others # <<>>
  <2>1. PICK keys : keys = Keys(loopOf[t], Head(others))  OBVIOUS
  <2>2. keys \in Seq(Profiles \cup {NoProfile}) /\ keys # <<>>
    <3>1. Head(others) \in Model  BY <1>5, <1>9
    <3> QED  BY <2>1, <3>1, KeysType
  <2>3. PICK d : d = [c EXCEPT !.models = others, !.tried = @ \cup {asked}, !.profiles = keys]
    OBVIOUS
  <2>4. d \in Calls  BY <1>4, <1>5, <2>2, <2>3 DEF Calls
  <2>5. /\ d.at = c.at /\ d.models = others /\ d.profiles = keys
        /\ d.tried = c.tried \cup {asked} /\ d.skipped = c.skipped /\ d.active = c.active
    BY <2>3 DEF Calls
  <2>6. CallIsComplete(d)  BY <1>2, <1>5, <1>9, <2>2, <2>5 DEF CallIsComplete
  <2>7. ask' = [ask EXCEPT ![t] = d]
    BY <1>1, <1>3, <1>6, <1>9, <2>1, <2>3 DEF Move, Asked
  <2> QED  BY <2>4, <2>6, <2>7, OneCall
<1>10. CASE rest = <<>> /\ others = <<>>
  <2>1. Range(others) = {}
    <3>1. \A x : x \in Range(others) <=> (\E i \in 1..Len(others) : others[i] = x)
      BY <1>5, ElementsOf
    <3> QED  BY <1>10, <3>1
  <2>2. PICK d : d = [c EXCEPT !.at = "error", !.models = others, !.profiles = rest,
                               !.tried = @ \cup {asked}]
    OBVIOUS
  <2>3. d \in Calls  BY <1>4, <1>5, <1>7, <2>2 DEF Calls
  <2>4. /\ d.at = "error" /\ d.tried = c.tried \cup {asked} /\ d.skipped = c.skipped
        /\ d.active = c.active
    BY <2>2 DEF Calls
  <2>5. CallIsComplete(d)  BY <1>2, <1>5, <2>1, <2>4 DEF CallIsComplete
  <2>6. ask' = [ask EXCEPT ![t] = d]
    BY <1>1, <1>3, <1>6, <1>10, <2>2 DEF Move, Asked
  <2> QED  BY <2>3, <2>5, <2>6, OneCall
<1> QED  BY <1>8, <1>9, <1>10

LEMMA CallStep ==
  ASSUME FallbackAssumption, CallInv, [FallbackNext]_fallbackVars
  PROVE  CallInv'
<1>1. NoCall \in Calls /\ CallIsComplete(NoCall)  BY CallInitial
<1>2. CASE UNCHANGED ask  BY <1>2 DEF CallInv
<1>3. ASSUME NEW t \in ModelTurns, Call(t)  PROVE CallInv'
  BY <1>3, CallBegins
<1>4. ASSUME NEW t \in ModelTurns, ModelAnswers(t) \/ AnswersCompacted(t)  PROVE CallInv'
  <2>1. ask[t].at = "asking" /\ Use(t)  BY <1>4 DEF ModelAnswers, AnswersCompacted
  <2> QED  BY <2>1, UseKeeps
<1>5. ASSUME NEW t \in ModelTurns, Fails(t)  PROVE CallInv'
  <2>1. ask[t].at = "asking" /\ ask' = [ask EXCEPT ![t] = Move(t, Tail(ask[t].profiles))]
    BY <1>5 DEF Fails
  <2> QED  BY <2>1, MoveKeeps
<1>6. ASSUME NEW t \in ModelTurns, FailsForGood(t) \/ MarkRaises(t)  PROVE CallInv'
  <2>1. PICK c \in Calls : c = ask[t]  BY DEF CallInv
  <2>2. c.at = "asking"  BY <1>6, <2>1 DEF FailsForGood, MarkRaises
  <2>3. Asked(t) \in Model
    <3>1. c.models \in Seq(Model) /\ c.models # <<>>
      BY <2>1, <2>2 DEF CallInv, CallIsComplete, Calls
    <3> QED  BY <2>1, <3>1 DEF Asked
  <2>4. PICK asked : asked = Asked(t)  OBVIOUS
  <2>5. PICK d : d = [c EXCEPT !.at = "raised", !.tried = @ \cup {asked}]  OBVIOUS
  <2>6. d \in Calls /\ d.at = "raised"  BY <2>3, <2>4, <2>5 DEF Calls
  <2>7. CallIsComplete(d)  BY <2>6 DEF CallIsComplete
  <2>8. ask' = [ask EXCEPT ![t] = d]
    <3>1. ask' = [ask EXCEPT ![t].at = "raised", ![t].tried = @ \cup {asked}]
      BY <1>6, <2>4 DEF FailsForGood, MarkRaises, Raise
    <3>2. ask \in [ModelTurns -> Calls]  BY DEF CallInv
    <3> QED  BY <2>1, <2>5, <3>1, <3>2 DEF Calls
  <2> QED  BY <2>6, <2>7, <2>8, OneCall
<1>7. ASSUME NEW t \in ModelTurns, NewTurn(t)  PROVE CallInv'
  <2>1. ask' = [ask EXCEPT ![t] = NoCall]  BY <1>7 DEF NewTurn
  <2> QED  BY <1>1, <2>1, OneCall
<1>8. CASE Reload
  <2>1. ask' = [t \in ModelTurns |-> NoCall]  BY <1>8 DEF Reload
  <2>2. ask' \in [ModelTurns -> Calls]  BY <1>1, <2>1
  <2>3. \A t \in ModelTurns : CallIsComplete(ask'[t])  BY <1>1, <2>1
  <2> QED  BY <2>2, <2>3 DEF CallInv
<1>9. ASSUME NEW l \in Loops, NEW m \in Model, ModelCools(l, m)  PROVE UNCHANGED ask
  BY <1>9 DEF ModelCools
<1>10. ASSUME NEW p \in Profiles, ProfileRests(p)  PROVE UNCHANGED ask
  BY <1>10 DEF ProfileRests
<1>11. CASE UNCHANGED fallbackVars  BY <1>2, <1>11 DEF fallbackVars
<1> QED  BY <1>2, <1>3, <1>4, <1>5, <1>6, <1>7, <1>8, <1>9, <1>10, <1>11 DEF FallbackNext

\* A turn reports a model's error only after every model it may use was asked in this call
\* or was cooling when the call began, and at least one was asked.
THEOREM ErrorsTryEverything == FallbackSpec => []ErrorTriedEverything
<1>1. FallbackAssumption /\ FallbackInit => CallInv
  <2>1. SUFFICES ASSUME FallbackAssumption, FallbackInit  PROVE CallInv  OBVIOUS
  <2>2. NoCall \in Calls /\ CallIsComplete(NoCall)  BY <2>1, CallInitial
  <2>3. ask = [t \in ModelTurns |-> NoCall]  BY <2>1 DEF FallbackInit
  <2> QED  BY <2>2, <2>3 DEF CallInv
<1>2. FallbackAssumption /\ CallInv /\ [FallbackNext]_fallbackVars => CallInv'  BY CallStep
<1>3. CallInv => ErrorTriedEverything  BY DEF CallInv, CallIsComplete, ErrorTriedEverything
<1>4. FallbackAssumption  BY FallbackAssumption
<1> QED  BY <1>1, <1>2, <1>3, <1>4, PTL DEF FallbackSpec

-------------------------------------------------------------------------------
(* The collaboration of agents.                                               *)

\* A batch lasts as long as the execution, an attempt is left to whatever has no result
\* yet, and the topics are numbered.
WorkInv ==
  /\ jobs \subseteq Jobs /\ needs \in [Jobs -> SUBSET jobs]
  /\ results \in [Jobs -> {"none", "completed", "failed", "skipped"}]
  /\ outcome \in [Jobs -> {"none", "completed", "failed"}]
  /\ attempt \in [Jobs -> 0..(MaxRetries + 1)]
  /\ \A j \in Jobs : outcome[j] = "none" => attempt[j] <= MaxRetries
  /\ batch \subseteq Remaining /\ Cardinality(batch) <= MaxConcurrent
  /\ phase \in {"idle", "decomposition", "execution", "aborted", "aggregation", "decided"}
  /\ phase # "execution" => batch = {}

TalkInv ==
  /\ talk \in {"idle", "topics", "round", "report", "reported"}
  /\ \E n \in 0..Topics : DOMAIN requires = 1..n
  /\ topic \in 1..(Topics + 1)
  /\ IsFiniteSet(discussed) /\ Cardinality(discussed) <= TalkRounds
  /\ talk \in {"idle", "topics", "round"} => Cardinality(discussed) < TalkRounds

CollabInv == WorkInv /\ TalkInv

LEMMA CollabInitial == CollaborationAssumption /\ CollabInit => CollabInv
<1> SUFFICES ASSUME CollaborationAssumption, CollabInit  PROVE CollabInv  OBVIOUS
<1>1. Cardinality({}) = 0 /\ IsFiniteSet({})  BY FS_EmptySet
<1>2. WorkInv
  BY <1>1 DEF CollabInit, WorkInv, CollaborationAssumption, Remaining
<1>3. TalkInv
  <2>1. 0 \in 0..Topics /\ 1 \in 1..(Topics + 1)  BY DEF CollaborationAssumption
  <2>2. requires = <<>>  BY DEF CollabInit
  <2>3. DOMAIN <<>> = 1..0  OBVIOUS
  <2>4. \E n \in 0..Topics : DOMAIN requires = 1..n  BY <2>1, <2>2, <2>3
  <2>5. talk = "idle" /\ topic = 1 /\ discussed = {}  BY DEF CollabInit
  <2>6. 0 < TalkRounds  BY DEF CollaborationAssumption
  <2> QED  BY <1>1, <2>1, <2>4, <2>5, <2>6 DEF TalkInv
<1> QED  BY <1>2, <1>3 DEF CollabInv

LEMMA BatchKeeps ==
  ASSUME CollaborationAssumption, WorkInv, StartBatch
  PROVE  WorkInv'
<1>1. Runnable \subseteq Remaining  BY DEF Runnable, Ready
<1>2. batch' \subseteq Remaining /\ phase = "execution"  BY <1>1 DEF StartBatch
<1>3. UNCHANGED <<phase, jobs, needs, results, attempt, outcome>>  BY DEF StartBatch
<1>4. Remaining' = Remaining  BY <1>3 DEF Remaining
<1>5. Cardinality(batch') <= MaxConcurrent
  <2>1. CASE Cardinality(batch') = MaxConcurrent  BY <2>1 DEF CollaborationAssumption
  <2>2. CASE batch' = Runnable /\ Cardinality(batch') < MaxConcurrent
    <3>1. batch' \subseteq Jobs /\ IsFiniteSet(Jobs)
      BY <1>2 DEF Remaining, WorkInv, CollaborationAssumption
    <3>2. IsFiniteSet(batch')  BY <3>1, FS_Subset
    <3>3. PICK n \in Nat : Cardinality(batch') = n  BY <3>2, FS_CardinalityType
    <3>4. MaxConcurrent \in Nat  BY DEF CollaborationAssumption
    <3> QED  BY <2>2, <3>3, <3>4
  <2> QED  BY <2>1, <2>2 DEF StartBatch
<1> QED  BY <1>2, <1>3, <1>4, <1>5 DEF WorkInv

LEMMA AttemptKeeps ==
  ASSUME CollaborationAssumption, WorkInv, NEW j \in Jobs, NoAgent(j) \/ Attempt(j)
  PROVE  WorkInv'
<1>1. /\ UNCHANGED <<phase, jobs, needs, results, batch>> /\ outcome[j] = "none"
  BY DEF NoAgent, Attempt, Running
<1>2. Remaining' = Remaining  BY <1>1 DEF Remaining
<1>3. attempt[j] \in 0..(MaxRetries + 1) /\ attempt[j] <= MaxRetries /\ MaxRetries \in Nat
  BY <1>1 DEF WorkInv, CollaborationAssumption
<1>4. CASE NoAgent(j)
  BY <1>1, <1>2, <1>4 DEF NoAgent, WorkInv
<1>5. CASE Attempt(j)
  <2>1. attempt' = [attempt EXCEPT ![j] = attempt[j] + 1]  BY <1>5 DEF Attempt, WorkInv
  <2>2. attempt' \in [Jobs -> 0..(MaxRetries + 1)]  BY <1>3, <2>1 DEF WorkInv
  <2>3. \/ outcome' \in {[outcome EXCEPT ![j] = "completed"], [outcome EXCEPT ![j] = "failed"]}
        \/ outcome' = outcome /\ attempt[j] < MaxRetries
    BY <1>5 DEF Attempt
  <2>4. outcome' \in [Jobs -> {"none", "completed", "failed"}]  BY <2>3 DEF WorkInv
  <2>5. \A i \in Jobs : outcome'[i] = "none" => attempt'[i] <= MaxRetries
    <3>1. SUFFICES ASSUME NEW i \in Jobs, outcome'[i] = "none"
                   PROVE  attempt'[i] <= MaxRetries
      OBVIOUS
    <3>2. CASE i = j
      <4>1. attempt[j] < MaxRetries  BY <2>3, <3>1, <3>2 DEF WorkInv
      <4>2. attempt'[j] = attempt[j] + 1  BY <2>1 DEF WorkInv
      <4> QED  BY <1>3, <3>2, <4>1, <4>2
    <3>3. CASE i # j
      <4>1. outcome'[i] = outcome[i] /\ attempt'[i] = attempt[i]
        BY <2>1, <2>3, <3>3 DEF WorkInv
      <4> QED  BY <3>1, <4>1 DEF WorkInv
    <3> QED  BY <3>2, <3>3
  <2> QED  BY <1>1, <1>2, <2>2, <2>4, <2>5 DEF WorkInv
<1> QED  BY <1>4, <1>5

LEMMA WorkRest ==
  ASSUME CollaborationAssumption, WorkInv,
         Decompose \/ SkipRest \/ Gather \/ Executed \/ Conclude
  PROVE  WorkInv'
<1>1. Cardinality({}) = 0  BY FS_EmptySet
<1>2. CASE Decompose
  <2>1. /\ batch = {} /\ phase' = "execution" /\ UNCHANGED <<results, batch, attempt, outcome>>
    BY <1>2 DEF Decompose, WorkInv
  <2>2. jobs' \subseteq Jobs /\ needs' \in [Jobs -> SUBSET jobs']
    BY <1>2 DEF Decompose, CollaborationAssumption
  <2> QED  BY <2>1, <2>2 DEF WorkInv, CollaborationAssumption
<1>3. CASE SkipRest
  <2>1. batch = {} /\ UNCHANGED <<phase, jobs, needs, batch, attempt, outcome>>
    BY <1>3 DEF SkipRest
  <2>2. results' \in [Jobs -> {"none", "completed", "failed", "skipped"}]
    BY <1>3 DEF SkipRest, WorkInv
  <2> QED  BY <2>1, <2>2 DEF WorkInv
<1>4. CASE Gather
  <2>1. /\ results' = [i \in Jobs |-> IF i \in batch THEN outcome[i] ELSE results[i]]
        /\ batch' = {} /\ attempt' = [i \in Jobs |-> 0] /\ outcome' = [i \in Jobs |-> "none"]
        /\ UNCHANGED <<phase, jobs, needs>>
    BY <1>4 DEF Gather
  <2>2. results' \in [Jobs -> {"none", "completed", "failed", "skipped"}]
    BY <2>1 DEF WorkInv
  <2>3. attempt' \in [Jobs -> 0..(MaxRetries + 1)] /\ \A i \in Jobs : attempt'[i] <= MaxRetries
    BY <2>1 DEF CollaborationAssumption
  <2> QED  BY <1>1, <2>1, <2>2, <2>3 DEF WorkInv, CollaborationAssumption
<1>5. CASE Executed \/ Conclude
  BY <1>5 DEF Executed, Conclude, WorkInv, Remaining
<1> QED  BY <1>2, <1>3, <1>4, <1>5

LEMMA TalkKeeps ==
  ASSUME CollaborationAssumption, TalkInv, DeliberateNext
  PROVE  TalkInv'
<1>1. CASE GenerateTopics
  <2>1. PICK n \in 0..Topics : DOMAIN requires' = 1..n  BY <1>1 DEF GenerateTopics
  <2> QED  BY <1>1, <2>1 DEF GenerateTopics, TalkInv
<1>2. ASSUME Topic  PROVE topic + 1 \in 1..(Topics + 1)
  BY <1>2 DEF Topic, TalkInv, CollaborationAssumption
<1>3. CASE SkipTopic  BY <1>2, <1>3 DEF SkipTopic, TalkInv
<1>4. CASE Discuss
  <2>1. PICK held : held = discussed \cup {topic}  OBVIOUS
  <2>2. /\ discussed' = held /\ topic' = topic + 1 /\ UNCHANGED requires /\ Topic
        /\ talk' = IF Cardinality(held) >= TalkRounds THEN "report" ELSE "round"
    BY <1>4, <2>1 DEF Discuss
  <2>3. IsFiniteSet(discussed) /\ Cardinality(discussed) < TalkRounds
    BY <1>4 DEF TalkInv, Discuss
  <2>4. Cardinality(discussed) \in Nat /\ TalkRounds \in Nat
    BY <2>3, FS_CardinalityType DEF CollaborationAssumption
  <2>5. IsFiniteSet(held) /\ Cardinality(held) \in Nat /\ Cardinality(held) <= Cardinality(discussed) + 1
    <3>1. CASE topic \in discussed
      <4>1. held = discussed  BY <2>1, <3>1
      <4> QED  BY <2>3, <2>4, <4>1
    <3>2. CASE topic \notin discussed
      <4>1. IsFiniteSet(held) /\ Cardinality(held) = Cardinality(discussed) + 1
        BY <2>1, <2>3, <3>2, FS_AddElement
      <4> QED  BY <2>4, <4>1
    <3> QED  BY <3>1, <3>2
  <2>6. Cardinality(held) <= TalkRounds  BY <2>3, <2>4, <2>5
  <2>7. talk' \in {"report", "round"} /\ (talk' = "round" => Cardinality(held) < TalkRounds)
    BY <2>2, <2>4, <2>5
  <2> QED  BY <1>2, <2>2, <2>5, <2>6, <2>7 DEF TalkInv
<1>5. CASE Report  BY <1>5 DEF Report, TalkInv
<1> QED  BY <1>1, <1>3, <1>4, <1>5 DEF DeliberateNext

LEMMA CollabStep ==
  ASSUME CollaborationAssumption, CollabInv, [CollabNext]_collabVars
  PROVE  CollabInv'
<1> USE DEF CollabInv
<1>1. UNCHANGED talkVars => TalkInv'  BY DEF talkVars, TalkInv
<1>2. UNCHANGED workVars => WorkInv'  BY DEF workVars, WorkInv, Remaining
<1>3. CASE CollabRequest
  <2>1. WorkInv'  BY <1>3 DEF CollabRequest, WorkInv, Remaining
  <2>2. TalkInv'  BY <1>3 DEF CollabRequest, TalkInv
  <2> QED  BY <2>1, <2>2
<1>4. CASE CollaborateNext
  <2>1. UNCHANGED talkVars
    BY <1>4 DEF CollaborateNext, Decompose, StartBatch, SkipRest, NoAgent, Attempt, Gather,
                Executed, Conclude
  <2>2. WorkInv'  BY <1>4, BatchKeeps, AttemptKeeps, WorkRest DEF CollaborateNext
  <2> QED  BY <1>1, <2>1, <2>2
<1>5. CASE DeliberateNext
  <2>1. UNCHANGED workVars
    BY <1>5 DEF DeliberateNext, GenerateTopics, SkipTopic, Discuss, Report
  <2> QED  BY <1>2, <1>5, <2>1, TalkKeeps
<1>6. CASE UNCHANGED collabVars  BY <1>1, <1>2, <1>6 DEF collabVars
<1> QED  BY <1>3, <1>4, <1>5, <1>6 DEF CollabNext

\* At most max_concurrent tasks run at a time, each is attempted at most max_retries + 1
\* times, no batch holds a task that has a result, and at most max_rounds topics are
\* discussed (executor.py:230-273, deliberation.py:512-560).
THEOREM CollaborationKeepsLimits == CollabSpec => []CollabTypeOK
<1>1. CollaborationAssumption /\ CollabInit => CollabInv  BY CollabInitial
<1>2. CollaborationAssumption /\ CollabInv /\ [CollabNext]_collabVars => CollabInv'  BY CollabStep
<1>3. CollabInv => CollabTypeOK  BY DEF CollabInv, WorkInv, TalkInv, CollabTypeOK
<1>4. CollaborationAssumption  BY CollaborationAssumption
<1> QED  BY <1>1, <1>2, <1>3, <1>4, PTL DEF CollabSpec

\* A result stands once it is given, and every batch that is gathered leaves fewer tasks:
\* with finitely many tasks, the execution cannot go on for ever.
ResultsStand ==
  /\ \A j \in Jobs : results[j] # "none" => results'[j] = results[j]
  /\ batch # {} /\ batch' = {} => Remaining' \subseteq Remaining /\ Remaining' # Remaining

THEOREM ExecutionShrinks == CollabSpec => [][ResultsStand]_collabVars
<1>1. CollaborationAssumption /\ CollabInit => CollabInv  BY CollabInitial
<1>2. CollaborationAssumption /\ CollabInv /\ [CollabNext]_collabVars => CollabInv'  BY CollabStep
<1>3. CollabInv /\ [CollabNext]_collabVars => [ResultsStand]_collabVars
  <2>1. SUFFICES ASSUME CollabInv, CollabNext  PROVE ResultsStand
    OBVIOUS
  <2>2. ASSUME UNCHANGED <<results, batch>>  PROVE ResultsStand
    BY <2>2 DEF ResultsStand
  <2>3. CASE CollabRequest \/ Decompose \/ Executed \/ Conclude \/ DeliberateNext
    BY <2>2, <2>3 DEF CollabRequest, Decompose, Executed, Conclude, DeliberateNext,
       GenerateTopics, SkipTopic, Discuss, Report, workVars
  <2>4. CASE StartBatch  BY <2>4 DEF StartBatch, ResultsStand
  <2>5. CASE SkipRest
    BY <2>1, <2>5 DEF SkipRest, ResultsStand, Remaining, CollabInv, WorkInv
  <2>6. ASSUME NEW j \in Jobs, NoAgent(j) \/ Attempt(j)  PROVE ResultsStand
    BY <2>2, <2>6 DEF NoAgent, Attempt
  <2>7. CASE Gather
    <3>1. /\ results' = [i \in Jobs |-> IF i \in batch THEN outcome[i] ELSE results[i]]
          /\ batch # {} /\ \A i \in batch : outcome[i] # "none" /\ UNCHANGED jobs
      BY <2>7 DEF Gather, Running
    <3>2. batch \subseteq Remaining /\ Remaining \subseteq Jobs
      BY <2>1 DEF CollabInv, WorkInv, Remaining
    <3>3. \A i \in Jobs : results[i] # "none" => results'[i] = results[i]
      BY <3>1, <3>2 DEF Remaining
    <3>4. Remaining' = Remaining \ batch
      <4>1. \A i \in jobs : i \in Jobs  BY <2>1 DEF CollabInv, WorkInv
      <4>2. \A i \in jobs : results'[i] = "none" <=> results[i] = "none" /\ i \notin batch
        BY <3>1, <4>1
      <4> QED  BY <3>1, <4>2 DEF Remaining
    <3> QED  BY <3>1, <3>2, <3>3, <3>4 DEF ResultsStand
  <2> QED  BY <2>1, <2>3, <2>4, <2>5, <2>6, <2>7 DEF CollabNext, CollaborateNext
<1>4. CollaborationAssumption  BY CollaborationAssumption
<1> QED  BY <1>1, <1>2, <1>3, <1>4, PTL DEF CollabSpec

-------------------------------------------------------------------------------
(* The types of the models' part, and the order of a call.                    *)

\* A call has yet to ask models that differ, and none that it tried.
CallAsksOnce(c) ==
  /\ c.round <= MaxRounds
  /\ c.at = "asking" => NoRepeats(c.models) /\ Range(c.models) \cap c.tried = {}

MarksInv ==
  /\ cooling \in [Loops -> SUBSET Model]
  /\ failures \in [Loops -> [Model -> 0..FloatLimit]]
  /\ resting \in [Loops -> SUBSET Profiles]
  /\ saved \subseteq Profiles
  /\ loopOf \in [ModelTurns -> Loops]

FallbackInv ==
  /\ CallInv
  /\ MarksInv
  /\ \A t \in ModelTurns : CallAsksOnce(ask[t])

\* The rest of a sequence without repetitions has none, and lacks the head.
LEMMA TailNoRepeats ==
  ASSUME NEW T, NEW s \in Seq(T), s # <<>>, NoRepeats(s)
  PROVE  NoRepeats(Tail(s)) /\ Head(s) \notin Range(Tail(s))
<1>1. PICK n \in Nat : n = Len(s) /\ n > 0  OBVIOUS
<1>2. PICK u : u = Tail(s)  OBVIOUS
<1>3. u \in Seq(T) /\ Len(u) = n - 1 /\ Head(s) = s[1]  BY <1>1, <1>2
<1>4. \A i \in 1..(n - 1) : u[i] = s[i + 1] /\ i + 1 \in 1..n  BY <1>1, <1>2
<1>5. \A i, j \in 1..n : s[i] = s[j] => i = j  BY <1>1 DEF NoRepeats
<1>6. NoRepeats(u)
  <2>1. SUFFICES ASSUME NEW i \in 1..(n - 1), NEW j \in 1..(n - 1), u[i] = u[j]
                 PROVE  i = j
    BY <1>3 DEF NoRepeats
  <2>2. i + 1 = j + 1  BY <1>4, <1>5, <2>1
  <2> QED  BY <2>2
<1>7. s[1] \notin Range(u)
  <2>1. \A x : x \in Range(u) <=> (\E i \in 1..(n - 1) : u[i] = x)
    <3>1. \A x : x \in Range(u) <=> (\E i \in 1..Len(u) : u[i] = x)  BY <1>3, ElementsOf
    <3> QED  BY <1>3, <3>1
  <2>2. SUFFICES ASSUME NEW i \in 1..(n - 1), u[i] = s[1]  PROVE FALSE
    BY <2>1
  <2>3. s[i + 1] = s[1] /\ i + 1 \in 1..n /\ 1 \in 1..n  BY <1>1, <1>4, <2>2
  <2>4. i + 1 = 1  BY <1>5, <2>3
  <2> QED  BY <2>4
<1> QED  BY <1>2, <1>3, <1>6, <1>7

\* No candidate is asked twice: the configured models differ, and the active one is left out
\* of the fallbacks.
LEMMA PlanOnce ==
  ASSUME FallbackAssumption, NEW active \in Model, NEW l
  PROVE  NoRepeats(Plan(l, active))
<1>1. Models \in Seq(Model) /\ Models # <<>> /\ NoRepeats(Models)
  <2>1. Models \in Seq(Model) /\ Models # <<>> /\ IsInjective(Models)  BY DEF FallbackAssumption
  <2>2. DOMAIN Models = 1..Len(Models)  BY <2>1
  <2> QED  BY <2>1, <2>2 DEF IsInjective, NoRepeats
<1>2. PICK rest : rest = Tail(Models)  OBVIOUS
<1>3. rest \in Seq(Model)  BY <1>1, <1>2
<1>4. NoRepeats(rest)  BY <1>1, <1>2, TailNoRepeats
<1>5. PICK k : k = Kept(rest, Model \ {active})  OBVIOUS
<1>6. k \in Seq(Model)  BY <1>3, <1>5, KeptType
<1>7. NoRepeats(k)  BY <1>3, <1>4, <1>5, KeptNoRepeats
<1>8. \A i \in 1..Len(k) : k[i] # active  BY <1>3, <1>5, KeptElements
<1>9. PICK c : c = Candidates(active)  OBVIOUS
<1>10. c = <<active>> \o k  BY <1>2, <1>5, <1>9 DEF Candidates
<1>11. c \in Seq(Model)  BY <1>9, CandidatesType
<1>12. NoRepeats(c)
  <2>1. PICK n \in Nat : n = Len(k)  BY <1>6
  <2>2. Len(c) = n + 1 /\ c[1] = active  BY <1>6, <1>10, <2>1
  <2>3. \A i \in 1..(n + 1) : i # 1 => i - 1 \in 1..n /\ c[i] = k[i - 1]  BY <1>6, <1>10, <2>1
  <2>4. SUFFICES ASSUME NEW i \in 1..(n + 1), NEW j \in 1..(n + 1), c[i] = c[j]
                 PROVE  i = j
    BY <2>2 DEF NoRepeats
  <2>5. CASE i = 1 /\ j # 1  BY <1>8, <2>1, <2>2, <2>3, <2>4, <2>5
  <2>6. CASE i # 1 /\ j = 1  BY <1>8, <2>1, <2>2, <2>3, <2>4, <2>6
  <2>7. CASE i # 1 /\ j # 1
    <3>1. k[i - 1] = k[j - 1] /\ i - 1 \in 1..n /\ j - 1 \in 1..n  BY <2>3, <2>4, <2>7
    <3>2. i - 1 = j - 1  BY <1>7, <2>1, <3>1 DEF NoRepeats
    <3> QED  BY <3>2
  <2> QED  BY <2>5, <2>6, <2>7
<1>13. PICK warm : warm = Kept(c, Model \ cooling[l])  OBVIOUS
<1>14. NoRepeats(warm)  BY <1>11, <1>12, <1>13, KeptNoRepeats
<1>15. Plan(l, active) = IF l \in Managers \/ warm = <<>> THEN c ELSE warm
  BY <1>9, <1>13 DEF Plan
<1> QED  BY <1>12, <1>14, <1>15

LEMMA OneAsked ==
  ASSUME CallInv, \A u \in ModelTurns : CallAsksOnce(ask[u]),
         NEW t \in ModelTurns, NEW d, CallAsksOnce(d), ask' = [ask EXCEPT ![t] = d]
  PROVE  \A u \in ModelTurns : CallAsksOnce(ask'[u])
<1>1. \A u \in ModelTurns : ask'[u] = IF u = t THEN d ELSE ask[u]  BY DEF CallInv
<1> QED  BY <1>1

LEMMA MoveAsksOnce ==
  ASSUME FallbackAssumption, CallInv, \A u \in ModelTurns : CallAsksOnce(ask[u]),
         NEW t \in ModelTurns, ask[t].at = "asking"
  PROVE  CallAsksOnce(Move(t, Tail(ask[t].profiles)))
<1>1. PICK c \in Calls : c = ask[t]  BY DEF CallInv
<1>2. /\ c.models # <<>> /\ c.at = "asking"
      /\ NoRepeats(c.models) /\ Range(c.models) \cap c.tried = {} /\ c.round <= MaxRounds
  BY <1>1 DEF CallInv, CallIsComplete, CallAsksOnce
<1>3. PICK asked, others : asked = Head(c.models) /\ others = Tail(c.models)  OBVIOUS
<1>4. c.models \in Seq(Model)  BY DEF Calls
<1>5. Range(c.models) = {asked} \cup Range(others)  BY <1>2, <1>3, <1>4, TailOfSeq
<1>6. NoRepeats(others) /\ asked \notin Range(others)  BY <1>2, <1>3, <1>4, TailNoRepeats
<1>7. PICK rest : rest = Tail(c.profiles)  OBVIOUS
<1>8. CASE rest # <<>>
  <2>1. PICK d : d = [c EXCEPT !.profiles = rest]  OBVIOUS
  <2>2. d.at = c.at /\ d.models = c.models /\ d.tried = c.tried /\ d.round = c.round
    BY <2>1 DEF Calls
  <2>3. CallAsksOnce(d)  BY <1>2, <2>2 DEF CallAsksOnce
  <2>4. Move(t, rest) = d  BY <1>1, <1>8, <2>1 DEF Move
  <2> QED  BY <1>1, <1>7, <2>3, <2>4
<1>9. CASE rest = <<>> /\ others # <<>>
  <2>1. PICK keys : keys = Keys(loopOf[t], Head(others))  OBVIOUS
  <2>2. PICK d : d = [c EXCEPT !.models = others, !.tried = @ \cup {asked}, !.profiles = keys]
    OBVIOUS
  <2>3. d.at = c.at /\ d.models = others /\ d.tried = c.tried \cup {asked} /\ d.round = c.round
    BY <2>2 DEF Calls
  <2>4. CallAsksOnce(d)  BY <1>2, <1>5, <1>6, <2>3 DEF CallAsksOnce
  <2>5. Move(t, rest) = d  BY <1>1, <1>3, <1>9, <2>1, <2>2 DEF Move, Asked
  <2> QED  BY <1>1, <1>7, <2>4, <2>5
<1>10. CASE rest = <<>> /\ others = <<>>
  <2>1. PICK d : d = [c EXCEPT !.at = "error", !.models = others, !.profiles = rest,
                               !.tried = @ \cup {asked}]
    OBVIOUS
  <2>2. d.at = "error" /\ d.round = c.round  BY <2>1 DEF Calls
  <2>3. CallAsksOnce(d)  BY <1>2, <2>2 DEF CallAsksOnce
  <2>4. Move(t, rest) = d  BY <1>1, <1>3, <1>10, <2>1 DEF Move, Asked
  <2> QED  BY <1>1, <1>7, <2>3, <2>4
<1> QED  BY <1>8, <1>9, <1>10

LEMMA AsksOnceStep ==
  ASSUME FallbackAssumption, CallInv, \A u \in ModelTurns : CallAsksOnce(ask[u]),
         [FallbackNext]_fallbackVars
  PROVE  \A u \in ModelTurns : CallAsksOnce(ask'[u])
<1> DEFINE Goal == \A u \in ModelTurns : CallAsksOnce(ask'[u])
<1>1. CallAsksOnce(NoCall)  BY DEF CallAsksOnce, NoCall, FallbackAssumption
<1>2. CASE UNCHANGED ask  BY <1>2
<1>3. ASSUME NEW t \in ModelTurns, Call(t)  PROVE Goal
  <2>1. PICK c \in Calls : c = ask[t]  BY DEF CallInv
  <2>2. PICK plan : plan = Plan(loopOf[t], c.active)  OBVIOUS
  <2>3. NoRepeats(plan)
    <3>1. c.active \in Model  BY DEF Calls
    <3> QED  BY <2>2, <3>1, PlanOnce
  <2>4. PICK keys, missed : /\ keys = Keys(loopOf[t], plan[1])
                            /\ missed = Range(Candidates(c.active)) \ Range(plan)
    OBVIOUS
  <2>5. PICK d : d = [c EXCEPT !.at = "asking", !.models = plan, !.profiles = keys, !.tried = {},
                               !.skipped = missed, !.round = c.round + 1]
    OBVIOUS
  <2>6. d.models = plan /\ d.tried = {} /\ d.round = c.round + 1  BY <2>5 DEF Calls
  <2>7. c.round + 1 <= MaxRounds
    <3>1. c.round < MaxRounds /\ c.round \in Nat /\ MaxRounds \in Nat
      BY <1>3, <2>1 DEF Call, Calls, FallbackAssumption
    <3> QED  BY <3>1
  <2>8. CallAsksOnce(d)  BY <2>3, <2>6, <2>7 DEF CallAsksOnce
  <2>9. ask' = [ask EXCEPT ![t] = d]
    <3>1. ask' = [ask EXCEPT ![t] =
            [ask[t] EXCEPT !.at = "asking", !.models = Plan(loopOf[t], ask[t].active),
                      !.profiles = Keys(loopOf[t], Plan(loopOf[t], ask[t].active)[1]), !.tried = {},
                      !.skipped = Range(Candidates(ask[t].active))
                                  \ Range(Plan(loopOf[t], ask[t].active)),
                      !.round = ask[t].round + 1]]
      BY <1>3 DEF Call
    <3> QED  BY <2>1, <2>2, <2>4, <2>5, <3>1
  <2> QED  BY <2>8, <2>9, OneAsked
<1>4. ASSUME NEW t \in ModelTurns, ModelAnswers(t) \/ AnswersCompacted(t)  PROVE Goal
  <2>1. PICK c \in Calls : c = ask[t]  BY DEF CallInv
  <2>2. PICK asked : asked = Asked(t)  OBVIOUS
  <2>3. PICK d : d = [NoCall EXCEPT !.active = asked, !.round = c.round]  OBVIOUS
  <2>4. d.at = "idle" /\ d.round = c.round  BY <2>3 DEF NoCall
  <2>5. CallAsksOnce(d)  BY <2>1, <2>4 DEF CallAsksOnce
  <2>6. ask' = [ask EXCEPT ![t] = d] \/ ask' = [ask EXCEPT ![t] = NoCall]
    BY <1>4, <2>1, <2>2, <2>3 DEF ModelAnswers, AnswersCompacted, Use
  <2> QED  BY <1>1, <2>5, <2>6, OneAsked
<1>5. ASSUME NEW t \in ModelTurns, Fails(t)  PROVE Goal
  <2>1. PICK d : d = Move(t, Tail(ask[t].profiles))  OBVIOUS
  <2>2. ask[t].at = "asking" /\ ask' = [ask EXCEPT ![t] = d]  BY <1>5, <2>1 DEF Fails
  <2>3. CallAsksOnce(d)  BY <2>1, <2>2, MoveAsksOnce
  <2> QED  BY <2>2, <2>3, OneAsked
<1>6. ASSUME NEW t \in ModelTurns, FailsForGood(t) \/ MarkRaises(t)  PROVE Goal
  <2>1. PICK c \in Calls : c = ask[t]  BY DEF CallInv
  <2>2. PICK asked : asked = Asked(t)  OBVIOUS
  <2>3. PICK d : d = [c EXCEPT !.at = "raised", !.tried = @ \cup {asked}]  OBVIOUS
  <2>4. d.at = "raised" /\ d.round = c.round  BY <2>3 DEF Calls
  <2>5. CallAsksOnce(d)  BY <2>1, <2>4 DEF CallAsksOnce
  <2>6. ask' = [ask EXCEPT ![t] = d]
    <3>1. ask' = [ask EXCEPT ![t].at = "raised", ![t].tried = @ \cup {asked}]
      BY <1>6, <2>2 DEF FailsForGood, MarkRaises, Raise
    <3>2. ask \in [ModelTurns -> Calls]  BY DEF CallInv
    <3> QED  BY <2>1, <2>3, <3>1, <3>2 DEF Calls
  <2> QED  BY <2>5, <2>6, OneAsked
<1>7. ASSUME NEW t \in ModelTurns, NewTurn(t)  PROVE Goal
  <2>1. ask' = [ask EXCEPT ![t] = NoCall]  BY <1>7 DEF NewTurn
  <2> QED  BY <1>1, <2>1, OneAsked
<1>8. CASE Reload
  <2>1. ask' = [t \in ModelTurns |-> NoCall]  BY <1>8 DEF Reload
  <2> QED  BY <1>1, <2>1
<1>9. ASSUME NEW l \in Loops, NEW m \in Model, ModelCools(l, m)  PROVE UNCHANGED ask
  BY <1>9 DEF ModelCools
<1>10. ASSUME NEW p \in Profiles, ProfileRests(p)  PROVE UNCHANGED ask
  BY <1>10 DEF ProfileRests
<1>11. CASE UNCHANGED fallbackVars  BY <1>2, <1>11 DEF fallbackVars
<1> QED  BY <1>2, <1>3, <1>4, <1>5, <1>6, <1>7, <1>8, <1>9, <1>10, <1>11 DEF FallbackNext

\* The marks of models and profiles.
LEMMA MarksStep ==
  ASSUME FallbackAssumption, CallInv, MarksInv, [FallbackNext]_fallbackVars
  PROVE  MarksInv'
<1>1. ASSUME NEW t \in ModelTurns, ask[t].at = "asking"
      PROVE  Asked(t) \in Model /\ Key(t) \in Profiles \cup {NoProfile} /\ loopOf[t] \in Loops
  <2>1. PICK c \in Calls : c = ask[t]  BY DEF CallInv
  <2>2. c.models # <<>> /\ c.profiles # <<>>  BY <1>1, <2>1 DEF CallInv, CallIsComplete
  <2>3. c.models \in Seq(Model) /\ c.profiles \in Seq(Profiles \cup {NoProfile})  BY DEF Calls
  <2>4. Head(c.models) \in Model  BY <2>2, <2>3
  <2>5. Head(c.profiles) \in Profiles \cup {NoProfile}  BY <2>2, <2>3
  <2> QED  BY <2>1, <2>4, <2>5 DEF Asked, Key, MarksInv
<1>2. 0 \in 0..FloatLimit /\ FloatLimit \in Nat  BY DEF FallbackAssumption
<1>3. ASSUME NEW l \in Loops, NEW m \in Model, Count(l, m)
      PROVE  failures' \in [Loops -> [Model -> 0..FloatLimit]]
  <2>1. PICK n \in 0..FloatLimit : n = failures[l][m]  BY DEF MarksInv
  <2>2. PICK k : k = IF n < FloatLimit THEN n + 1 ELSE n  OBVIOUS
  <2>3. k \in 0..FloatLimit  BY <1>2, <2>2
  <2>4. failures' = [failures EXCEPT ![l][m] = k]  BY <1>3, <2>1, <2>2 DEF Count, MarksInv
  <2> QED  BY <2>3, <2>4 DEF MarksInv
<1>4. ASSUME NEW t \in ModelTurns, ask[t].at = "asking", MarkProfile(t)
      PROVE  resting' \in [Loops -> SUBSET Profiles] /\ saved' \subseteq Profiles
  <2>1. CASE Key(t) = NoProfile  BY <1>4, <2>1 DEF MarkProfile, MarksInv
  <2>2. CASE Key(t) # NoProfile
    <3>1. Key(t) \in Profiles /\ loopOf[t] \in Loops  BY <1>1, <1>4, <2>2
    <3>2. resting' = [resting EXCEPT ![loopOf[t]] = @ \cup {Key(t)}] /\ saved' = resting'[loopOf[t]]
      BY <1>4, <2>2 DEF MarkProfile
    <3>3. resting' \in [Loops -> SUBSET Profiles]  BY <3>1, <3>2 DEF MarksInv
    <3> QED  BY <3>1, <3>2, <3>3
  <2> QED  BY <2>1, <2>2
<1>5. ASSUME NEW t \in ModelTurns, ModelAnswers(t)  PROVE MarksInv'
  <2>1. ask[t].at = "asking" /\ loopOf' = loopOf  BY <1>5 DEF ModelAnswers
  <2>2. Asked(t) \in Model /\ loopOf[t] \in Loops  BY <1>1, <2>1
  <2>3. \/ UNCHANGED <<resting, saved>>
        \/ /\ resting' = [resting EXCEPT ![loopOf[t]] = @ \ {Key(t)}]
           /\ saved' = resting'[loopOf[t]]
    BY <1>5 DEF ModelAnswers
  <2>4. resting' \in [Loops -> SUBSET Profiles]  BY <2>2, <2>3 DEF MarksInv
  <2>5. saved' \subseteq Profiles  BY <2>2, <2>3, <2>4 DEF MarksInv
  <2>6. \/ UNCHANGED <<cooling, failures>>
        \/ /\ cooling' = [cooling EXCEPT ![loopOf[t]] = @ \ {Asked(t)}]
           /\ failures' = [failures EXCEPT ![loopOf[t]][Asked(t)] = 0]
    BY <1>5 DEF ModelAnswers
  <2>7. PICK l \in Loops, m \in Model : l = loopOf[t] /\ m = Asked(t)  BY <2>2
  <2>8. cooling' \in [Loops -> SUBSET Model]
    <3>1. cooling \in [Loops -> SUBSET Model]  BY DEF MarksInv
    <3>2. [cooling EXCEPT ![l] = @ \ {m}] \in [Loops -> SUBSET Model]  BY <3>1
    <3>3. cooling' = cooling \/ cooling' = [cooling EXCEPT ![l] = @ \ {m}]  BY <2>6, <2>7
    <3> QED  BY <3>1, <3>2, <3>3
  <2>9. failures' \in [Loops -> [Model -> 0..FloatLimit]]
    <3>1. failures \in [Loops -> [Model -> 0..FloatLimit]]  BY DEF MarksInv
    <3>2. PICK k \in 0..FloatLimit : k = 0  BY <1>2
    <3>3. [failures EXCEPT ![l][m] = k] \in [Loops -> [Model -> 0..FloatLimit]]  BY <3>1
    <3>4. failures' = failures \/ failures' = [failures EXCEPT ![l][m] = k]
      BY <2>6, <2>7, <3>2
    <3> QED  BY <3>1, <3>3, <3>4
  <2> QED  BY <2>1, <2>4, <2>5, <2>8, <2>9 DEF MarksInv
<1>6. ASSUME NEW t \in ModelTurns, Fails(t)  PROVE MarksInv'
  <2>1. ask[t].at = "asking" /\ loopOf' = loopOf /\ MarkProfile(t) /\ MarkModel(t)
    BY <1>6 DEF Fails
  <2>2. Asked(t) \in Model /\ loopOf[t] \in Loops  BY <1>1, <2>1
  <2>3. resting' \in [Loops -> SUBSET Profiles] /\ saved' \subseteq Profiles  BY <1>4, <2>1
  <2>4. CASE UNCHANGED <<cooling, failures>>  BY <2>1, <2>3, <2>4 DEF MarksInv
  <2>5. CASE /\ cooling' = [cooling EXCEPT ![loopOf[t]] = @ \cup {Asked(t)}]
             /\ Count(loopOf[t], Asked(t))
    <3>1. cooling' \in [Loops -> SUBSET Model]  BY <2>2, <2>5 DEF MarksInv
    <3>2. failures' \in [Loops -> [Model -> 0..FloatLimit]]  BY <1>3, <2>2, <2>5
    <3> QED  BY <2>1, <2>3, <3>1, <3>2 DEF MarksInv
  <2> QED  BY <2>1, <2>4, <2>5 DEF MarkModel
<1>7. ASSUME NEW t \in ModelTurns, FailsForGood(t)  PROVE MarksInv'
  <2>1. /\ ask[t].at = "asking" /\ UNCHANGED <<cooling, loopOf>>
        /\ MarkProfile(t) /\ Count(loopOf[t], Asked(t))
    BY <1>7 DEF FailsForGood
  <2>2. Asked(t) \in Model /\ loopOf[t] \in Loops  BY <1>1, <2>1
  <2>3. resting' \in [Loops -> SUBSET Profiles] /\ saved' \subseteq Profiles  BY <1>4, <2>1
  <2>4. failures' \in [Loops -> [Model -> 0..FloatLimit]]  BY <1>3, <2>1, <2>2
  <2> QED  BY <2>1, <2>3, <2>4 DEF MarksInv
<1>13. ASSUME NEW t \in ModelTurns, MarkRaises(t)  PROVE MarksInv'
  <2>1. ask[t].at = "asking" /\ UNCHANGED <<cooling, failures, saved, loopOf>>
    BY <1>13 DEF MarkRaises
  <2>2. PICK now \in {resting[loopOf[t]], resting[loopOf[t]] \cup {Key(t)}, resting[loopOf[t]] \ {Key(t)}} :
          resting' = [resting EXCEPT ![loopOf[t]] = now]
    BY <1>13 DEF MarkRaises
  <2>3. Key(t) \in Profiles /\ loopOf[t] \in Loops  BY <1>1, <1>13, <2>1 DEF MarkRaises
  <2>4. resting' \in [Loops -> SUBSET Profiles]  BY <2>2, <2>3 DEF MarksInv
  <2> QED  BY <2>1, <2>4 DEF MarksInv
<1>8. ASSUME NEW t \in ModelTurns, Call(t) \/ AnswersCompacted(t) \/ NewTurn(t)  PROVE MarksInv'
  BY <1>8 DEF Call, AnswersCompacted, NewTurn, MarksInv
<1>9. ASSUME NEW l \in Loops, NEW m \in Model, ModelCools(l, m)  PROVE MarksInv'
  BY <1>9 DEF ModelCools, MarksInv
<1>10. ASSUME NEW p \in Profiles, ProfileRests(p)  PROVE MarksInv'
  BY <1>10 DEF ProfileRests, MarksInv
<1>11. CASE Reload
  <2>1. /\ cooling' = [l \in Loops |-> {}] /\ resting' = [l \in Loops |-> saved]
        /\ failures' = [l \in Loops |-> [m \in Model |-> 0]] /\ UNCHANGED <<saved, loopOf>>
    BY <1>11 DEF Reload
  <2> QED  BY <1>2, <2>1 DEF MarksInv
<1>12. CASE UNCHANGED fallbackVars  BY <1>12 DEF fallbackVars, MarksInv
<1> QED  BY <1>5, <1>6, <1>7, <1>8, <1>9, <1>10, <1>11, <1>12, <1>13 DEF FallbackNext

LEMMA FallbackStarts ==
  ASSUME FallbackAssumption, FallbackInit
  PROVE  FallbackInv
<1>1. NoCall \in Calls /\ CallIsComplete(NoCall)  BY CallInitial
<1>2. ask = [t \in ModelTurns |-> NoCall]  BY DEF FallbackInit
<1>3. CallInv  BY <1>1, <1>2 DEF CallInv
<1>4. CallAsksOnce(NoCall)  BY DEF CallAsksOnce, NoCall, FallbackAssumption
<1>5. \A t \in ModelTurns : CallAsksOnce(ask[t])  BY <1>2, <1>4
<1>6. 0 \in 0..FloatLimit  BY DEF FallbackAssumption
<1>7. MarksInv  BY <1>6 DEF FallbackInit, MarksInv
<1> QED  BY <1>3, <1>5, <1>7 DEF FallbackInv

\* A call never asks a model it already tried or skipped, a turn calls at most MaxRounds
\* times, and the failures counted stay below the count whose cooldown overflows
\* (agent/loop.py:248-341).
THEOREM CallsAskOnce == FallbackSpec => []FallbackTypeOK
<1>1. FallbackAssumption /\ FallbackInit => FallbackInv  BY FallbackStarts
<1>2. FallbackAssumption /\ FallbackInv /\ [FallbackNext]_fallbackVars => FallbackInv'
  <2>1. SUFFICES ASSUME FallbackAssumption, FallbackInv, [FallbackNext]_fallbackVars
                 PROVE  FallbackInv'
    OBVIOUS
  <2>2. CallInv /\ MarksInv /\ \A t \in ModelTurns : CallAsksOnce(ask[t])
    BY <2>1 DEF FallbackInv
  <2>3. CallInv'  BY <2>1, <2>2, CallStep
  <2>4. MarksInv'  BY <2>1, <2>2, MarksStep
  <2>5. \A t \in ModelTurns : CallAsksOnce(ask'[t])  BY <2>1, <2>2, AsksOnceStep
  <2> QED  BY <2>3, <2>4, <2>5 DEF FallbackInv
<1>3. FallbackAssumption /\ FallbackInv => FallbackTypeOK
  <2>1. SUFFICES ASSUME FallbackAssumption, FallbackInv  PROVE FallbackTypeOK
    OBVIOUS
  <2>2. ASSUME NEW t \in ModelTurns
        PROVE  /\ ask[t].at \in {"idle", "asking", "error", "raised"}
               /\ ask[t].at = "asking" => ask[t].models # <<>> /\ ask[t].profiles # <<>>
               /\ ask[t].at = "asking" => Asked(t) \notin ask[t].tried \cup ask[t].skipped
               /\ ask[t].round \in 0..MaxRounds
    <3>1. PICK c \in Calls : c = ask[t]  BY <2>1 DEF FallbackInv, CallInv
    <3>2. CallIsComplete(c) /\ CallAsksOnce(c)  BY <2>1, <3>1 DEF FallbackInv, CallInv
    <3>3. c.round \in 0..MaxRounds
      <4>1. c.round \in Nat /\ MaxRounds \in Nat  BY <2>1 DEF Calls, FallbackAssumption
      <4> QED  BY <3>2, <4>1 DEF CallAsksOnce
    <3>4. ASSUME c.at = "asking"
          PROVE  c.models # <<>> /\ c.profiles # <<>> /\ Head(c.models) \notin c.tried \cup c.skipped
      <4>1. /\ c.models # <<>> /\ c.profiles # <<>>
            /\ Range(c.models) \cap c.skipped = {} /\ Range(c.models) \cap c.tried = {}
        BY <3>2, <3>4 DEF CallIsComplete, CallAsksOnce
      <4>2. c.models \in Seq(Model)  BY DEF Calls
      <4>3. Head(c.models) \in Range(c.models)  BY <4>1, <4>2, TailOfSeq
      <4> QED  BY <4>1, <4>3
    <3>5. c.at \in {"idle", "asking", "error", "raised"}  BY DEF Calls
    <3> QED  BY <3>1, <3>3, <3>4, <3>5 DEF Asked
  <2> QED  BY <2>1, <2>2 DEF FallbackInv, MarksInv, FallbackTypeOK
<1>4. FallbackAssumption  BY FallbackAssumption
<1> QED  BY <1>1, <1>2, <1>3, <1>4, PTL DEF FallbackSpec

-------------------------------------------------------------------------------
(* How far a retry_count can go.                                              *)

\* The workers that read the retry_count of t while it left a retry, and can still add one.
Reading == {"started", "turn", "answered", "telling", "failing"}
CanRetry(t) == {w \in Workers : exec[w][t].at \in Reading /\ exec[w][t].retries < MaxTaskRetries}

\* Whoever reads a retry_count that leaves a retry adds one to a number below the limit: the
\* count and those who can still add to it stay together below the limit, the retries by
\* hand and the number of workers.
RetriesSpared(t) ==
  row[t].retries + Cardinality(CanRetry(t)) <= MaxTaskRetries + manual[t] + Cardinality(Workers)

LimitsInv ==
  /\ up \in [Workers -> {"up", "draining", "down"}]
  /\ starts \in 0..MaxStarts
  /\ \A t \in Tasks : runs[t] <= MaxRuns /\ manual[t] <= MaxManual /\ RetriesSpared(t)
  /\ contested \subseteq Tasks /\ orphans \subseteq Tasks

LEMMA RetriersFinite ==
  ASSUME WorkerAssumption, NEW S \in SUBSET Workers
  PROVE  /\ IsFiniteSet(S) /\ Cardinality(S) \in Nat /\ Cardinality(Workers) \in Nat
         /\ Cardinality(S) <= Cardinality(Workers)
<1>1. IsFiniteSet(Workers)  BY DEF WorkerAssumption
<1>2. IsFiniteSet(S) /\ Cardinality(S) <= Cardinality(Workers)  BY <1>1, FS_Subset
<1> QED  BY <1>1, <1>2, FS_CardinalityType

\* A step that adds nobody who can retry, nor a retry.
LEMMA SparedKept ==
  ASSUME WorkerAssumption, QueueTypes, NEW t \in Tasks, RetriesSpared(t),
         row'[t].retries = row[t].retries, manual'[t] = manual[t],
         CanRetry(t)' \subseteq CanRetry(t)
  PROVE  RetriesSpared(t)'
<1>1. PICK S \in SUBSET Workers, U \in SUBSET Workers : S = CanRetry(t) /\ U = CanRetry(t)'
  BY DEF CanRetry
<1>2. IsFiniteSet(S)  BY RetriersFinite
<1>3. Cardinality(U) <= Cardinality(S)  BY <1>1, <1>2, FS_Subset
<1>4. PICK k \in Nat, b \in Nat, c \in Nat :
        k = Cardinality(S) /\ b = Cardinality(U) /\ c = Cardinality(Workers)
  BY RetriersFinite
<1>5. PICK n \in Nat, m \in Nat, x \in Nat :
        n = row[t].retries /\ m = manual[t] /\ x = MaxTaskRetries
  BY DEF QueueTypes, QueueRow, WorkerAssumption
<1>6. n + k <= x + m + c  BY <1>1, <1>4, <1>5 DEF RetriesSpared
<1>7. n + b <= x + m + c  BY <1>3, <1>4, <1>6
<1> QED  BY <1>1, <1>4, <1>5, <1>7 DEF RetriesSpared

\* A worker moves on with the retry_count it has read, or leaves.
LEMMA SameRetriers ==
  ASSUME QueueTypes, NEW w \in Workers, NEW t \in Tasks, NEW u \in Tasks,
         \/ \E point \in Points : /\ exec' = [exec EXCEPT ![w][t].at = point]
                                  /\ point \in Reading => exec[w][t].at \in Reading
         \/ exec' = [exec EXCEPT ![w][t] = Unoccupied]
  PROVE  CanRetry(u)' \subseteq CanRetry(u)
<1>1. exec \in [Workers -> [Tasks -> ExecPlace]]  BY DEF QueueTypes
<1>2. \A v \in Workers : v # w \/ u # t => exec'[v][u] = exec[v][u]  BY <1>1
<1>3. exec'[w][t].at \in Reading =>
        exec[w][t].at \in Reading /\ exec'[w][t].retries = exec[w][t].retries
  <2>1. PICK e \in ExecPlace : e = exec[w][t]  BY <1>1
  <2>2. ASSUME NEW point \in Points, exec' = [exec EXCEPT ![w][t].at = point]
        PROVE  exec'[w][t].at = point /\ exec'[w][t].retries = e.retries
    BY <1>1, <2>1, <2>2 DEF ExecPlace
  <2>3. exec' = [exec EXCEPT ![w][t] = Unoccupied] => exec'[w][t].at = "none"
    BY <1>1 DEF Unoccupied
  <2> QED  BY <2>1, <2>2, <2>3 DEF Reading
<1> QED  BY <1>2, <1>3 DEF CanRetry

LEMMA TakeSpares ==
  ASSUME WorkerAssumption, QueueTypes, NEW w \in Workers, NEW t \in Tasks, NEW u \in Tasks,
         Take(w, t), RetriesSpared(u)
  PROVE  RetriesSpared(u)'
<1>1. exec \in [Workers -> [Tasks -> ExecPlace]] /\ UNCHANGED <<row, manual>>
  BY DEF QueueTypes, Take, queue
<1>2. exec' = [exec EXCEPT ![w][t] = [at |-> "started", retries |-> row[t].retries]]
  BY DEF Take
<1>3. \A v \in Workers : v # w \/ u # t => exec'[v][u] = exec[v][u]  BY <1>1, <1>2
<1>4. CASE u # t
  <2>1. CanRetry(u)' \subseteq CanRetry(u)  BY <1>3, <1>4 DEF CanRetry
  <2> QED  BY <1>1, <2>1, SparedKept
<1>5. CASE u = t
  <2>1. exec'[w][u].retries = row[u].retries  BY <1>1, <1>2, <1>5
  <2>2. CASE row[u].retries < MaxTaskRetries
    <3>1. PICK U \in SUBSET Workers : U = CanRetry(u)'  BY DEF CanRetry
    <3>2. PICK b \in Nat, c \in Nat : b = Cardinality(U) /\ c = Cardinality(Workers) /\ b <= c
      BY RetriersFinite
    <3>3. PICK n \in Nat, m \in Nat, x \in Nat :
            n = row[u].retries /\ m = manual[u] /\ x = MaxTaskRetries
      BY DEF QueueTypes, QueueRow, WorkerAssumption
    <3>4. n + b <= x + m + c  BY <2>2, <3>2, <3>3
    <3> QED  BY <1>1, <3>1, <3>2, <3>3, <3>4 DEF RetriesSpared
  <2>3. CASE ~(row[u].retries < MaxTaskRetries)
    <3>1. CanRetry(u)' \subseteq CanRetry(u)  BY <1>3, <2>1, <2>3 DEF CanRetry
    <3> QED  BY <1>1, <3>1, SparedKept
  <2> QED  BY <2>2, <2>3
<1> QED  BY <1>4, <1>5

\* An exception that nothing catches takes a retrier away and adds nothing.
LEMMA AbandonSpares ==
  ASSUME WorkerAssumption, QueueTypes, NEW w \in Workers, NEW t \in Tasks, NEW u \in Tasks,
         Abandon(w, t), RetriesSpared(u)
  PROVE  RetriesSpared(u)'
<1>1. exec' = [exec EXCEPT ![w][t] = Unoccupied] /\ UNCHANGED <<row, manual>>
  BY DEF Abandon, Leave, queue
<1>2. CanRetry(u)' \subseteq CanRetry(u)  BY <1>1, SameRetriers
<1> QED  BY <1>1, <1>2, SparedKept

LEMMA RetrySpares ==
  ASSUME WorkerAssumption, QueueTypes, NEW w \in Workers, NEW t \in Tasks, NEW u \in Tasks,
         Retry(w, t), RetriesSpared(u)
  PROVE  RetriesSpared(u)'
<1> SUFFICES ASSUME ~Abandon(w, t)  PROVE RetriesSpared(u)'
  BY AbandonSpares
<1>1. /\ row \in [Tasks -> QueueRow] /\ exec \in [Workers -> [Tasks -> ExecPlace]]
      /\ manual' = manual
  BY DEF QueueTypes, Retry
<1>2. /\ exec[w][t].at = "failing" /\ exec[w][t].retries < MaxTaskRetries
      /\ exec' = [exec EXCEPT ![w][t] = Unoccupied]
      /\ row' = [row EXCEPT ![t].status = "queued", ![t].retries = @ + 1, ![t].due = FALSE]
  BY DEF Retry, Leave, SetStatus
<1>3. CanRetry(u)' \subseteq CanRetry(u)  BY <1>2, SameRetriers
<1>4. CASE u # t
  <2>1. row'[u] = row[u]  BY <1>1, <1>2, <1>4
  <2> QED  BY <1>1, <1>3, <2>1, SparedKept
<1>5. CASE u = t
  <2>1. row'[u].retries = row[u].retries + 1  BY <1>1, <1>2, <1>5 DEF QueueRow
  <2>2. PICK S \in SUBSET Workers, U \in SUBSET Workers : S = CanRetry(u) /\ U = CanRetry(u)'
    BY DEF CanRetry
  <2>3. w \in S  BY <1>2, <1>5, <2>2 DEF CanRetry, Reading
  <2>4. w \notin U
    <3>1. exec'[w][u].at = "none"  BY <1>1, <1>2, <1>5 DEF Unoccupied
    <3> QED  BY <2>2, <3>1 DEF CanRetry, Reading
  <2>5. U \subseteq S \ {w}  BY <1>3, <2>2, <2>4
  <2>6. IsFiniteSet(S) /\ IsFiniteSet(S \ {w})  BY RetriersFinite
  <2>7. Cardinality(S \ {w}) = Cardinality(S) - 1  BY <2>3, <2>6, FS_RemoveElement
  <2>8. Cardinality(U) <= Cardinality(S \ {w})  BY <2>5, <2>6, FS_Subset
  <2>9. PICK k \in Nat, b \in Nat, c \in Nat :
          k = Cardinality(S) /\ b = Cardinality(U) /\ c = Cardinality(Workers)
    BY RetriersFinite
  <2>10. PICK n \in Nat, m \in Nat, x \in Nat :
           n = row[u].retries /\ m = manual[u] /\ x = MaxTaskRetries
    BY DEF QueueTypes, QueueRow, WorkerAssumption
  <2>11. n + k <= x + m + c  BY <2>2, <2>9, <2>10 DEF RetriesSpared
  <2>12. b <= k - 1  BY <2>7, <2>8, <2>9
  <2>13. n + 1 + b <= x + m + c  BY <2>11, <2>12
  <2> QED  BY <1>1, <2>1, <2>2, <2>9, <2>10, <2>13 DEF RetriesSpared
<1> QED  BY <1>4, <1>5

LEMMA ByHandSpares ==
  ASSUME WorkerAssumption, QueueTypes, NEW t \in Tasks, NEW u \in Tasks,
         RetryByHand(t), RetriesSpared(u)
  PROVE  RetriesSpared(u)'
<1>1. /\ row \in [Tasks -> QueueRow] /\ manual \in [Tasks -> Nat] /\ UNCHANGED exec
  BY DEF QueueTypes, RetryByHand
<1>2. /\ row' = [row EXCEPT ![t].status = "queued", ![t].retries = @ + 1, ![t].due = TRUE]
      /\ manual' = [manual EXCEPT ![t] = @ + 1]
  BY DEF RetryByHand, SetStatus
<1>3. CanRetry(u)' = CanRetry(u)  BY <1>1 DEF CanRetry
<1>4. CASE u # t
  <2>1. row'[u] = row[u] /\ manual'[u] = manual[u]  BY <1>1, <1>2, <1>4
  <2> QED  BY <1>3, <2>1, SparedKept
<1>5. CASE u = t
  <2>1. row'[u].retries = row[u].retries + 1 /\ manual'[u] = manual[u] + 1
    BY <1>1, <1>2, <1>5 DEF QueueRow
  <2>2. PICK S \in SUBSET Workers : S = CanRetry(u)  BY DEF CanRetry
  <2>3. PICK k \in Nat, c \in Nat : k = Cardinality(S) /\ c = Cardinality(Workers)
    BY RetriersFinite
  <2>4. PICK n \in Nat, m \in Nat, x \in Nat :
          n = row[u].retries /\ m = manual[u] /\ x = MaxTaskRetries
    BY DEF QueueTypes, QueueRow, WorkerAssumption
  <2>5. n + k <= x + m + c  BY <2>2, <2>3, <2>4 DEF RetriesSpared
  <2>6. (n + 1) + k <= x + (m + 1) + c  BY <2>5
  <2> QED  BY <1>3, <2>1, <2>2, <2>3, <2>4, <2>6 DEF RetriesSpared
<1> QED  BY <1>4, <1>5

LEMMA WorkerSpares ==
  ASSUME WorkerAssumption, QueueTypes, NEW w \in Workers, NEW t \in Tasks, NEW u \in Tasks,
         Pick(w, t) \/ WorkerStep(w, t), RetriesSpared(u)
  PROVE  RetriesSpared(u)'
<1> USE DEF process, queue, history, At, Leave
<1>1. row \in [Tasks -> QueueRow] /\ row[u] \in QueueRow  BY DEF QueueTypes
<1>2. CASE Take(w, t)  BY <1>2, TakeSpares
<1>3. CASE Retry(w, t)  BY <1>3, RetrySpares
<1>5. CASE Abandon(w, t)  BY <1>5, AbandonSpares
<1>6. CASE SetupFails(w, t)  BY <1>5, <1>6 DEF SetupFails
<1>4. CASE /\ ~Abandon(w, t)
           /\ \/ Pick(w, t) \/ Mark(w, t) \/ TakeFails(w, t) \/ StartTurn(w, t)
              \/ TurnEnds(w, t) \/ Complete(w, t) \/ Tell(w, t) \/ GiveUp(w, t)
  <2>1. manual' = manual
    BY <1>4 DEF Pick, Mark, TakeFails, StartTurn, TurnEnds, Complete, Tell, GiveUp
  <2>2. row'[u].retries = row[u].retries
    <3>1. CASE Pick(w, t) \/ TakeFails(w, t) \/ StartTurn(w, t) \/ TurnEnds(w, t) \/ Tell(w, t)
      BY <1>4, <3>1 DEF Pick, TakeFails, StartTurn, TurnEnds, Tell
    <3>2. CASE Mark(w, t)
      <4>1. row' = [row EXCEPT ![t].status = "running"]  BY <3>2 DEF Mark
      <4> QED  BY <1>1, <4>1 DEF QueueRow
    <3>3. CASE (Complete(w, t) \/ GiveUp(w, t)) /\ row' # row
      <4>1. PICK status, due :
              row' = [row EXCEPT ![t].status = status, ![t].retries = @ + 0, ![t].due = due]
        BY <1>4, <3>3 DEF Complete, GiveUp, SetStatus
      <4>2. row[u].retries \in Nat  BY <1>1 DEF QueueRow
      <4> QED  BY <1>1, <4>1, <4>2 DEF QueueRow
    <3> QED  BY <1>4, <3>1, <3>2, <3>3
  <2>3. \/ \E point \in Points : /\ exec' = [exec EXCEPT ![w][t].at = point]
                                 /\ point \in Reading => exec[w][t].at \in Reading
        \/ exec' = [exec EXCEPT ![w][t] = Unoccupied]
    <3>1. CASE Pick(w, t)  BY <3>1 DEF Pick, Points, Reading
    <3>2. CASE Mark(w, t)  BY <3>2 DEF Mark, Points, Reading
    <3>3. CASE TakeFails(w, t)  BY <1>4, <3>3 DEF TakeFails
    <3>4. CASE StartTurn(w, t)  BY <3>4 DEF StartTurn, Points, Reading
    <3>5. CASE TurnEnds(w, t)  BY <3>5 DEF TurnEnds, Points, Reading
    <3>6. CASE Complete(w, t)  BY <3>6 DEF Complete, Points, Reading
    <3>7. CASE Tell(w, t)  BY <3>7 DEF Tell, Points, Reading
    <3>8. CASE GiveUp(w, t)  BY <1>4, <3>8 DEF GiveUp
    <3> QED  BY <1>4, <3>1, <3>2, <3>3, <3>4, <3>5, <3>6, <3>7, <3>8
  <2>4. CanRetry(u)' \subseteq CanRetry(u)  BY <2>3, SameRetriers
  <2> QED  BY <2>1, <2>2, <2>4, SparedKept
<1> QED  BY <1>2, <1>3, <1>4, <1>5, <1>6 DEF WorkerStep

LEMMA StepSpares ==
  ASSUME WorkerAssumption, QueueTypes, [TaskNext]_taskVars, NEW u \in Tasks, RetriesSpared(u)
  PROVE  RetriesSpared(u)'
<1> USE DEF process, queue, history
<1>1. row \in [Tasks -> QueueRow] /\ exec \in [Workers -> [Tasks -> ExecPlace]]  BY DEF QueueTypes
<1>2. CASE UNCHANGED <<row, exec, manual>>
  <2>1. CanRetry(u)' = CanRetry(u)  BY <1>2 DEF CanRetry
  <2> QED  BY <1>2, <2>1, SparedKept
<1>3. ASSUME NEW w \in Workers, StartWorker(w) \/ Drain(w) \/ Exit(w)  PROVE RetriesSpared(u)'
  BY <1>2, <1>3 DEF StartWorker, Drain, Exit
<1>4. ASSUME NEW w \in Workers, Crash(w)  PROVE RetriesSpared(u)'
  <2>1. exec' = [exec EXCEPT ![w] = [t \in Tasks |-> Unoccupied]] /\ UNCHANGED <<row, manual>>
    BY <1>4 DEF Crash
  <2>2. \A v \in Workers : v # w => exec'[v] = exec[v]  BY <1>1, <2>1
  <2>3. exec'[w][u].at = "none"  BY <1>1, <2>1 DEF Unoccupied
  <2>4. CanRetry(u)' \subseteq CanRetry(u)  BY <2>2, <2>3 DEF CanRetry, Reading
  <2> QED  BY <2>1, <2>4, SparedKept
<1>5. ASSUME NEW t \in Tasks, NEW source, Enqueue(t, source), UNCHANGED exec
      PROVE  RetriesSpared(u)'
  <2>1. row' = [row EXCEPT ![t] = Enqueued(t, source)] /\ manual' = manual  BY <1>5 DEF Enqueue
  <2>2. PICK r \in QueueRow : r = row[t]  BY <1>1
  <2>3. Enqueued(t, source).retries = r.retries  BY <2>2 DEF Enqueued, QueueRow
  <2>4. row'[u].retries = row[u].retries  BY <1>1, <2>1, <2>2, <2>3
  <2>5. CanRetry(u)' = CanRetry(u)  BY <1>5 DEF CanRetry
  <2> QED  BY <2>1, <2>4, <2>5, SparedKept
<1>6. ASSUME NEW w \in Workers, NEW t \in Tasks, ReceiveTask(w, t)  PROVE RetriesSpared(u)'
  BY <1>5, <1>6 DEF ReceiveTask
<1>7. ASSUME NEW t \in Tasks, AddLocal(t)  PROVE RetriesSpared(u)'
  BY <1>5, <1>7 DEF AddLocal
<1>8. ASSUME NEW t \in Tasks, RetryFallsDue(t)  PROVE RetriesSpared(u)'
  <2>1. row' = [row EXCEPT ![t].due = TRUE] /\ UNCHANGED <<exec, manual>>
    BY <1>8 DEF RetryFallsDue
  <2>2. row'[u].retries = row[u].retries  BY <1>1, <2>1 DEF QueueRow
  <2>3. CanRetry(u)' = CanRetry(u)  BY <2>1 DEF CanRetry
  <2> QED  BY <2>1, <2>2, <2>3, SparedKept
<1>9. ASSUME NEW t \in Tasks, RetryByHand(t)  PROVE RetriesSpared(u)'
  BY <1>9, ByHandSpares
<1>10. ASSUME NEW w \in Workers, NEW t \in Tasks, Pick(w, t) \/ WorkerStep(w, t)
       PROVE  RetriesSpared(u)'
  BY <1>10, WorkerSpares
<1>11. CASE UNCHANGED taskVars  BY <1>2, <1>11 DEF taskVars
<1> QED  BY <1>3, <1>4, <1>6, <1>7, <1>8, <1>9, <1>10, <1>11 DEF TaskNext

LEMMA LimitsStep ==
  ASSUME WorkerAssumption, QueueTypes, LimitsInv, [TaskNext]_taskVars
  PROVE  LimitsInv'
<1> USE DEF process, queue, history
<1>1. \A t \in Tasks : RetriesSpared(t)'
  <2>1. TAKE t \in Tasks
  <2>2. RetriesSpared(t)  BY DEF LimitsInv
  <2> QED  BY <2>2, StepSpares
<1>2. /\ up \in [Workers -> {"up", "draining", "down"}] /\ starts \in 0..MaxStarts
      /\ contested \subseteq Tasks /\ orphans \subseteq Tasks
      /\ \A t \in Tasks : runs[t] <= MaxRuns /\ manual[t] <= MaxManual
      /\ runs \in [Tasks -> Nat] /\ manual \in [Tasks -> Nat]
      /\ MaxStarts \in Nat /\ MaxManual \in Nat /\ MaxRuns \in Nat
  BY DEF LimitsInv, QueueTypes, WorkerAssumption, MaxRuns
<1> DEFINE Same == UNCHANGED <<starts, runs, manual>>
           Typed == /\ up' \in [Workers -> {"up", "draining", "down"}]
                    /\ contested' \subseteq Tasks /\ orphans' \subseteq Tasks
<1>3. ASSUME Typed, Same  PROVE LimitsInv'
  BY <1>1, <1>2, <1>3 DEF LimitsInv
<1> HIDE DEF Same, Typed
<1>4. ASSUME NEW w \in Workers, StartWorker(w)  PROVE LimitsInv'
  <2>1. /\ starts' = starts + 1 /\ starts < MaxStarts /\ up' = [up EXCEPT ![w] = "up"]
        /\ UNCHANGED <<runs, manual, contested, orphans>>
    BY <1>4 DEF StartWorker
  <2>2. starts' \in 0..MaxStarts  BY <1>2, <2>1
  <2> QED  BY <1>1, <1>2, <2>1, <2>2 DEF LimitsInv
<1>5. ASSUME NEW w \in Workers, Drain(w) \/ Exit(w) \/ Crash(w)  PROVE LimitsInv'
  <2>1. Same  BY <1>5 DEF Drain, Exit, Crash, Same
  <2>2. /\ \E state \in {"draining", "down"} : up' = [up EXCEPT ![w] = state]
        /\ contested' = contested /\ orphans' \subseteq orphans \cup Tasks
    BY <1>5 DEF Drain, Exit, Crash, BeingRun
  <2>3. Typed  BY <1>2, <2>2 DEF Typed
  <2> QED  BY <1>3, <2>1, <2>3
<1>6. ASSUME NEW t \in Tasks, RetryByHand(t)  PROVE LimitsInv'
  <2>1. /\ manual[t] < MaxManual /\ manual' = [manual EXCEPT ![t] = @ + 1]
        /\ UNCHANGED <<up, starts, runs>>
        /\ contested' \subseteq contested \cup {t} /\ orphans' \subseteq orphans
    BY <1>6 DEF RetryByHand
  <2>2. \A u \in Tasks : manual'[u] <= MaxManual
    <3>1. TAKE u \in Tasks
    <3>2. PICK n \in Nat : n = manual[t]  BY <1>2
    <3>3. manual'[u] = IF u = t THEN n + 1 ELSE manual[u]  BY <1>2, <2>1, <3>2
    <3>4. n + 1 <= MaxManual  BY <1>2, <2>1, <3>2
    <3> QED  BY <1>2, <3>3, <3>4
  <2> QED  BY <1>1, <1>2, <2>1, <2>2 DEF LimitsInv
<1>7. ASSUME NEW w \in Workers, NEW t \in Tasks, StartTurn(w, t)  PROVE LimitsInv'
  <2>1. /\ runs' = [runs EXCEPT ![t] = IF @ < MaxRuns THEN @ + 1 ELSE @]
        /\ UNCHANGED <<up, starts, manual, contested, orphans>>
    BY <1>7 DEF StartTurn
  <2>2. \A u \in Tasks : runs'[u] <= MaxRuns
    <3>1. TAKE u \in Tasks
    <3>2. PICK n \in Nat : n = runs[t]  BY <1>2
    <3>3. runs'[u] = IF u = t THEN (IF n < MaxRuns THEN n + 1 ELSE n) ELSE runs[u]
      BY <1>2, <2>1, <3>2
    <3>4. n <= MaxRuns  BY <1>2, <3>2
    <3> QED  BY <1>2, <3>3, <3>4
  <2> QED  BY <1>1, <1>2, <2>1, <2>2 DEF LimitsInv
<1>8. ASSUME NEW w \in Workers, NEW t \in Tasks,
             \/ ReceiveTask(w, t) \/ Pick(w, t) \/ Mark(w, t) \/ Take(w, t)
             \/ TakeFails(w, t) \/ SetupFails(w, t)
             \/ TurnEnds(w, t) \/ Complete(w, t) \/ Tell(w, t) \/ Retry(w, t) \/ GiveUp(w, t)
      PROVE  LimitsInv'
  <2>1. Same
    BY <1>8 DEF ReceiveTask, Enqueue, Pick, Mark, Take, TakeFails, SetupFails, Abandon, TurnEnds,
                Complete, Tell, Retry, GiveUp, Same
  <2>2. /\ up' = up \/ up' = [up EXCEPT ![w] = "draining"]
        /\ contested' \subseteq contested \cup {t} /\ orphans' \subseteq orphans \cup {t}
    BY <1>8 DEF ReceiveTask, Pick, Mark, Take, TakeFails, SetupFails, Abandon, TurnEnds, Complete,
                Tell, Retry, GiveUp
  <2>3. Typed  BY <1>2, <2>2 DEF Typed
  <2> QED  BY <1>3, <2>1, <2>3
<1>9. ASSUME NEW t \in Tasks, RetryFallsDue(t) \/ AddLocal(t)  PROVE LimitsInv'
  <2>1. Same /\ UNCHANGED <<up, contested, orphans>>
    BY <1>9 DEF RetryFallsDue, AddLocal, Enqueue, Same
  <2>2. Typed  BY <1>2, <2>1 DEF Typed
  <2> QED  BY <1>3, <2>1, <2>2
<1>10. CASE UNCHANGED taskVars
  <2>1. Same /\ UNCHANGED <<up, contested, orphans>>  BY <1>10 DEF taskVars, Same
  <2>2. Typed  BY <1>2, <2>1 DEF Typed
  <2> QED  BY <1>3, <2>1, <2>2
<1> QED  BY <1>4, <1>5, <1>6, <1>7, <1>8, <1>9, <1>10 DEF TaskNext, WorkerStep

LEMMA LimitsStart ==
  ASSUME WorkerAssumption, TaskInit
  PROVE  LimitsInv
<1>1. ASSUME NEW t \in Tasks  PROVE RetriesSpared(t)
  <2>1. \A w \in Workers : exec[w][t].at = "none"  BY DEF TaskInit, Unoccupied
  <2>2. CanRetry(t) = {}  BY <2>1 DEF CanRetry, Reading
  <2>3. Cardinality({}) = 0  BY FS_EmptySet
  <2>4. Cardinality(Workers) \in Nat  BY RetriersFinite
  <2>5. row[t].retries = 0 /\ manual[t] = 0  BY DEF TaskInit, NoRow
  <2> QED  BY <2>2, <2>3, <2>4, <2>5 DEF RetriesSpared, WorkerAssumption
<1>2. 0 \in 0..MaxStarts /\ 0 <= MaxRuns /\ 0 <= MaxManual  BY DEF WorkerAssumption, MaxRuns
<1> QED  BY <1>1, <1>2 DEF TaskInit, LimitsInv

\* The queue keeps its limits: a retry_count exceeds max_retries and the retries by hand by
\* at most one for each worker, however the workers, the operator and crashes interleave
\* (sqlite_store.py:334-399, house_command.py:342-437).
THEOREM RetriesAreBounded == TaskSpec => []TaskTypeOK
<1>1. WorkerAssumption /\ TaskInit => QueueInv /\ LimitsInv  BY QueueStarts, LimitsStart
<1>2. WorkerAssumption /\ QueueInv /\ LimitsInv /\ [TaskNext]_taskVars => QueueInv' /\ LimitsInv'
  BY QueueNextKeeps, LimitsStep DEF QueueInv
<1>3. WorkerAssumption /\ QueueInv /\ LimitsInv => TaskTypeOK
  <2>1. SUFFICES ASSUME WorkerAssumption, QueueInv, LimitsInv  PROVE TaskTypeOK
    OBVIOUS
  <2>2. QueueTypes  BY <2>1 DEF QueueInv
  <2>3. PICK c \in Nat : c = Cardinality(Workers)
    <3>1. Cardinality(Workers) \in Nat  BY <2>1, RetriersFinite
    <3> QED  BY <3>1
  <2>4. PICK limit \in Nat : limit = MaxTaskRetries + MaxManual + c
    BY <2>1 DEF WorkerAssumption
  <2>5. ASSUME NEW t \in Tasks
        PROVE  row[t] \in [status: {"absent", "queued", "running", "completed", "failed"},
                           source: {"cloud", "local"}, due: BOOLEAN, retries: 0..limit]
    <3>1. PICK r \in QueueRow : r = row[t]  BY <2>2 DEF QueueTypes
    <3>2. PICK S \in SUBSET Workers : S = CanRetry(t)  BY DEF CanRetry
    <3>3. PICK k \in Nat : k = Cardinality(S)
      <4>1. Cardinality(S) \in Nat  BY <2>1, RetriersFinite
      <4> QED  BY <4>1
    <3>4. PICK n \in Nat, m \in Nat, x \in Nat : n = r.retries /\ m = manual[t] /\ x = MaxTaskRetries
      BY <2>1, <2>2 DEF QueueTypes, QueueRow, WorkerAssumption
    <3>5. n + k <= x + m + c /\ m <= MaxManual /\ MaxManual \in Nat
      BY <2>1, <2>3, <3>1, <3>2, <3>3, <3>4 DEF LimitsInv, RetriesSpared, WorkerAssumption
    <3>6. n <= limit  BY <2>4, <3>4, <3>5
    <3> QED  BY <3>1, <3>4, <3>6 DEF QueueRow
  <2>6. row \in [Tasks -> [status: {"absent", "queued", "running", "completed", "failed"},
                           source: {"cloud", "local"}, due: BOOLEAN, retries: 0..limit]]
    BY <2>2, <2>5 DEF QueueTypes
  <2>7. runs \in [Tasks -> 0..MaxRuns] /\ manual \in [Tasks -> 0..MaxManual]
    <3>1. /\ runs \in [Tasks -> Nat] /\ manual \in [Tasks -> Nat] /\ MaxRuns \in Nat
          /\ MaxManual \in Nat /\ \A t \in Tasks : runs[t] <= MaxRuns /\ manual[t] <= MaxManual
      BY <2>1, <2>2 DEF QueueTypes, LimitsInv, WorkerAssumption, MaxRuns
    <3> QED  BY <3>1
  <2> QED  BY <2>1, <2>2, <2>3, <2>4, <2>6, <2>7 DEF QueueTypes, LimitsInv, TaskTypeOK, ExecPlace
<1>4. WorkerAssumption  BY WorkerAssumption
<1> QED  BY <1>1, <1>2, <1>3, <1>4, PTL DEF TaskSpec

-------------------------------------------------------------------------------
(* The four parts in one run.                                                 *)

\* Whatever the run of MCServices does is a behaviour of each part: what is proved of the
\* parts holds of the run too.
THEOREM ServicesAreParts == Spec => TaskSpec /\ RoutingSpec /\ FallbackSpec /\ CollabSpec
<1>1. Init => TaskInit /\ RoutingInit /\ FallbackInit /\ CollabInit  BY DEF Init
<1>2. [Next]_<<part, taskVars, routingVars, fallbackVars, collabVars>> =>
        /\ [TaskNext]_taskVars /\ [RoutingNext]_routingVars
        /\ [FallbackNext]_fallbackVars /\ [CollabNext]_collabVars
  BY DEF Next, TaskPart, RoutingPart, ModelPart, CollabPart
<1> QED  BY <1>1, <1>2, PTL DEF Spec, TaskSpec, RoutingSpec, FallbackSpec, CollabSpec

\* Every part's variables are of their types and within their bounds, in the run of
\* the four.
THEOREM ServicesTyped == Spec => []TypesOK
<1>1. TaskTypeOK /\ RoutingTypeOK /\ FallbackTypeOK /\ CollabTypeOK => TypesOK  BY DEF TypesOK
<1> QED
  BY <1>1, ServicesAreParts, RetriesAreBounded, RoutingTypesCorrect, CallsAskOnce,
     CollaborationKeepsLimits, PTL
===============================================================================
