----------------------------- MODULE ExecApproval -----------------------------
(***************************************************************************)
(* Approvals of commands an agent wants to run:                            *)
(* api/rpc/exec_approval_methods.py (exec.approval.request, .waitDecision, *)
(* .resolve), _cleanup_expired_exec_approvals of api/server.py and the     *)
(* chat notices of approvals/exec_approval_forwarder.py.                   *)
(*                                                                         *)
(* The handlers share two dictionaries through app_state.  The records     *)
(* dictionary never loses an entry.  The futures dictionary does, and      *)
(* `app_state.get(..) or {}` replaces it by another object whenever it is  *)
(* empty, while a request keeps the object it saw and puts it back when    *)
(* its wait ends: which object is current is part of the state.  An object *)
(* is named after the call that wrote to it first, and a future after the  *)
(* call that made it.  Time is the set of requests whose expiry is past.   *)
(***************************************************************************)
EXTENDS Naturals, FiniteSets

CONSTANTS
  Calls,     \* exec.approval.request calls: RPC clients and the code_runner tool
  Waiters,   \* exec.approval.waitDecision calls
  Resolvers, \* exec.approval.resolve calls: RPC clients and /approve in a chat
  Ids,       \* approval ids
  Decisions, \* allow-once, allow-always, deny
  Forwarded, \* the requests the configuration forwards to a chat
  None, Boot

Makers == Calls \cup Waiters

ASSUME ApprovalAssumption ==
  /\ Calls \cap Waiters = {}
  /\ Forwarded \subseteq Calls
  /\ None \notin Makers \cup Ids \cup Decisions
  /\ Boot \notin Makers
  /\ {"unmade", "pending", "cancelled"} \cap (Decisions \cup {None}) = {}

VARIABLES
  pending,  \* rpc_exec_approval_pending: id -> record, with the request it is for
  dict,     \* the futures dictionaries: object -> (id -> future)
  current,  \* the object app_state["rpc_exec_approval_futures"] is
  result,   \* the futures: unmade, pending, cancelled, or a result
  overdue,  \* requests whose expiresAtMs is past
  request,  \* exec.approval.request calls
  wait,     \* exec.approval.waitDecision calls
  resolver, \* exec.approval.resolve calls
  targets   \* _pending_forward_targets: id -> the request whose forward stored it

vars == <<pending, dict, current, result, overdue, request, wait, resolver, targets>>

Objects == Makers \cup {Boot}
EmptyDict == [i \in Ids |-> None]

Init ==
  /\ pending = [i \in Ids |-> [owner |-> None, decision |-> None, status |-> "absent"]]
  /\ dict = [o \in Objects |-> EmptyDict]
  /\ current = Boot
  /\ result = [f \in Makers |-> "unmade"]
  /\ overdue = {}
  /\ request = [c \in Calls |-> [state |-> "unsent", id |-> None, twoPhase |-> FALSE,
                                 held |-> Boot, answer |-> None]]
  /\ wait = [w \in Waiters |-> [state |-> "idle", id |-> None, call |-> None, on |-> None,
                                answer |-> None]]
  /\ resolver = [v \in Resolvers |-> [state |-> "idle", id |-> None, call |-> None,
                                      decision |-> None, onTime |-> FALSE]]
  /\ targets = [i \in Ids |-> None]

-------------------------------------------------------------------------------
(* _cleanup_expired_exec_approvals, which every handler below calls first.    *)

Absent(i) == pending[i].status = "absent"
Expired(i) == pending[i].owner \in overdue /\ pending[i].decision = None

SweptPending == [i \in Ids |-> IF Expired(i) THEN [pending[i] EXCEPT !.status = "expired"]
                               ELSE pending[i]]

SweptFutures == [i \in Ids |-> IF Expired(i) THEN None ELSE dict[current][i]]

\* (Names ending in _Mut and a word are broken variants of the definition below them:
\* the runs show that the properties notice the break.)
SweptResult_MutStatus ==
  [f \in Makers |->
     IF result[f] = "pending" /\ \E i \in Ids : Expired(i) /\ dict[current][i] = f
     THEN "expired" ELSE result[f]]

SweptResult ==
  [f \in Makers |->
     IF result[f] = "pending" /\ \E i \in Ids : Expired(i) /\ dict[current][i] = f
     THEN None ELSE result[f]]

SweptDict == [dict EXCEPT ![current] = SweptFutures]

\* `futures = app_state.get(..) or {}; futures[i] = fut; app_state[..] = futures`
StoreFuture(x, i) ==
  IF SweptFutures = EmptyDict
  THEN /\ current' = x
       /\ dict' = [SweptDict EXCEPT ![x] = [EmptyDict EXCEPT ![i] = x]]
  ELSE /\ current' = current
       /\ dict' = [SweptDict EXCEPT ![current] = [SweptFutures EXCEPT ![i] = x]]

-------------------------------------------------------------------------------
(* exec.approval.request.                                                     *)

\* An id is taken while its record has no decision, expired or not.
Taken(i) == ~Absent(i) /\ pending[i].decision = None

RequestRefused(c, i) ==
  /\ request[c].state = "unsent"
  /\ Taken(i)
  /\ pending' = SweptPending
  /\ dict' = SweptDict
  /\ result' = SweptResult
  /\ request' = [request EXCEPT ![c].state = "refused"]
  /\ UNCHANGED <<current, overdue, wait, resolver, targets>>

\* Up to the await of the "requested" broadcast.
Request(c, i, two) ==
  /\ request[c].state = "unsent"
  /\ ~Taken(i)
  /\ pending' = [SweptPending EXCEPT
                   ![i] = [owner |-> c, decision |-> None, status |-> "pending"]]
  /\ StoreFuture(c, i)
  /\ result' = [SweptResult EXCEPT ![c] = "pending"]
  /\ request' = [request EXCEPT ![c] = [state |-> "broadcasting", id |-> i, twoPhase |-> two,
                                        held |-> current', answer |-> None]]
  /\ UNCHANGED <<overdue, wait, resolver, targets>>

\* handle_exec_approval_requested, then the answer "accepted" or the wait.
Forward(c) ==
  /\ request[c].state = "broadcasting"
  /\ targets' = IF c \in Forwarded THEN [targets EXCEPT ![request[c].id] = c] ELSE targets
  /\ request' = [request EXCEPT ![c].state = IF request[c].twoPhase THEN "accepted" ELSE "waiting"]
  /\ UNCHANGED <<pending, dict, current, result, overdue, wait, resolver>>

\* The `finally` of the wait: pop the id from the object the request kept, and make
\* that object current again.
Finally_MutClear(c) == dict' = [dict EXCEPT ![request[c].held] = EmptyDict]
                       /\ current' = request[c].held

Finally(c) ==
  /\ dict' = [dict EXCEPT ![request[c].held][request[c].id] = None]
  /\ current' = request[c].held

\* The future has a result, or was cancelled by a waitDecision that shares it: then
\* CancelledError leaves the handler.
RequestResumes(c) ==
  /\ request[c].state = "waiting"
  /\ result[c] # "pending"
  /\ Finally(c)
  /\ request' = [request EXCEPT ![c].state = IF result[c] = "cancelled" THEN "cancelled"
                                             ELSE "answered",
                                ![c].answer = IF result[c] = "cancelled" THEN None
                                              ELSE result[c]]
  /\ UNCHANGED <<pending, result, overdue, wait, resolver, targets>>

\* wait_for gives up: it cancels the future and lets the loop run once more ...
RequestTimer(c) ==
  /\ request[c].state = "waiting"
  /\ result[c] = "pending"
  /\ c \in overdue
  /\ result' = [result EXCEPT ![c] = "cancelled"]
  /\ request' = [request EXCEPT ![c].state = "timing_out"]
  /\ UNCHANGED <<pending, dict, current, overdue, wait, resolver, targets>>

\* ... before TimeoutError is handled, whatever the record of the id says by then.
RequestExpires(c) ==
  /\ request[c].state = "timing_out"
  /\ pending' = [pending EXCEPT ![request[c].id].status = "expired",
                                ![request[c].id].decision = None]
  /\ Finally(c)
  /\ request' = [request EXCEPT ![c].state = "answered"]
  /\ UNCHANGED <<result, overdue, wait, resolver, targets>>

TimePasses(c) ==
  /\ request[c].state \notin {"unsent", "refused"}
  /\ c \notin overdue
  /\ overdue' = overdue \cup {c}
  /\ UNCHANGED <<pending, dict, current, result, request, wait, resolver, targets>>

-------------------------------------------------------------------------------
(* exec.approval.waitDecision.                                                *)

\* Unknown ids and decided records answer at once.
WaitAnswered(w, i) ==
  /\ wait[w].state = "idle"
  /\ ~Taken(i)
  /\ pending' = SweptPending
  /\ dict' = SweptDict
  /\ result' = SweptResult
  /\ wait' = [wait EXCEPT ![w] =
                [state |-> IF Absent(i) THEN "not_found" ELSE "answered", id |-> i,
                 call |-> pending[i].owner, on |-> None, answer |-> pending[i].decision]]
  /\ UNCHANGED <<current, overdue, request, resolver, targets>>

\* Otherwise the call waits on the id's future, making one if there is none.
WaitDecision(w, i) ==
  /\ wait[w].state = "idle"
  /\ Taken(i)
  /\ pending' = SweptPending
  /\ \/ /\ SweptFutures[i] # None
        /\ dict' = SweptDict
        /\ result' = SweptResult
        /\ UNCHANGED current
     \/ /\ SweptFutures[i] = None
        /\ StoreFuture(w, i)
        /\ result' = [SweptResult EXCEPT ![w] = "pending"]
  /\ wait' = [wait EXCEPT ![w] =
                [state |-> "waiting", id |-> i, call |-> pending[i].owner,
                 on |-> IF SweptFutures[i] = None THEN w ELSE SweptFutures[i],
                 answer |-> None]]
  /\ UNCHANGED <<overdue, request, resolver, targets>>

WaitResumes(w) ==
  /\ wait[w].state = "waiting"
  /\ result[wait[w].on] # "pending"
  /\ wait' = [wait EXCEPT
                ![w].state = IF result[wait[w].on] = "cancelled" THEN "cancelled" ELSE "answered",
                ![w].answer = IF result[wait[w].on] = "cancelled" THEN None
                              ELSE result[wait[w].on]]
  /\ UNCHANGED <<pending, dict, current, result, overdue, request, resolver, targets>>

\* No shield here either: the shared future is cancelled for everybody.
WaitTimer_MutNone(w) == FALSE /\ UNCHANGED vars

WaitTimer(w) ==
  /\ wait[w].state = "waiting"
  /\ result[wait[w].on] = "pending"
  /\ wait[w].call \in overdue
  /\ result' = [result EXCEPT ![wait[w].on] = "cancelled"]
  /\ wait' = [wait EXCEPT ![w].state = "answered"]
  /\ UNCHANGED <<pending, dict, current, overdue, request, resolver, targets>>

-------------------------------------------------------------------------------
(* exec.approval.resolve.                                                     *)

ResolveUnknown(v, i) ==
  /\ resolver[v].state = "idle"
  /\ Absent(i)
  /\ pending' = SweptPending
  /\ dict' = SweptDict
  /\ result' = SweptResult
  /\ resolver' = [resolver EXCEPT ![v].state = "unknown"]
  /\ UNCHANGED <<current, overdue, request, wait, targets>>

\* `if fut is not None and not fut.done(): fut.set_result(decision)`
ResultSet_MutAll(i, d) ==
  [f \in Makers |-> IF SweptResult[f] = "pending" THEN d ELSE SweptResult[f]]

ResultSet(i, d) ==
  [f \in Makers |-> IF f = SweptFutures[i] /\ SweptResult[f] = "pending" THEN d
                    ELSE SweptResult[f]]

\* The record is decided whether it is pending, expired or decided already.
Resolve(v, i, d) ==
  /\ resolver[v].state = "idle"
  /\ ~Absent(i)
  /\ pending' = [SweptPending EXCEPT ![i].decision = d, ![i].status = "resolved"]
  /\ dict' = SweptDict
  /\ result' = ResultSet(i, d)
  /\ resolver' = [resolver EXCEPT ![v] =
                    [state |-> "broadcasting", id |-> i, call |-> pending[i].owner,
                     decision |-> d, onTime |-> pending[i].owner \notin overdue]]
  /\ UNCHANGED <<current, overdue, request, wait, targets>>

\* handle_exec_approval_resolved: the notice goes to the targets stored for the id.
NotifyResolved(v) ==
  /\ resolver[v].state = "broadcasting"
  /\ resolver' = [resolver EXCEPT ![v].state = "acknowledged"]
  /\ targets' = [targets EXCEPT ![resolver[v].id] = None]
  /\ UNCHANGED <<pending, dict, current, result, overdue, request, wait>>

-------------------------------------------------------------------------------
RequestStep(c) ==
  Forward(c) \/ RequestResumes(c) \/ RequestTimer(c) \/ RequestExpires(c) \/ TimePasses(c)
WaitStep(w) == WaitResumes(w) \/ WaitTimer(w)

Next ==
  \/ \E c \in Calls, i \in Ids :
       RequestRefused(c, i) \/ \E two \in BOOLEAN : Request(c, i, two)
  \/ \E c \in Calls : RequestStep(c)
  \/ \E w \in Waiters, i \in Ids : WaitAnswered(w, i) \/ WaitDecision(w, i)
  \/ \E w \in Waiters : WaitStep(w)
  \/ \E v \in Resolvers, i \in Ids :
       ResolveUnknown(v, i) \/ \E d \in Decisions : Resolve(v, i, d)
  \/ \E v \in Resolvers : NotifyResolved(v)

Spec == Init /\ [][Next]_vars

\* Broadcasts end, timers fire, and a future that is done wakes who waits on it.
Fairness == /\ \A c \in Calls : WF_vars(RequestStep(c))
            /\ \A w \in Waiters : WF_vars(WaitStep(w))
FairSpec == Spec /\ Fairness

-------------------------------------------------------------------------------
(* Properties.                                                                *)

Record == [owner : Calls \cup {None}, decision : Decisions \cup {None},
           status : {"absent", "pending", "expired", "resolved"}]
Results == {"unmade", "pending", "cancelled", None} \cup Decisions
Answers == {"unmade", None} \cup Decisions
RequestStates == {"unsent", "refused", "broadcasting", "accepted", "waiting", "timing_out",
                  "answered", "cancelled"}
RequestCall == [state : RequestStates, id : Ids \cup {None}, twoPhase : BOOLEAN,
                held : Objects, answer : Answers]
WaitStates == {"idle", "not_found", "waiting", "answered", "cancelled"}
WaitCall == [state : WaitStates, id : Ids \cup {None}, call : Calls \cup {None}, on : Makers \cup {None},
             answer : Answers]
ResolveStates == {"idle", "unknown", "broadcasting", "acknowledged"}
ResolveCall == [state : ResolveStates, id : Ids \cup {None}, call : Calls \cup {None},
                decision : Decisions \cup {None}, onTime : BOOLEAN]

\* The types of the records, the futures and the calls.
TypeOK ==
  /\ pending \in [Ids -> Record]
  /\ dict \in [Objects -> [Ids -> Makers \cup {None}]]
  /\ current \in Objects
  /\ result \in [Makers -> Results]
  /\ overdue \subseteq Calls
  /\ request \in [Calls -> RequestCall]
  /\ wait \in [Waiters -> WaitCall]
  /\ resolver \in [Resolvers -> ResolveCall]
  /\ targets \in [Ids -> Calls \cup {None}]

OnlyUser(c) == \A b \in Calls : request[b].id = request[c].id => b = c

\* Nobody is told a decision that was not made: what a request or a waitDecision
\* returns was said by a resolve of the same id, and of the same request while no
\* other request has used the id.
NoPhantomGrant ==
  /\ \A c \in Calls : request[c].answer # None =>
       \E v \in Resolvers :
          /\ resolver[v].id = request[c].id /\ resolver[v].decision = request[c].answer
          /\ OnlyUser(c) => resolver[v].call = c
  /\ \A w \in Waiters : wait[w].answer # None =>
       \E v \in Resolvers :
          resolver[v].id = wait[w].id /\ resolver[v].decision = wait[w].answer

Listed(i) == ~Absent(i) /\ pending[i].decision = None /\ pending[i].owner \notin overdue

\* An approval that exec.approvals.pending lists can be decided: resolving it reaches
\* the request that waits.  So it is until ids are reused or an approval expires.
ListedIsDecidable ==
  (\A c \in Calls : request[c].id # None => OnlyUser(c)) /\ overdue = {} =>
     \A i \in Ids : Listed(i) =>
        dict[current][i] = pending[i].owner /\ result[pending[i].owner] = "pending"

\* Every request and every waitDecision comes to an end, whatever happens to the
\* futures dictionary and to the calls that share a future.
EveryoneIsAnswered ==
  /\ \A c \in Calls : request[c].state = "broadcasting" ~>
                      request[c].state \in {"accepted", "answered", "cancelled"}
  /\ \A w \in Waiters : wait[w].state = "waiting" ~> wait[w].state # "waiting"

\* Resolving an approval before it expires approves the request that waits: it is not
\* told "expired or not granted".
OnTimeDecisionHeard ==
  \A v \in Resolvers, c \in Calls :
     resolver[v].call = c /\ resolver[v].onTime /\ request[c].state = "answered" =>
        request[c].answer # None
===============================================================================
