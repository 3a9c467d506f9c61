------------------------- MODULE ExecApproval_proofs --------------------------
(***************************************************************************)
(* What ExecApproval guarantees for every number of requests, waiting      *)
(* calls, resolvers and ids.                                               *)
(***************************************************************************)
EXTENDS ExecApproval, TLAPS

-------------------------------------------------------------------------------
(* Types.                                                                     *)

\* The sweep of the expired records keeps the types.
LEMMA SweepTypes ==
  ASSUME TypeOK
  PROVE  /\ SweptPending \in [Ids -> Record]
         /\ SweptFutures \in [Ids -> Makers \cup {None}]
         /\ SweptDict \in [Objects -> [Ids -> Makers \cup {None}]]
         /\ SweptResult \in [Makers -> Results]
<1>1. SweptPending \in [Ids -> Record]
  BY DEF TypeOK, SweptPending, Record
<1>2. SweptFutures \in [Ids -> Makers \cup {None}]
  BY DEF TypeOK, SweptFutures
<1>3. SweptDict \in [Objects -> [Ids -> Makers \cup {None}]]
  BY <1>2 DEF TypeOK, SweptDict
<1>4. SweptResult \in [Makers -> Results]
  BY DEF TypeOK, SweptResult, Results
<1> QED BY <1>1, <1>2, <1>3, <1>4

LEMMA StoreTypes ==
  ASSUME TypeOK, NEW x \in Makers, NEW i \in Ids, StoreFuture(x, i)
  PROVE  current' \in Objects /\ dict' \in [Objects -> [Ids -> Makers \cup {None}]]
<1>1. x \in Objects /\ current \in Objects
  BY DEF TypeOK, Objects
<1>2. /\ [EmptyDict EXCEPT ![i] = x] \in [Ids -> Makers \cup {None}]
      /\ [SweptFutures EXCEPT ![i] = x] \in [Ids -> Makers \cup {None}]
  BY SweepTypes DEF EmptyDict
<1> QED BY <1>1, <1>2, SweepTypes DEF StoreFuture

LEMMA FinallyTypes ==
  ASSUME TypeOK, NEW c \in Calls, Finally(c)
  PROVE  current' \in Objects /\ dict' \in [Objects -> [Ids -> Makers \cup {None}]]
<1>1. request[c].held \in Objects
  BY DEF TypeOK, RequestCall
<1> QED BY <1>1 DEF TypeOK, Finally

\* Moving a call on, with or without an answer, keeps its type.
LEMMA RequestMoves ==
  ASSUME TypeOK, NEW c \in Calls, NEW s \in RequestStates, NEW a \in Answers
  PROVE  /\ [request EXCEPT ![c].state = s] \in [Calls -> RequestCall]
         /\ [request EXCEPT ![c].state = s, ![c].answer = a] \in [Calls -> RequestCall]
<1>1. request[c] \in RequestCall
  BY DEF TypeOK
<1>2. /\ [request[c] EXCEPT !.state = s] \in RequestCall
      /\ [request[c] EXCEPT !.state = s, !.answer = a] \in RequestCall
  BY <1>1 DEF RequestCall
<1>3. /\ [request EXCEPT ![c].state = s]
           = [request EXCEPT ![c] = [request[c] EXCEPT !.state = s]]
      /\ [request EXCEPT ![c].state = s, ![c].answer = a]
           = [request EXCEPT ![c] = [request[c] EXCEPT !.state = s, !.answer = a]]
  BY DEF TypeOK
<1> QED BY <1>2, <1>3 DEF TypeOK

LEMMA WaitMoves ==
  ASSUME TypeOK, NEW w \in Waiters, NEW s \in WaitStates, NEW a \in Answers
  PROVE  /\ [wait EXCEPT ![w].state = s] \in [Waiters -> WaitCall]
         /\ [wait EXCEPT ![w].state = s, ![w].answer = a] \in [Waiters -> WaitCall]
<1>1. wait[w] \in WaitCall
  BY DEF TypeOK
<1>2. /\ [wait[w] EXCEPT !.state = s] \in WaitCall
      /\ [wait[w] EXCEPT !.state = s, !.answer = a] \in WaitCall
  BY <1>1 DEF WaitCall
<1>3. /\ [wait EXCEPT ![w].state = s] = [wait EXCEPT ![w] = [wait[w] EXCEPT !.state = s]]
      /\ [wait EXCEPT ![w].state = s, ![w].answer = a]
           = [wait EXCEPT ![w] = [wait[w] EXCEPT !.state = s, !.answer = a]]
  BY DEF TypeOK
<1> QED BY <1>2, <1>3 DEF TypeOK

LEMMA ResolveMoves ==
  ASSUME TypeOK, NEW v \in Resolvers, NEW s \in ResolveStates
  PROVE  [resolver EXCEPT ![v].state = s] \in [Resolvers -> ResolveCall]
<1>1. resolver[v] \in ResolveCall
  BY DEF TypeOK
<1>2. [resolver[v] EXCEPT !.state = s] \in ResolveCall
  BY <1>1 DEF ResolveCall
<1> QED BY <1>2 DEF TypeOK

\* A waiting call waits on a future, and a resolver that decided has an id.
Placed ==
  /\ \A w \in Waiters : wait[w].state = "waiting" => wait[w].on \in Makers
  /\ \A v \in Resolvers : resolver[v].state \notin {"idle", "unknown"} =>
                          resolver[v].id \in Ids

LEMMA ApprovalTypesInit == ApprovalAssumption => (Init => TypeOK)
BY DEF ApprovalAssumption, Init, TypeOK, Objects, EmptyDict, Record, Results, Answers, RequestCall,
       WaitCall, ResolveCall, RequestStates, WaitStates, ResolveStates

LEMMA ApprovalTypesNext == ApprovalAssumption /\ TypeOK /\ Placed /\ [Next]_vars => TypeOK'
<1> SUFFICES ASSUME ApprovalAssumption, TypeOK, Placed, [Next]_vars PROVE TypeOK'
  OBVIOUS
<1>1. ASSUME NEW c \in Calls, NEW i \in Ids, RequestRefused(c, i) PROVE TypeOK'
  <2>1. request' \in [Calls -> RequestCall]
    BY <1>1, RequestMoves DEF RequestRefused, RequestStates, Answers
  <2> QED BY <1>1, <2>1, SweepTypes DEF TypeOK, RequestRefused
<1>2. ASSUME NEW c \in Calls, NEW i \in Ids, NEW two \in BOOLEAN, Request(c, i, two)
      PROVE TypeOK'
  <2>1. current' \in Objects /\ dict' \in [Objects -> [Ids -> Makers \cup {None}]]
    BY <1>2, StoreTypes DEF Request, Makers
  <2>2. pending' \in [Ids -> Record]
    BY <1>2, SweepTypes DEF Request, Record
  <2>3. result' \in [Makers -> Results]
    BY <1>2, SweepTypes DEF Request, Results
  <2>4. request' \in [Calls -> RequestCall]
    BY <1>2, <2>1 DEF TypeOK, Request, RequestCall, RequestStates, Answers
  <2> QED BY <1>2, <2>1, <2>2, <2>3, <2>4 DEF TypeOK, Request
<1>3. ASSUME NEW c \in Calls, Forward(c) PROVE TypeOK'
  <2>1. request' \in [Calls -> RequestCall]
    BY <1>3, RequestMoves DEF Forward, RequestStates, Answers
  <2>2. targets' \in [Ids -> Calls \cup {None}]
    BY <1>3 DEF TypeOK, Forward
  <2> QED BY <1>3, <2>1, <2>2 DEF TypeOK, Forward
<1>4. ASSUME NEW c \in Calls, RequestResumes(c) PROVE TypeOK'
  <2>1. result[c] \in Results
    BY DEF TypeOK, Makers
  <2>2. request' \in [Calls -> RequestCall]
    BY ZenonT(40), <1>4, <2>1, RequestMoves DEF RequestResumes, RequestStates, Results, Answers
  <2> QED BY <1>4, <2>2, FinallyTypes DEF TypeOK, RequestResumes
<1>5. ASSUME NEW c \in Calls, RequestTimer(c) PROVE TypeOK'
  <2>1. request' \in [Calls -> RequestCall]
    BY <1>5, RequestMoves DEF RequestTimer, RequestStates, Answers
  <2>2. result' \in [Makers -> Results]
    BY <1>5 DEF TypeOK, RequestTimer, Results
  <2> QED BY <1>5, <2>1, <2>2 DEF TypeOK, RequestTimer
<1>6. ASSUME NEW c \in Calls, RequestExpires(c) PROVE TypeOK'
  <2>1. pending' \in [Ids -> Record]
    <3>1. CASE request[c].id \in Ids
      <4>1. pending[request[c].id] \in Record
        BY <3>1 DEF TypeOK
      <4>2. [pending[request[c].id] EXCEPT !.status = "expired", !.decision = None] \in Record
        BY <4>1 DEF Record
      <4> QED BY <1>6, <3>1, <4>2 DEF TypeOK, RequestExpires
    <3>2. CASE request[c].id \notin Ids
      BY <1>6, <3>2 DEF TypeOK, RequestExpires
    <3> QED BY <3>1, <3>2
  <2>2. request' \in [Calls -> RequestCall]
    BY <1>6, RequestMoves DEF RequestExpires, RequestStates, Answers
  <2> QED BY <1>6, <2>1, <2>2, FinallyTypes DEF TypeOK, RequestExpires
<1>7. ASSUME NEW c \in Calls, TimePasses(c) PROVE TypeOK'
  BY <1>7 DEF TypeOK, TimePasses
<1>8. ASSUME NEW w \in Waiters, NEW i \in Ids, WaitAnswered(w, i) PROVE TypeOK'
  <2>1. wait' \in [Waiters -> WaitCall]
    BY <1>8 DEF TypeOK, WaitAnswered, WaitCall, WaitStates, Record, Answers
  <2> QED BY <1>8, <2>1, SweepTypes DEF TypeOK, WaitAnswered
<1>9. ASSUME NEW w \in Waiters, NEW i \in Ids, WaitDecision(w, i) PROVE TypeOK'
  <2>1. wait' \in [Waiters -> WaitCall]
    BY <1>9, SweepTypes DEF TypeOK, WaitDecision, Makers, WaitCall, WaitStates, Record, Answers
  <2>2. current' \in Objects /\ dict' \in [Objects -> [Ids -> Makers \cup {None}]]
    BY <1>9, StoreTypes, SweepTypes DEF TypeOK, WaitDecision, Makers
  <2>3. result' \in [Makers -> Results]
    BY <1>9, SweepTypes DEF WaitDecision, Results
  <2> QED BY <1>9, <2>1, <2>2, <2>3, SweepTypes DEF TypeOK, WaitDecision
<1>10. ASSUME NEW w \in Waiters, WaitResumes(w) PROVE TypeOK'
  <2>1. wait' \in [Waiters -> WaitCall]
    <3>1. wait[w].on \in Makers
      BY <1>10 DEF WaitResumes, Placed
    <3>2. result[wait[w].on] \in Results
      BY <3>1 DEF TypeOK
    <3> QED BY ZenonT(40), <1>10, <3>2, WaitMoves DEF WaitResumes, WaitStates, Results, Answers
  <2> QED BY <1>10, <2>1 DEF TypeOK, WaitResumes
<1>11. ASSUME NEW w \in Waiters, WaitTimer(w) PROVE TypeOK'
  <2>1. wait' \in [Waiters -> WaitCall]
    BY <1>11, WaitMoves DEF WaitTimer, WaitStates, Answers
  <2>2. result' \in [Makers -> Results]
    BY <1>11 DEF TypeOK, WaitTimer, Results
  <2> QED BY <1>11, <2>1, <2>2 DEF TypeOK, WaitTimer
<1>12. ASSUME NEW v \in Resolvers, NEW i \in Ids, ResolveUnknown(v, i) PROVE TypeOK'
  <2>1. resolver' \in [Resolvers -> ResolveCall]
    BY <1>12, ResolveMoves DEF ResolveUnknown, ResolveStates
  <2> QED BY <1>12, <2>1, SweepTypes DEF TypeOK, ResolveUnknown
<1>13. ASSUME NEW v \in Resolvers, NEW i \in Ids, NEW d \in Decisions, Resolve(v, i, d)
       PROVE TypeOK'
  <2>1. pending' \in [Ids -> Record]
    <3>1. [SweptPending[i] EXCEPT !.decision = d, !.status = "resolved"] \in Record
      <4>1. SweptPending[i] \in Record
        BY SweepTypes
      <4> QED BY <4>1 DEF Record
    <3>2. pending' = [SweptPending EXCEPT ![i] = [SweptPending[i] EXCEPT !.decision = d,
                                                                       !.status = "resolved"]]
      BY <1>13, SweepTypes DEF Resolve
    <3> QED BY <3>1, <3>2, SweepTypes
  <2>2. result' \in [Makers -> Results]
    BY <1>13, SweepTypes DEF Resolve, ResultSet, Results
  <2>3. resolver' \in [Resolvers -> ResolveCall]
    BY <1>13 DEF TypeOK, Resolve, ResolveCall, ResolveStates, Record
  <2> QED BY <1>13, <2>1, <2>2, <2>3, SweepTypes DEF TypeOK, Resolve
<1>14. ASSUME NEW v \in Resolvers, NotifyResolved(v) PROVE TypeOK'
  <2>1. resolver' \in [Resolvers -> ResolveCall]
    BY <1>14, ResolveMoves DEF NotifyResolved, ResolveStates
  <2>2. targets' \in [Ids -> Calls \cup {None}]
    <3>1. resolver[v].id \in Ids
      BY <1>14 DEF Placed, NotifyResolved
    <3> QED BY <1>14, <3>1 DEF TypeOK, NotifyResolved
  <2> QED BY <1>14, <2>1, <2>2 DEF TypeOK, NotifyResolved
<1>15. CASE UNCHANGED vars
  BY <1>15 DEF TypeOK, vars
<1> QED BY <1>1, <1>2, <1>3, <1>4, <1>5, <1>6, <1>7, <1>8, <1>9, <1>10, <1>11, <1>12, <1>13,
           <1>14, <1>15 DEF Next, RequestStep, WaitStep

LEMMA PlacedNext == TypeOK /\ Placed /\ [Next]_vars => Placed'
<1> SUFFICES ASSUME TypeOK, Placed, [Next]_vars PROVE Placed'
  OBVIOUS
<1>1. \A w \in Waiters : wait[w].state = "waiting" => wait[w].on \in Makers
  BY DEF Placed
<1>2. \A v \in Resolvers : resolver[v].state \notin {"idle", "unknown"} =>
                         resolver[v].id \in Ids
  BY DEF Placed
<1>3. CASE UNCHANGED <<wait, resolver>>
  BY <1>1, <1>2, <1>3 DEF Placed
<1>4. ASSUME NEW w \in Waiters, NEW i \in Ids, WaitAnswered(w, i) PROVE Placed'
  BY <1>1, <1>2, <1>4 DEF Placed, WaitAnswered, TypeOK
<1>5. ASSUME NEW w \in Waiters, NEW i \in Ids, WaitDecision(w, i) PROVE Placed'
  BY <1>1, <1>2, <1>5, SweepTypes DEF Placed, WaitDecision, TypeOK, Makers
<1>6. ASSUME NEW w \in Waiters, WaitStep(w) PROVE Placed'
  <2>1. \A x \in Waiters : wait'[x].state = "waiting" => x # w
    BY <1>6 DEF WaitStep, WaitResumes, WaitTimer, TypeOK, WaitCall
  <2>2. \A x \in Waiters : x # w => wait'[x] = wait[x]
    BY <1>6 DEF WaitStep, WaitResumes, WaitTimer, TypeOK
  <2> QED BY <1>1, <1>2, <1>6, <2>1, <2>2 DEF Placed, WaitStep, WaitResumes, WaitTimer
<1>7. ASSUME NEW v \in Resolvers, NEW i \in Ids, ResolveUnknown(v, i) PROVE Placed'
  BY <1>1, <1>2, <1>7 DEF Placed, ResolveUnknown, TypeOK, ResolveCall
<1>8. ASSUME NEW v \in Resolvers, NEW i \in Ids, NEW d \in Decisions, Resolve(v, i, d)
      PROVE Placed'
  BY <1>1, <1>2, <1>8 DEF Placed, Resolve, TypeOK
<1>9. ASSUME NEW v \in Resolvers, NotifyResolved(v) PROVE Placed'
  BY <1>1, <1>2, <1>9 DEF Placed, NotifyResolved, TypeOK, ResolveCall
<1>10. ASSUME NEW c \in Calls, NEW i \in Ids,
              RequestRefused(c, i) \/ \E two \in BOOLEAN : Request(c, i, two)
       PROVE UNCHANGED <<wait, resolver>>
  BY <1>10 DEF RequestRefused, Request
<1>11. ASSUME NEW c \in Calls, RequestStep(c) PROVE UNCHANGED <<wait, resolver>>
  BY <1>11 DEF RequestStep, Forward, RequestResumes, RequestTimer, RequestExpires, TimePasses
<1>12. CASE UNCHANGED vars
  BY <1>3, <1>12 DEF vars
<1> QED BY <1>3, <1>4, <1>5, <1>6, <1>7, <1>8, <1>9, <1>10, <1>11, <1>12 DEF Next

\* The records, the futures and the calls keep their types.
THEOREM ApprovalTypes == Spec => []TypeOK
<1>1. Init => Placed
  BY DEF Init, Placed
<1> QED BY <1>1, ApprovalAssumption, ApprovalTypesInit, ApprovalTypesNext, PlacedNext, PTL DEF Spec
-------------------------------------------------------------------------------
(* Nobody is told a decision that was not made.  Every future, record and     *)
(* call is filed under the id it was made for, and ids never change.          *)

IdOf(f) == IF f \in Calls THEN request[f].id ELSE wait[f].id
Said(i, d) == \E v \in Resolvers : resolver[v].id = i /\ resolver[v].decision = d

\* What has not happened yet has no id.
Blank ==
  /\ \A c \in Calls : request[c].state \in {"unsent", "refused"} =>
                      request[c].id = None /\ request[c].answer = None
  /\ \A w \in Waiters : wait[w].state = "idle" =>
                        wait[w].id = None /\ wait[w].on = None /\ wait[w].answer = None
  /\ \A v \in Resolvers : resolver[v].state \in {"idle", "unknown"} =>
                          /\ resolver[v].id = None /\ resolver[v].call = None
                          /\ resolver[v].decision = None

Filed ==
  /\ \A o \in Objects, i \in Ids : dict[o][i] # None =>
                                   IdOf(dict[o][i]) = i /\ result[dict[o][i]] # "unmade"
  /\ \A w \in Waiters : wait[w].on # None =>
                        /\ wait[w].id \in Ids /\ IdOf(wait[w].on) = wait[w].id
                        /\ result[wait[w].on] # "unmade"
  /\ \A c \in Calls : request[c].state \notin {"unsent", "refused"} => result[c] # "unmade"

\* Whose record it is.
Owned ==
  /\ \A i \in Ids : Absent(i) <=> pending[i].owner = None
  /\ \A i \in Ids : pending[i].owner # None => request[pending[i].owner].id = i
  /\ \A i \in Ids : Absent(i) => pending[i].decision = None
  /\ \A c \in Calls, i \in Ids : request[c].id = i => ~Absent(i)
  /\ \A v \in Resolvers : resolver[v].id # None =>
                          /\ resolver[v].call \in Calls
                          /\ request[resolver[v].call].id = resolver[v].id

\* Every decision on record was said by a resolver of the id.
Backed ==
  /\ \A f \in Makers : result[f] \in Decisions => Said(IdOf(f), result[f])
  /\ \A i \in Ids : pending[i].decision # None => Said(i, pending[i].decision)
  /\ \A c \in Calls : request[c].answer # None => Said(request[c].id, request[c].answer)
  /\ \A w \in Waiters : wait[w].answer # None => Said(wait[w].id, wait[w].answer)

GrantInv == TypeOK /\ Placed /\ Blank /\ Filed /\ Owned /\ Backed

LEMMA GrantInvImplies == ApprovalAssumption /\ GrantInv => NoPhantomGrant
<1> SUFFICES ASSUME ApprovalAssumption, GrantInv PROVE NoPhantomGrant
  OBVIOUS
<1>1. ASSUME NEW c \in Calls, request[c].answer # None
      PROVE  \E v \in Resolvers :
                /\ resolver[v].id = request[c].id /\ resolver[v].decision = request[c].answer
                /\ OnlyUser(c) => resolver[v].call = c
  <2>1. PICK v \in Resolvers : resolver[v].id = request[c].id
                               /\ resolver[v].decision = request[c].answer
    BY <1>1 DEF GrantInv, Backed, Said
  <2>2. resolver[v].id # None
    BY <1>1, <2>1 DEF GrantInv, Blank, Placed, TypeOK, ResolveCall, ResolveStates
  <2>3. resolver[v].call \in Calls /\ request[resolver[v].call].id = request[c].id
    BY <2>1, <2>2 DEF GrantInv, Owned
  <2> QED BY <2>1, <2>3 DEF OnlyUser
<1> QED BY <1>1 DEF NoPhantomGrant, GrantInv, Backed, Said

\* Each variable of a call changes in few actions.
LEMMA RequestChanges ==
  ASSUME TypeOK, [Next]_vars
  PROVE  \/ UNCHANGED request
         \/ \E c \in Calls, i \in Ids : RequestRefused(c, i)
         \/ \E c \in Calls, i \in Ids, two \in BOOLEAN : Request(c, i, two)
         \/ \E c \in Calls : \/ Forward(c) \/ RequestResumes(c) \/ RequestTimer(c)
                             \/ RequestExpires(c)
BY DEF Next, RequestStep, WaitStep, vars, TimePasses, WaitAnswered, WaitDecision, WaitResumes,
       WaitTimer, ResolveUnknown, Resolve, NotifyResolved

LEMMA WaitChanges ==
  ASSUME TypeOK, [Next]_vars
  PROVE  \/ UNCHANGED wait
         \/ \E w \in Waiters, i \in Ids : WaitAnswered(w, i) \/ WaitDecision(w, i)
         \/ \E w \in Waiters : WaitResumes(w) \/ WaitTimer(w)
BY DEF Next, RequestStep, WaitStep, vars, TimePasses, RequestRefused, Request, Forward,
       RequestResumes, RequestTimer, RequestExpires, ResolveUnknown, Resolve, NotifyResolved

LEMMA ResolverChanges ==
  ASSUME TypeOK, [Next]_vars
  PROVE  \/ UNCHANGED resolver
         \/ \E v \in Resolvers, i \in Ids : ResolveUnknown(v, i)
         \/ \E v \in Resolvers, i \in Ids, d \in Decisions : Resolve(v, i, d)
         \/ \E v \in Resolvers : NotifyResolved(v)
BY DEF Next, RequestStep, WaitStep, vars, TimePasses, RequestRefused, Request, Forward,
       RequestResumes, RequestTimer, RequestExpires, WaitAnswered, WaitDecision, WaitResumes,
       WaitTimer

\* Ids never change once they are set, and neither does what a resolver said.
LEMMA RequestIdsStay ==
  ASSUME TypeOK, Blank, [Next]_vars
  PROVE  \A c \in Calls : request[c].id # None => request'[c].id = request[c].id
<1>1. CASE \E c \in Calls, i \in Ids : RequestRefused(c, i)
  BY <1>1 DEF TypeOK, RequestRefused, RequestCall
<1>2. CASE \E c \in Calls, i \in Ids, two \in BOOLEAN : Request(c, i, two)
  BY <1>2 DEF TypeOK, Request, Blank
<1>3. CASE \E c \in Calls : Forward(c) \/ RequestTimer(c) \/ RequestExpires(c)
  <2>1. CASE \E c \in Calls : Forward(c)
    BY <2>1 DEF TypeOK, Forward, RequestCall
  <2>2. CASE \E c \in Calls : RequestTimer(c)
    BY <2>2 DEF TypeOK, RequestTimer, RequestCall
  <2>3. CASE \E c \in Calls : RequestExpires(c)
    BY <2>3 DEF TypeOK, RequestExpires, RequestCall
  <2> QED BY <1>3, <2>1, <2>2, <2>3
<1>4. CASE \E c \in Calls : RequestResumes(c)
  BY <1>4 DEF TypeOK, RequestResumes, RequestCall
<1> QED BY <1>1, <1>2, <1>3, <1>4, RequestChanges

LEMMA WaitIdsStay ==
  ASSUME TypeOK, Blank, [Next]_vars
  PROVE  \A w \in Waiters : wait[w].id # None => wait'[w].id = wait[w].id
<1>1. CASE \E w \in Waiters, i \in Ids : WaitAnswered(w, i)
  BY <1>1 DEF TypeOK, WaitAnswered, Blank
<1>2. CASE \E w \in Waiters, i \in Ids : WaitDecision(w, i)
  BY <1>2 DEF TypeOK, WaitDecision, Blank
<1>3. CASE \E w \in Waiters : WaitResumes(w)
  BY <1>3 DEF TypeOK, WaitResumes, WaitCall
<1>4. CASE \E w \in Waiters : WaitTimer(w)
  BY <1>4 DEF TypeOK, WaitTimer, WaitCall
<1> QED BY <1>1, <1>2, <1>3, <1>4, WaitChanges

LEMMA ResolversStay ==
  ASSUME TypeOK, Blank, [Next]_vars
  PROVE  \A v \in Resolvers : resolver[v].id # None =>
            /\ resolver'[v].id = resolver[v].id
            /\ resolver'[v].decision = resolver[v].decision
            /\ resolver'[v].call = resolver[v].call
<1>1. CASE \E v \in Resolvers, i \in Ids : ResolveUnknown(v, i)
  BY <1>1 DEF TypeOK, ResolveUnknown, ResolveCall
<1>2. CASE \E v \in Resolvers, i \in Ids, d \in Decisions : Resolve(v, i, d)
  BY <1>2 DEF TypeOK, Resolve, Blank
<1>3. CASE \E v \in Resolvers : NotifyResolved(v)
  BY <1>3 DEF TypeOK, NotifyResolved, ResolveCall
<1> QED BY <1>1, <1>2, <1>3, ResolverChanges

LEMMA BlankNext ==
  ASSUME ApprovalAssumption, TypeOK, Blank, [Next]_vars
  PROVE  Blank'
<1>1. \A c \in Calls : request'[c].state \in {"unsent", "refused"} =>
                       request'[c].id = None /\ request'[c].answer = None
  <2> SUFFICES ASSUME NEW c \in Calls, request'[c].state \in {"unsent", "refused"}
               PROVE  request'[c].id = None /\ request'[c].answer = None
    OBVIOUS
  <2>1. CASE \E b \in Calls, i \in Ids : RequestRefused(b, i)
    BY <2>1 DEF TypeOK, RequestRefused, RequestCall, Blank
  <2>2. CASE \E b \in Calls, i \in Ids, two \in BOOLEAN : Request(b, i, two)
    BY <2>2 DEF TypeOK, Request, Blank
  <2>3. CASE \E b \in Calls : Forward(b) \/ RequestTimer(b) \/ RequestExpires(b)
    BY <2>3 DEF TypeOK, Forward, RequestTimer, RequestExpires, RequestCall, Blank
  <2>4. CASE \E b \in Calls : RequestResumes(b)
    BY <2>4 DEF TypeOK, RequestResumes, RequestCall, Blank
  <2> QED BY <2>1, <2>2, <2>3, <2>4, RequestChanges DEF Blank
<1>2. \A w \in Waiters : wait'[w].state = "idle" =>
                         wait'[w].id = None /\ wait'[w].on = None /\ wait'[w].answer = None
  <2>1. CASE \E w \in Waiters, i \in Ids : WaitAnswered(w, i)
    BY <2>1 DEF TypeOK, WaitAnswered, Blank
  <2>2. CASE \E w \in Waiters, i \in Ids : WaitDecision(w, i)
    BY <2>2 DEF TypeOK, WaitDecision, Blank
  <2>3. CASE \E w \in Waiters : WaitResumes(w)
    BY <2>3 DEF TypeOK, WaitResumes, WaitCall, Blank
  <2>4. CASE \E w \in Waiters : WaitTimer(w)
    BY <2>4 DEF TypeOK, WaitTimer, WaitCall, Blank
  <2> QED BY <2>1, <2>2, <2>3, <2>4, WaitChanges DEF Blank
<1>3. \A v \in Resolvers : resolver'[v].state \in {"idle", "unknown"} =>
                           /\ resolver'[v].id = None /\ resolver'[v].call = None
                           /\ resolver'[v].decision = None
  <2>1. CASE \E v \in Resolvers, i \in Ids : ResolveUnknown(v, i)
    BY <2>1 DEF TypeOK, ResolveUnknown, ResolveCall, Blank
  <2>2. CASE \E v \in Resolvers, i \in Ids, d \in Decisions : Resolve(v, i, d)
    BY <2>2 DEF TypeOK, Resolve, Blank
  <2>3. CASE \E v \in Resolvers : NotifyResolved(v)
    BY <2>3 DEF TypeOK, NotifyResolved, ResolveCall, Blank
  <2> QED BY <2>1, <2>2, <2>3, ResolverChanges DEF Blank
<1> QED BY <1>1, <1>2, <1>3 DEF Blank

\* Futures keep their id, and what was said stays said.
LEMMA IdOfStays ==
  ASSUME TypeOK, Blank, [Next]_vars, NEW f \in Makers, IdOf(f) # None
  PROVE  IdOf(f)' = IdOf(f)
BY RequestIdsStay, WaitIdsStay DEF IdOf, Makers

LEMMA SaidStays ==
  ASSUME TypeOK, Blank, [Next]_vars, NEW i \in Ids, NEW d, Said(i, d), None \notin Ids
  PROVE  Said(i, d)'
BY ResolversStay DEF Said

\* What a step may do to the futures dictionaries: drop an entry, or file a fresh
\* future under its own id.
LEMMA SweptKeeps ==
  ASSUME TypeOK, NEW o \in Objects, NEW j \in Ids, SweptDict[o][j] # None
  PROVE  SweptDict[o][j] = dict[o][j]
<1>1. CASE o = current
  BY <1>1 DEF TypeOK, SweptDict, SweptFutures
<1>2. CASE o # current
  BY <1>2 DEF TypeOK, SweptDict
<1> QED BY <1>1, <1>2

LEMMA StoreKeeps ==
  ASSUME TypeOK, NEW x \in Makers, NEW i \in Ids, StoreFuture(x, i),
         NEW o \in Objects, NEW j \in Ids, dict'[o][j] # None
  PROVE  dict'[o][j] = dict[o][j] \/ (j = i /\ dict'[o][j] = x)
<1>1. x \in Objects /\ current \in Objects
  BY DEF TypeOK, Objects
<1>2. CASE SweptFutures = EmptyDict
  <2>1. CASE o = x
    BY <1>1, <1>2, <2>1, SweepTypes DEF StoreFuture, EmptyDict
  <2>2. CASE o # x
    BY <1>1, <1>2, <2>2, SweepTypes, SweptKeeps DEF StoreFuture
  <2> QED BY <2>1, <2>2
<1>3. CASE SweptFutures # EmptyDict
  <2>1. CASE o = current
    BY <1>1, <1>3, <2>1, SweepTypes DEF StoreFuture, SweptFutures
  <2>2. CASE o # current
    BY <1>1, <1>3, <2>2, SweepTypes, SweptKeeps DEF StoreFuture
  <2> QED BY <2>1, <2>2
<1> QED BY <1>2, <1>3

LEMMA FinallyKeeps ==
  ASSUME TypeOK, NEW c \in Calls, Finally(c), NEW o \in Objects, NEW j \in Ids,
         dict'[o][j] # None
  PROVE  dict'[o][j] = dict[o][j]
BY DEF TypeOK, Finally

LEMMA DictStep ==
  ASSUME ApprovalAssumption, TypeOK, [Next]_vars, NEW o \in Objects, NEW j \in Ids,
         dict'[o][j] # None
  PROVE  \/ dict'[o][j] = dict[o][j]
         \/ \E f \in Makers : dict'[o][j] = f /\ IdOf(f)' = j /\ result'[f] = "pending"
<1>1. CASE dict' = dict \/ dict' = SweptDict
  BY <1>1, SweptKeeps
<1>2. CASE \E c \in Calls : Finally(c)
  BY <1>2, FinallyKeeps
<1>3. ASSUME NEW c \in Calls, NEW i \in Ids, NEW two \in BOOLEAN, Request(c, i, two),
             dict'[o][j] # dict[o][j]
      PROVE  \E f \in Makers : dict'[o][j] = f /\ IdOf(f)' = j /\ result'[f] = "pending"
  <2>1. j = i /\ dict'[o][j] = c /\ c \in Makers
    BY <1>3, StoreKeeps DEF Request, Makers
  <2>2. request'[c].id = i
    BY <1>3 DEF Request, TypeOK
  <2>3. result'[c] = "pending"
    BY <1>3, <2>1, SweepTypes DEF Request
  <2>4. IdOf(c)' = i
    BY <2>2 DEF IdOf
  <2> QED BY <2>1, <2>3, <2>4 DEF IdOf
<1>4. ASSUME NEW w \in Waiters, NEW i \in Ids, WaitDecision(w, i), StoreFuture(w, i),
             result' = [SweptResult EXCEPT ![w] = "pending"], dict'[o][j] # dict[o][j]
      PROVE  \E f \in Makers : dict'[o][j] = f /\ IdOf(f)' = j /\ result'[f] = "pending"
  <2>1. j = i /\ dict'[o][j] = w /\ w \in Makers /\ w \notin Calls
    BY <1>4, StoreKeeps DEF Makers, ApprovalAssumption
  <2>2. wait'[w].id = i
    BY <1>4 DEF WaitDecision, TypeOK
  <2>3. result'[w] = "pending"
    BY <1>4, <2>1, SweepTypes
  <2>4. IdOf(w)' = i
    BY <2>1, <2>2 DEF IdOf
  <2> QED BY <2>1, <2>3, <2>4 DEF IdOf
<1>5. ASSUME NEW w \in Waiters, NEW i \in Ids, WaitDecision(w, i)
      PROVE  \/ dict' = SweptDict
             \/ StoreFuture(w, i) /\ result' = [SweptResult EXCEPT ![w] = "pending"]
  BY <1>5 DEF WaitDecision
<1>6. \/ dict' = dict \/ dict' = SweptDict
      \/ \E c \in Calls : Finally(c)
      \/ \E c \in Calls, i \in Ids, two \in BOOLEAN : Request(c, i, two)
      \/ \E w \in Waiters, i \in Ids : WaitDecision(w, i)
  BY DEF Next, RequestStep, WaitStep, vars, TimePasses, RequestRefused, Forward,
         RequestResumes, RequestTimer, RequestExpires, WaitAnswered, WaitResumes, WaitTimer,
         ResolveUnknown, Resolve, NotifyResolved
<1> QED BY <1>1, <1>2, <1>3, <1>4, <1>5, <1>6

\* A future gets a decision only from a resolver of its id.
LEMMA SweptResultIs ==
  ASSUME TypeOK, NEW f \in Makers
  PROVE  SweptResult[f] = result[f] \/ SweptResult[f] = None
BY DEF SweptResult

LEMMA ResultStep ==
  ASSUME ApprovalAssumption, TypeOK, Filed, [Next]_vars, NEW f \in Makers
  PROVE  /\ \/ result'[f] = result[f]
            \/ result'[f] \in {None, "pending", "cancelled"}
            \/ /\ IdOf(f) # None
               /\ \E v \in Resolvers : resolver'[v].id = IdOf(f)
                                       /\ resolver'[v].decision = result'[f]
         /\ result'[f] = "unmade" => result[f] = "unmade"
<1>0. None # "unmade" /\ "unmade" \notin Decisions /\ None \notin Ids
      /\ None \notin Makers
  BY DEF ApprovalAssumption
<1>1. CASE result' = result
  BY <1>1
<1>2. CASE result' = SweptResult
  BY <1>0, <1>2, SweptResultIs
<1>3. ASSUME NEW x \in Makers, result' = [SweptResult EXCEPT ![x] = "pending"]
      PROVE  /\ result'[f] = result[f] \/ result'[f] \in {None, "pending", "cancelled"}
             /\ result'[f] = "unmade" => result[f] = "unmade"
  <2>1. CASE f = x
    BY <1>3, <2>1, SweepTypes
  <2>2. CASE f # x
    BY <1>0, <1>3, <2>2, SweepTypes, SweptResultIs
  <2> QED BY <2>1, <2>2
<1>4. ASSUME NEW x, result' = [result EXCEPT ![x] = "cancelled"]
      PROVE  /\ result'[f] = result[f] \/ result'[f] \in {None, "pending", "cancelled"}
             /\ result'[f] = "unmade" => result[f] = "unmade"
  BY <1>4 DEF TypeOK
<1>5. ASSUME NEW v \in Resolvers, NEW i \in Ids, NEW d \in Decisions, Resolve(v, i, d)
      PROVE  /\ \/ result'[f] = result[f]
                \/ result'[f] \in {None, "pending", "cancelled"}
                \/ /\ IdOf(f) # None
                   /\ resolver'[v].id = IdOf(f) /\ resolver'[v].decision = result'[f]
             /\ result'[f] = "unmade" => result[f] = "unmade"
  <2>1. CASE f = SweptFutures[i] /\ SweptResult[f] = "pending"
    <3>1. result'[f] = d
      BY <1>5, <2>1 DEF Resolve, ResultSet
    <3>2. dict[current][i] = f /\ current \in Objects
      BY <1>0, <2>1 DEF SweptFutures, TypeOK
    <3>3. IdOf(f) = i
      BY <1>0, <3>2 DEF Filed
    <3>4. resolver'[v].id = i /\ resolver'[v].decision = d
      BY <1>5 DEF Resolve, TypeOK
    <3> QED BY <1>0, <3>1, <3>3, <3>4
  <2>2. CASE ~(f = SweptFutures[i] /\ SweptResult[f] = "pending")
    <3>1. result'[f] = SweptResult[f]
      BY <1>5, <2>2 DEF Resolve, ResultSet
    <3> QED BY <1>0, <3>1, SweptResultIs
  <2> QED BY <2>1, <2>2
<1>6. \/ result' = result \/ result' = SweptResult
      \/ \E x \in Makers : result' = [SweptResult EXCEPT ![x] = "pending"]
      \/ \E x : result' = [result EXCEPT ![x] = "cancelled"]
      \/ \E v \in Resolvers, i \in Ids, d \in Decisions : Resolve(v, i, d)
  <2>1. Calls \subseteq Makers /\ Waiters \subseteq Makers
    BY DEF Makers
  <2>2. ASSUME NEW c \in Calls, RequestTimer(c)
        PROVE  \E x : result' = [result EXCEPT ![x] = "cancelled"]
    BY <2>2 DEF RequestTimer
  <2>3. ASSUME NEW w \in Waiters, WaitTimer(w)
        PROVE  \E x : result' = [result EXCEPT ![x] = "cancelled"]
    BY <2>3 DEF WaitTimer
  <2>4. ASSUME NEW c \in Calls, NEW i \in Ids, NEW two \in BOOLEAN, Request(c, i, two)
        PROVE  \E x \in Makers : result' = [SweptResult EXCEPT ![x] = "pending"]
    BY <2>1, <2>4 DEF Request
  <2>5. ASSUME NEW w \in Waiters, NEW i \in Ids, WaitDecision(w, i)
        PROVE  \/ result' = SweptResult
               \/ \E x \in Makers : result' = [SweptResult EXCEPT ![x] = "pending"]
    BY <2>1, <2>5 DEF WaitDecision
  <2> QED BY <2>2, <2>3, <2>4, <2>5 DEF Next, RequestStep, WaitStep, vars, TimePasses,
         RequestRefused, Forward, RequestResumes, RequestExpires, WaitAnswered, WaitResumes,
         ResolveUnknown, NotifyResolved
<1> QED BY <1>1, <1>2, <1>3, <1>4, <1>5, <1>6

LEMMA FiledNext ==
  ASSUME ApprovalAssumption, TypeOK, Blank, Filed, [Next]_vars
  PROVE  Filed'
<1>0. None \notin Ids /\ None \notin Makers /\ "pending" # "unmade" /\ Calls \subseteq Makers
      /\ Waiters \subseteq Makers
  BY DEF ApprovalAssumption, Makers
<1>1. ASSUME NEW f \in Makers, NEW i \in Ids, IdOf(f) = i, result[f] # "unmade"
      PROVE  IdOf(f)' = i /\ result'[f] # "unmade"
  BY <1>0, <1>1, IdOfStays, ResultStep
<1>2. ASSUME NEW o \in Objects, NEW i \in Ids, dict'[o][i] # None
      PROVE  \E f \in Makers : dict'[o][i] = f /\ IdOf(f)' = i /\ result'[f] # "unmade"
  <2>1. CASE dict'[o][i] = dict[o][i]
    <3>1. dict[o][i] \in Makers
      BY <1>2, <2>1 DEF TypeOK
    <3>2. PICK f \in Makers : dict[o][i] = f
      BY <3>1
    <3>3. IdOf(f) = i /\ result[f] # "unmade"
      BY <1>2, <2>1, <3>2 DEF Filed
    <3> QED BY <1>1, <2>1, <3>2, <3>3
  <2> QED BY <1>0, <1>2, <2>1, DictStep
<1>3. ASSUME NEW w \in Waiters, wait'[w].on # None
      PROVE  /\ wait'[w].id \in Ids
             /\ \E f \in Makers : /\ wait'[w].on = f /\ IdOf(f)' = wait'[w].id
                                  /\ result'[f] # "unmade"
  <2>1. CASE wait'[w].on = wait[w].on /\ wait'[w].id = wait[w].id
    <3>1. wait[w].on \in Makers /\ wait[w].id \in Ids
      BY <1>3, <2>1 DEF TypeOK, WaitCall, Filed
    <3>2. PICK f \in Makers : wait[w].on = f
      BY <3>1
    <3>3. IdOf(f) = wait[w].id /\ result[f] # "unmade"
      BY <1>3, <2>1, <3>2 DEF Filed
    <3> QED BY <1>1, <2>1, <3>1, <3>2, <3>3
  <2>2. ASSUME NEW i \in Ids, WaitDecision(w, i)
        PROVE  /\ wait'[w].id = i
               /\ \E f \in Makers : wait'[w].on = f /\ IdOf(f)' = i /\ result'[f] # "unmade"
    <3>1. /\ wait'[w].id = i
          /\ wait'[w].on = IF SweptFutures[i] = None THEN w ELSE SweptFutures[i]
      BY <2>2 DEF WaitDecision, TypeOK
    <3>2. CASE SweptFutures[i] = None
      <4>1. result'[w] = "pending"
        BY <1>0, <2>2, <3>2, SweepTypes DEF WaitDecision
      <4>2. IdOf(w)' = i
        BY <3>1 DEF IdOf, ApprovalAssumption
      <4> QED BY <1>0, <3>1, <3>2, <4>1, <4>2
    <3>3. CASE SweptFutures[i] # None
      <4>1. SweptFutures[i] = dict[current][i] /\ dict[current][i] \in Makers
        BY <3>3 DEF SweptFutures, TypeOK
      <4>2. PICK f \in Makers : dict[current][i] = f
        BY <4>1
      <4>3. IdOf(f) = i /\ result[f] # "unmade"
        BY <3>3, <4>1, <4>2 DEF Filed, TypeOK
      <4> QED BY <1>1, <3>1, <3>3, <4>1, <4>2, <4>3
    <3> QED BY <3>1, <3>2, <3>3
  <2>3. \/ wait'[w].on = wait[w].on /\ wait'[w].id = wait[w].id
        \/ \E i \in Ids : WaitDecision(w, i)
    <3>1. CASE \E x \in Waiters, i \in Ids : WaitAnswered(x, i)
      BY <1>3, <3>1 DEF WaitAnswered, TypeOK
    <3>2. CASE \E x \in Waiters, i \in Ids : WaitDecision(x, i)
      BY <3>2 DEF WaitDecision, TypeOK
    <3>3. CASE \E x \in Waiters : WaitResumes(x)
      BY <3>3 DEF WaitResumes, TypeOK, WaitCall
    <3>4. CASE \E x \in Waiters : WaitTimer(x)
      BY <3>4 DEF WaitTimer, TypeOK, WaitCall
    <3> QED BY <3>1, <3>2, <3>3, <3>4, WaitChanges
  <2> QED BY <2>1, <2>2, <2>3
<1>4. ASSUME NEW c \in Calls, request'[c].state \notin {"unsent", "refused"}
      PROVE  result'[c] # "unmade"
  <2>1. CASE \E i \in Ids, two \in BOOLEAN : Request(c, i, two)
    BY <1>0, <2>1, SweepTypes DEF Request
  <2>2. CASE request[c].state \notin {"unsent", "refused"}
    BY <1>0, <2>2, ResultStep DEF Filed
  <2>3. \/ request[c].state \notin {"unsent", "refused"}
        \/ \E i \in Ids, two \in BOOLEAN : Request(c, i, two)
    <3>1. CASE \E b \in Calls, i \in Ids : RequestRefused(b, i)
      BY <1>4, <3>1 DEF TypeOK, RequestRefused, RequestCall
    <3>2. CASE \E b \in Calls, i \in Ids, two \in BOOLEAN : Request(b, i, two)
      BY <1>4, <3>2 DEF TypeOK, Request
    <3>3. CASE \E b \in Calls : Forward(b) \/ RequestTimer(b) \/ RequestExpires(b)
      BY <1>4, <3>3 DEF TypeOK, Forward, RequestTimer, RequestExpires, RequestCall
    <3>4. CASE \E b \in Calls : RequestResumes(b)
      BY <1>4, <3>4 DEF TypeOK, RequestResumes, RequestCall
    <3> QED BY <1>4, <3>1, <3>2, <3>3, <3>4, RequestChanges
  <2> QED BY <2>1, <2>2, <2>3
<1> QED BY <1>2, <1>3, <1>4 DEF Filed, IdOf

\* What a step may do to a record: keep its owner, or give the id to a new request.
LEMMA PendingStep ==
  ASSUME ApprovalAssumption, TypeOK, Blank, Owned, [Next]_vars, NEW j \in Ids
  PROVE  \/ /\ pending'[j].owner = pending[j].owner
            /\ pending'[j].status = "absent" <=> pending[j].status = "absent"
            /\ \/ pending'[j].decision = pending[j].decision
               \/ pending'[j].decision = None
               \/ /\ pending[j].status # "absent"
                  /\ \E d \in Decisions : pending'[j].decision = d /\ Said(j, d)'
         \/ \E c \in Calls : /\ pending'[j].owner = c /\ request'[c].id = j
                             /\ pending'[j].status = "pending" /\ pending'[j].decision = None
<1>0. None \notin Ids /\ None \notin Calls
  BY DEF ApprovalAssumption, Makers
<1>1. /\ SweptPending[j].owner = pending[j].owner
      /\ SweptPending[j].decision = pending[j].decision
      /\ SweptPending[j].status = "absent" <=> pending[j].status = "absent"
  <2>1. CASE Expired(j)
    <3>1. pending[j].owner # None
      BY <1>0, <2>1 DEF Expired, TypeOK
    <3>2. pending[j].status # "absent"
      BY <3>1 DEF Owned, Absent
    <3>3. pending[j] \in Record
      BY DEF TypeOK
    <3> QED BY <2>1, <3>2, <3>3 DEF SweptPending, Record
  <2>2. CASE ~Expired(j)
    BY <2>2 DEF SweptPending
  <2> QED BY <2>1, <2>2
<1>2. CASE pending' = pending \/ pending' = SweptPending
  BY <1>1, <1>2
<1>3. ASSUME NEW c \in Calls, NEW i \in Ids, NEW two \in BOOLEAN, Request(c, i, two)
      PROVE  \/ pending'[j] = SweptPending[j]
             \/ /\ pending'[j].owner = c /\ request'[c].id = j
                /\ pending'[j].status = "pending" /\ pending'[j].decision = None
  <2>1. request'[c].id = i
    BY <1>3 DEF Request, TypeOK
  <2>2. pending'[j] = IF j = i
                      THEN [owner |-> c, decision |-> None, status |-> "pending"]
                      ELSE SweptPending[j]
    BY <1>3, SweepTypes DEF Request
  <2> QED BY <2>1, <2>2
<1>4. ASSUME NEW c \in Calls, RequestExpires(c)
      PROVE  /\ pending'[j].owner = pending[j].owner
             /\ pending'[j].status = "absent" <=> pending[j].status = "absent"
             /\ pending'[j].decision \in {pending[j].decision, None}
  <2>1. CASE j = request[c].id
    <3>1. pending'[j] = [pending[j] EXCEPT !.status = "expired", !.decision = None]
      BY <1>4, <2>1 DEF RequestExpires, TypeOK
    <3>2. pending[j] \in Record /\ pending[j].status # "absent"
      BY <2>1 DEF TypeOK, Owned, Absent
    <3> QED BY <3>1, <3>2 DEF Record
  <2>2. CASE j # request[c].id
    BY <1>4, <2>2 DEF RequestExpires, TypeOK
  <2> QED BY <2>1, <2>2
<1>5. ASSUME NEW v \in Resolvers, NEW i \in Ids, NEW d \in Decisions, Resolve(v, i, d)
      PROVE  \/ pending'[j] = SweptPending[j]
             \/ /\ pending'[j].owner = pending[j].owner
                /\ pending'[j].status # "absent" /\ pending[j].status # "absent"
                /\ pending'[j].decision = d /\ Said(j, d)'
  <2>1. CASE j = i
    <3>1. SweptPending[j] \in Record
      BY SweepTypes
    <3>2. pending'[j] = [SweptPending[j] EXCEPT !.decision = d, !.status = "resolved"]
      BY <1>5, <2>1, SweepTypes DEF Resolve
    <3>3. pending'[j].owner = pending[j].owner /\ pending'[j].status = "resolved"
          /\ pending'[j].decision = d
      BY <1>1, <3>1, <3>2 DEF Record
    <3>4. resolver'[v].id = j /\ resolver'[v].decision = d
      BY <1>5, <2>1 DEF Resolve, TypeOK
    <3>5. pending[j].status # "absent"
      BY <1>5, <2>1 DEF Resolve, Absent
    <3> QED BY <3>3, <3>4, <3>5 DEF Said
  <2>2. CASE j # i
    BY <1>5, <2>2, SweepTypes DEF Resolve
  <2> QED BY <2>1, <2>2
<1>6. \/ pending' = pending \/ pending' = SweptPending
      \/ \E c \in Calls, i \in Ids, two \in BOOLEAN : Request(c, i, two)
      \/ \E c \in Calls : RequestExpires(c)
      \/ \E v \in Resolvers, i \in Ids, d \in Decisions : Resolve(v, i, d)
  BY DEF Next, RequestStep, WaitStep, vars, TimePasses, RequestRefused, Forward,
         RequestResumes, RequestTimer, WaitAnswered, WaitDecision, WaitResumes, WaitTimer,
         ResolveUnknown, NotifyResolved
<1>7. CASE \E c \in Calls, i \in Ids, two \in BOOLEAN : Request(c, i, two)
  BY <1>1, <1>3, <1>7
<1>8. CASE \E c \in Calls : RequestExpires(c)
  BY <1>4, <1>8
<1>9. CASE \E v \in Resolvers, i \in Ids, d \in Decisions : Resolve(v, i, d)
  BY <1>1, <1>5, <1>9
<1> QED BY <1>2, <1>6, <1>7, <1>8, <1>9

LEMMA OwnedNext ==
  ASSUME ApprovalAssumption, TypeOK, Blank, Owned, [Next]_vars
  PROVE  Owned'
<1>0. None \notin Ids /\ None \notin Calls
  BY DEF ApprovalAssumption, Makers
<1>1. ASSUME NEW j \in Ids
      PROVE  /\ pending'[j].status = "absent" <=> pending'[j].owner = None
             /\ pending'[j].owner # None => request'[pending'[j].owner].id = j
             /\ pending'[j].status = "absent" => pending'[j].decision = None
             /\ pending[j].status # "absent" => pending'[j].status # "absent"
  <2>1. pending[j].owner \in Calls \cup {None}
    BY DEF TypeOK, Record
  <2>2. pending[j].owner # None => request[pending[j].owner].id = j
    BY DEF Owned
  <2>3. pending[j].owner # None => request'[pending[j].owner].id = j
    BY <1>0, <2>1, <2>2, RequestIdsStay
  <2>4. /\ pending[j].status = "absent" <=> pending[j].owner = None
        /\ pending[j].status = "absent" => pending[j].decision = None
    BY DEF Owned, Absent
  <2> QED BY <1>0, <2>3, <2>4, PendingStep
<1>2. ASSUME NEW v \in Resolvers, resolver'[v].id # None
      PROVE  resolver'[v].call \in Calls /\ request'[resolver'[v].call].id = resolver'[v].id
  <2>1. CASE resolver[v].id # None
    BY <2>1, ResolversStay, RequestIdsStay DEF Owned
  <2>2. ASSUME NEW i \in Ids, NEW d \in Decisions, Resolve(v, i, d)
        PROVE  resolver'[v].call \in Calls /\ request'[resolver'[v].call].id = resolver'[v].id
    <3>1. resolver'[v].call = pending[i].owner /\ resolver'[v].id = i
      BY <2>2 DEF Resolve, TypeOK
    <3>2. pending[i].owner \in Calls /\ request[pending[i].owner].id = i
      BY <2>2 DEF Resolve, Owned, TypeOK, Record
    <3> QED BY <1>0, <3>1, <3>2, RequestIdsStay
  <2>3. resolver[v].id # None \/ \E i \in Ids, d \in Decisions : Resolve(v, i, d)
    <3>1. CASE \E x \in Resolvers, i \in Ids : ResolveUnknown(x, i)
      BY <1>2, <3>1 DEF TypeOK, ResolveUnknown, ResolveCall
    <3>2. CASE \E x \in Resolvers, i \in Ids, d \in Decisions : Resolve(x, i, d)
      BY <1>2, <3>2 DEF TypeOK, Resolve
    <3>3. CASE \E x \in Resolvers : NotifyResolved(x)
      BY <1>2, <3>3 DEF TypeOK, NotifyResolved, ResolveCall
    <3> QED BY <1>2, <3>1, <3>2, <3>3, ResolverChanges
  <2> QED BY <2>1, <2>2, <2>3
<1>3. ASSUME NEW c \in Calls, NEW j \in Ids, request'[c].id = j
      PROVE  pending'[j].status # "absent"
  <2>1. CASE request[c].id = j
    BY <1>1, <2>1 DEF Owned, Absent
  <2>2. ASSUME NEW two \in BOOLEAN, Request(c, j, two)
        PROVE  pending'[j].status = "pending"
    BY <2>2, SweepTypes DEF Request
  <2>3. request[c].id = j \/ \E two \in BOOLEAN : Request(c, j, two)
    <3>1. CASE \E b \in Calls, i \in Ids : RequestRefused(b, i)
      BY <1>3, <3>1 DEF TypeOK, RequestRefused, RequestCall
    <3>2. ASSUME NEW b \in Calls, NEW i \in Ids, NEW two \in BOOLEAN, Request(b, i, two)
          PROVE  request[c].id = j \/ Request(c, j, two)
      <4>1. request'[c].id = IF c = b THEN i ELSE request[c].id
        BY <3>2 DEF TypeOK, Request
      <4> QED BY <1>3, <3>2, <4>1
    <3>3. ASSUME NEW b \in Calls, Forward(b) \/ RequestTimer(b) \/ RequestExpires(b)
          PROVE  request'[c].id = request[c].id
      <4>1. CASE Forward(b)
        BY <4>1 DEF TypeOK, Forward, RequestCall
      <4>2. CASE RequestTimer(b)
        BY <4>2 DEF TypeOK, RequestTimer, RequestCall
      <4>3. CASE RequestExpires(b)
        BY <4>3 DEF TypeOK, RequestExpires, RequestCall
      <4> QED BY <3>3, <4>1, <4>2, <4>3
    <3>4. CASE \E b \in Calls : RequestResumes(b)
      BY <1>3, <3>4 DEF TypeOK, RequestResumes, RequestCall
    <3> QED BY <1>3, <3>1, <3>2, <3>3, <3>4, RequestChanges
  <2> QED BY <2>1, <2>2, <2>3
<1> QED BY <1>1, <1>2, <1>3 DEF Owned, Absent

\* Nothing is said of no id.
LEMMA SaidOfAnId ==
  ASSUME TypeOK, Placed, Blank, NEW i \in Ids \cup {None}, NEW d, d # None, Said(i, d)
  PROVE  i \in Ids
BY DEF TypeOK, Placed, Blank, Said, ResolveCall

LEMMA BackedNext ==
  ASSUME ApprovalAssumption, GrantInv, [Next]_vars
  PROVE  Backed'
<1>0. /\ None \notin Ids /\ None \notin Calls /\ Calls \subseteq Makers /\ Waiters \subseteq Makers
      /\ None \notin Decisions /\ "pending" \notin Decisions /\ "cancelled" \notin Decisions
      /\ "unmade" \notin Decisions /\ Calls \cap Waiters = {}
  BY DEF ApprovalAssumption, Makers
<1>1. TypeOK /\ Placed /\ Blank /\ Filed /\ Owned /\ Backed
  BY DEF GrantInv
<1>2. ASSUME NEW i \in Ids \cup {None}, NEW d, d # None, Said(i, d)
      PROVE  i \in Ids /\ Said(i, d)'
  BY <1>0, <1>1, <1>2, SaidOfAnId, SaidStays
<1>3. ASSUME NEW f \in Makers, NEW d \in Decisions, result'[f] = d
      PROVE  \E i \in Ids : IdOf(f)' = i /\ Said(i, d)'
  <2>1. IdOf(f) \in Ids \cup {None}
    BY <1>1 DEF IdOf, TypeOK, RequestCall, WaitCall, Makers
  <2>2. CASE result'[f] = result[f]
    <3>1. Said(IdOf(f), d)
      BY <1>1, <1>3, <2>2 DEF Backed
    <3>2. PICK i \in Ids \cup {None} : IdOf(f) = i
      BY <2>1
    <3>3. i \in Ids /\ Said(i, d)'
      BY <1>0, <1>2, <3>1, <3>2
    <3> QED BY <1>0, <1>1, <3>2, <3>3, IdOfStays
  <2>3. CASE /\ IdOf(f) # None
             /\ \E v \in Resolvers : resolver'[v].id = IdOf(f) /\ resolver'[v].decision = result'[f]
    <3>1. PICK i \in Ids : IdOf(f) = i
      BY <2>1, <2>3
    <3>2. Said(i, d)'
      BY <1>3, <2>3, <3>1 DEF Said
    <3> QED BY <1>0, <1>1, <3>1, <3>2, IdOfStays
  <2> QED BY <1>0, <1>1, <1>3, <2>2, <2>3, ResultStep
<1>4. ASSUME NEW i \in Ids, pending'[i].decision # None
      PROVE  \E d \in Decisions : pending'[i].decision = d /\ Said(i, d)'
  <2>1. pending[i].decision \in Decisions \cup {None}
    BY <1>1 DEF TypeOK, Record
  <2>2. CASE pending'[i].decision = pending[i].decision
    <3>1. PICK d \in Decisions : pending[i].decision = d
      BY <1>4, <2>1, <2>2
    <3>2. Said(i, d)
      BY <1>0, <1>1, <3>1 DEF Backed
    <3> QED BY <1>0, <1>2, <2>2, <3>1, <3>2
  <2> QED BY <1>1, <1>4, <2>2, PendingStep
<1>5. ASSUME NEW c \in Calls, request'[c].answer # None
      PROVE  \E i \in Ids, d \in Answers :
                request'[c].id = i /\ request'[c].answer = d /\ Said(i, d)'
  <2>1. request[c].id \in Ids \cup {None} /\ request[c].answer \in Answers
    BY <1>1 DEF TypeOK, RequestCall
  <2>2. CASE request'[c].answer = request[c].answer /\ request'[c].id = request[c].id
    <3>1. PICK i \in Ids \cup {None}, d \in Answers : request[c].id = i /\ request[c].answer = d
      BY <2>1
    <3>2. Said(i, d) /\ d # None
      BY <1>1, <1>5, <2>2, <3>1 DEF Backed
    <3> QED BY <1>2, <2>2, <3>1, <3>2
  <2>3. CASE /\ RequestResumes(c)
             /\ request'[c].answer = result[c] /\ request'[c].id = request[c].id
             /\ result[c] # "cancelled"
    <3>1. request[c].state = "waiting" /\ result[c] # "pending"
      BY <2>3 DEF RequestResumes
    <3>2. result[c] # "unmade"
      BY <1>1, <3>1 DEF Filed
    <3>3. result[c] \in Decisions
      BY <1>0, <1>1, <1>5, <2>3, <3>1, <3>2 DEF TypeOK, Results
    <3>4. Said(request[c].id, result[c])
      BY <1>0, <1>1, <3>3 DEF Backed, IdOf
    <3>5. PICK i \in Ids \cup {None}, d \in Decisions : request[c].id = i /\ result[c] = d
      BY <2>1, <3>3
    <3> QED BY <1>0, <1>2, <2>3, <3>4, <3>5 DEF Answers
  <2>4. \/ request'[c].answer = None
        \/ request'[c].answer = request[c].answer /\ request'[c].id = request[c].id
        \/ /\ RequestResumes(c)
           /\ request'[c].answer = result[c] /\ request'[c].id = request[c].id
           /\ result[c] # "cancelled"
    <3>1. ASSUME NEW b \in Calls, NEW i \in Ids, RequestRefused(b, i)
          PROVE  request'[c].answer = request[c].answer /\ request'[c].id = request[c].id
      BY <1>1, <3>1 DEF TypeOK, RequestRefused, RequestCall
    <3>2. ASSUME NEW b \in Calls, NEW i \in Ids, NEW two \in BOOLEAN, Request(b, i, two)
          PROVE  \/ request'[c].answer = None
                 \/ request'[c].answer = request[c].answer /\ request'[c].id = request[c].id
      BY <1>1, <3>2 DEF TypeOK, Request
    <3>3. ASSUME NEW b \in Calls, Forward(b) \/ RequestTimer(b) \/ RequestExpires(b)
          PROVE  request'[c].answer = request[c].answer /\ request'[c].id = request[c].id
      <4>1. CASE Forward(b)
        BY <1>1, <4>1 DEF TypeOK, Forward, RequestCall
      <4>2. CASE RequestTimer(b)
        BY <1>1, <4>2 DEF TypeOK, RequestTimer, RequestCall
      <4>3. CASE RequestExpires(b)
        BY <1>1, <4>3 DEF TypeOK, RequestExpires, RequestCall
      <4> QED BY <3>3, <4>1, <4>2, <4>3
    <3>4. ASSUME NEW b \in Calls, RequestResumes(b)
          PROVE  \/ request'[c].answer = None
                 \/ request'[c].answer = request[c].answer /\ request'[c].id = request[c].id
                 \/ /\ b = c
                    /\ request'[c].answer = result[c] /\ request'[c].id = request[c].id
                    /\ result[c] # "cancelled"
      BY <1>1, <3>4 DEF TypeOK, RequestResumes, RequestCall
    <3> QED BY <1>1, <3>1, <3>2, <3>3, <3>4, RequestChanges
  <2> QED BY <1>5, <2>2, <2>3, <2>4
<1>6. ASSUME NEW w \in Waiters, wait'[w].answer # None
      PROVE  \E i \in Ids, d \in Answers :
                wait'[w].id = i /\ wait'[w].answer = d /\ Said(i, d)'
  <2>1. wait[w].id \in Ids \cup {None} /\ wait[w].answer \in Answers
    BY <1>1 DEF TypeOK, WaitCall
  <2>2. CASE wait'[w].answer = wait[w].answer /\ wait'[w].id = wait[w].id
    <3>1. PICK i \in Ids \cup {None}, d \in Answers : wait[w].id = i /\ wait[w].answer = d
      BY <2>1
    <3>2. Said(i, d) /\ d # None
      BY <1>1, <1>6, <2>2, <3>1 DEF Backed
    <3> QED BY <1>2, <2>2, <3>1, <3>2
  <2>3. ASSUME NEW i \in Ids, wait'[w].id = i, wait'[w].answer = pending[i].decision
        PROVE  \E d \in Answers : wait'[w].answer = d /\ Said(i, d)'
    <3>1. PICK d \in Decisions \cup {None} : pending[i].decision = d
      BY <1>1 DEF TypeOK, Record
    <3>2. Said(i, d) /\ d # None
      BY <1>1, <1>6, <2>3, <3>1 DEF Backed
    <3> QED BY <1>2, <2>3, <3>1, <3>2 DEF Answers
  <2>4. CASE /\ WaitResumes(w) /\ wait'[w].id = wait[w].id
             /\ wait'[w].answer = result[wait[w].on] /\ result[wait[w].on] # "cancelled"
    <3>1. wait[w].on \in Makers /\ wait[w].on # None /\ result[wait[w].on] # "pending"
      BY <1>0, <1>1, <2>4 DEF WaitResumes, Placed, ApprovalAssumption
    <3>2. PICK f \in Makers : wait[w].on = f
      BY <3>1
    <3>3. wait[w].id \in Ids /\ IdOf(f) = wait[w].id /\ result[f] # "unmade"
      BY <1>1, <3>1, <3>2 DEF Filed
    <3>4. result[f] \in Decisions
      BY <1>1, <1>6, <2>4, <3>1, <3>2, <3>3 DEF TypeOK, Results
    <3>5. Said(wait[w].id, result[f])
      BY <1>1, <3>3, <3>4 DEF Backed
    <3>6. PICK i \in Ids, d \in Decisions : wait[w].id = i /\ result[f] = d
      BY <3>3, <3>4
    <3> QED BY <1>0, <1>2, <2>4, <3>2, <3>5, <3>6 DEF Answers
  <2>5. \/ wait'[w].answer = None
        \/ wait'[w].answer = wait[w].answer /\ wait'[w].id = wait[w].id
        \/ \E i \in Ids : wait'[w].id = i /\ wait'[w].answer = pending[i].decision
        \/ /\ WaitResumes(w) /\ wait'[w].id = wait[w].id
           /\ wait'[w].answer = result[wait[w].on] /\ result[wait[w].on] # "cancelled"
    <3>1. ASSUME NEW x \in Waiters, NEW i \in Ids, WaitAnswered(x, i)
          PROVE  \/ wait'[w].answer = wait[w].answer /\ wait'[w].id = wait[w].id
                 \/ wait'[w].id = i /\ wait'[w].answer = pending[i].decision
      BY <1>1, <3>1 DEF TypeOK, WaitAnswered
    <3>2. ASSUME NEW x \in Waiters, NEW i \in Ids, WaitDecision(x, i)
          PROVE  \/ wait'[w].answer = None
                 \/ wait'[w].answer = wait[w].answer /\ wait'[w].id = wait[w].id
      BY <1>1, <3>2 DEF TypeOK, WaitDecision
    <3>3. ASSUME NEW x \in Waiters, WaitTimer(x)
          PROVE  wait'[w].answer = wait[w].answer /\ wait'[w].id = wait[w].id
      BY <1>1, <3>3 DEF TypeOK, WaitTimer, WaitCall
    <3>4. ASSUME NEW x \in Waiters, WaitResumes(x)
          PROVE  \/ wait'[w].answer = None
                 \/ wait'[w].answer = wait[w].answer /\ wait'[w].id = wait[w].id
                 \/ /\ x = w /\ wait'[w].id = wait[w].id
                    /\ wait'[w].answer = result[wait[w].on] /\ result[wait[w].on] # "cancelled"
      BY <1>1, <3>4 DEF TypeOK, WaitResumes, WaitCall
    <3> QED BY <1>1, <3>1, <3>2, <3>3, <3>4, WaitChanges
  <2> QED BY <1>6, <2>2, <2>3, <2>4, <2>5
<1> QED BY <1>3, <1>4, <1>5, <1>6 DEF Backed, Said, IdOf

LEMMA GrantInvInit == ApprovalAssumption /\ Init => GrantInv
<1> SUFFICES ASSUME ApprovalAssumption, Init PROVE GrantInv
  OBVIOUS
<1>1. TypeOK
  BY ApprovalTypesInit
<1>2. Placed /\ Blank
  BY DEF Init, Placed, Blank
<1>3. Filed
  BY DEF Init, Filed, EmptyDict
<1>4. Owned
  BY DEF Init, Owned, Absent, ApprovalAssumption
<1>5. Backed
  BY DEF Init, Backed, ApprovalAssumption
<1> QED BY <1>1, <1>2, <1>3, <1>4, <1>5 DEF GrantInv

\* Whatever ids are reused and whichever futures are lost, swept or cancelled, no
\* request and no waitDecision is told a decision nobody made for its id.
THEOREM NobodyInventsADecision == Spec => []NoPhantomGrant
<1>1. ApprovalAssumption /\ GrantInv /\ [Next]_vars => GrantInv'
  BY ApprovalTypesNext, PlacedNext, BlankNext, FiledNext, OwnedNext, BackedNext DEF GrantInv
<1> QED BY <1>1, ApprovalAssumption, GrantInvInit, GrantInvImplies, PTL DEF Spec

-------------------------------------------------------------------------------
(* While ids are fresh and nothing has expired, the current dictionary is the *)
(* one every waiting request holds, and each undecided record has its future  *)
(* in it.                                                                     *)

Calm == (\A c \in Calls : request[c].id # None => OnlyUser(c)) /\ overdue = {}
Active(c) == request[c].state \in {"broadcasting", "waiting", "accepted"}

Timely ==
  /\ \A c \in Calls : request[c].state = "timing_out" => c \in overdue
  /\ \A c \in Calls : request[c].state \notin {"unsent", "refused"} => request[c].id \in Ids

Held ==
  /\ \A c \in Calls : request[c].state \in {"broadcasting", "waiting"} => request[c].held = current
  /\ \A c \in Calls : Active(c) => dict[current][request[c].id] = c
  /\ \A i \in Ids : Taken(i) => Active(pending[i].owner) /\ result[pending[i].owner] = "pending"

CalmInv == GrantInv /\ Timely /\ (Calm => Held)

LEMMA CalmInvImplies == CalmInv => ListedIsDecidable
<1> SUFFICES ASSUME CalmInv, Calm, NEW i \in Ids, Listed(i)
             PROVE  dict[current][i] = pending[i].owner /\ result[pending[i].owner] = "pending"
  BY DEF ListedIsDecidable, Calm
<1>1. Held /\ Owned /\ TypeOK
  BY DEF CalmInv, GrantInv
<1>2. Taken(i)
  BY DEF Listed, Taken
<1>3. pending[i].owner \in Calls /\ request[pending[i].owner].id = i
  BY <1>1, <1>2 DEF Owned, Taken, TypeOK, Record
<1> QED BY <1>1, <1>2, <1>3 DEF Held

LEMMA TimelyNext == TypeOK /\ Timely /\ [Next]_vars => Timely'
<1> SUFFICES ASSUME TypeOK, Timely, [Next]_vars PROVE Timely'
  OBVIOUS
<1>1. overdue \subseteq overdue'
  BY DEF Next, RequestStep, WaitStep, vars, TimePasses, RequestRefused, Request, Forward,
         RequestResumes, RequestTimer, RequestExpires, WaitAnswered, WaitDecision, WaitResumes,
         WaitTimer, ResolveUnknown, Resolve, NotifyResolved
<1>2. CASE \E b \in Calls, i \in Ids : RequestRefused(b, i)
  BY <1>1, <1>2 DEF Timely, TypeOK, RequestRefused, RequestCall
<1>3. CASE \E b \in Calls, i \in Ids, two \in BOOLEAN : Request(b, i, two)
  BY <1>1, <1>3 DEF Timely, TypeOK, Request
<1>4. CASE \E b \in Calls : Forward(b)
  BY <1>1, <1>4 DEF Timely, TypeOK, Forward, RequestCall
<1>5. CASE \E b \in Calls : RequestTimer(b)
  BY <1>1, <1>5 DEF Timely, TypeOK, RequestTimer, RequestCall
<1>6. CASE \E b \in Calls : RequestExpires(b)
  BY <1>1, <1>6 DEF Timely, TypeOK, RequestExpires, RequestCall
<1>7. CASE \E b \in Calls : RequestResumes(b)
  BY <1>1, <1>7 DEF Timely, TypeOK, RequestResumes, RequestCall
<1>8. CASE UNCHANGED request
  BY <1>1, <1>8 DEF Timely
<1> QED BY <1>2, <1>3, <1>4, <1>5, <1>6, <1>7, <1>8, RequestChanges

LEMMA CalmBefore ==
  ASSUME TypeOK, Blank, [Next]_vars, Calm'
  PROVE  Calm
<1>1. overdue \subseteq overdue'
  BY DEF Next, RequestStep, WaitStep, vars, TimePasses, RequestRefused, Request, Forward,
         RequestResumes, RequestTimer, RequestExpires, WaitAnswered, WaitDecision, WaitResumes,
         WaitTimer, ResolveUnknown, Resolve, NotifyResolved
<1>2. ASSUME NEW c \in Calls, NEW b \in Calls, request[c].id # None,
             request[b].id = request[c].id
      PROVE  b = c
  BY <1>2, RequestIdsStay DEF Calm, OnlyUser
<1> QED BY <1>1, <1>2 DEF Calm, OnlyUser

\* Nothing has expired, so the sweep does nothing.
LEMMA CalmSweep ==
  ASSUME TypeOK, overdue = {}
  PROVE  /\ SweptPending = pending /\ SweptFutures = dict[current]
         /\ SweptResult = result /\ SweptDict = dict
<1>1. \A i \in Ids : ~Expired(i)
  BY DEF Expired
<1>2. SweptFutures = dict[current]
  BY <1>1 DEF SweptFutures, TypeOK
<1> QED BY <1>1, <1>2 DEF SweptPending, SweptResult, SweptDict, TypeOK

LEMMA RequestKeepsHeld ==
  ASSUME ApprovalAssumption, CalmInv, Calm, Calm', NEW c \in Calls, NEW i \in Ids,
         NEW two \in BOOLEAN, Request(c, i, two)
  PROVE  Held'
<1>1. TypeOK /\ Blank /\ Filed /\ Owned /\ Held /\ Timely
  BY DEF CalmInv, GrantInv
<1>2. /\ pending' = [pending EXCEPT ![i] = [owner |-> c, decision |-> None, status |-> "pending"]]
      /\ result' = [result EXCEPT ![c] = "pending"]
      /\ request' = [request EXCEPT ![c] = [state |-> "broadcasting", id |-> i, twoPhase |-> two,
                                            held |-> current', answer |-> None]]
      /\ request[c].state = "unsent" /\ request[c].id = None
  BY <1>1, CalmSweep DEF Request, Calm, Blank
<1>3. ASSUME NEW b \in Calls, b # c, Active(b)
      PROVE  /\ request'[b] = request[b] /\ request[b].id \in Ids /\ request[b].id # i
             /\ dict[current][request[b].id] = b /\ b # None
  <2>1. request'[b] = request[b] /\ request'[c].id = i
    BY <1>1, <1>2, <1>3 DEF TypeOK
  <2>2. request[b].id \in Ids
    BY <1>1, <1>3 DEF Timely, Active
  <2>3. request[b].id # i
    BY <1>3, <2>1, <2>2 DEF Calm, OnlyUser, ApprovalAssumption
  <2> QED BY <1>1, <1>3, <2>1, <2>2, <2>3 DEF Held, ApprovalAssumption, Makers
<1>4. /\ request'[c].state = "broadcasting" /\ request'[c].id = i /\ request'[c].held = current'
      /\ dict'[current'][i] = c
      /\ \A b \in Calls : b # c => request'[b] = request[b]
  <2>1. c \in Objects /\ current \in Objects
    BY <1>1 DEF TypeOK, Objects, Makers
  <2>2. dict'[current'][i] = c
    BY <1>1, <2>1, SweepTypes DEF Request, StoreFuture, EmptyDict
  <2> QED BY <1>1, <1>2, <2>2 DEF TypeOK
<1>5. ASSUME NEW b \in Calls, b # c, Active(b)
      PROVE  current' = current /\ dict'[current'][request[b].id] = b
  <2>1. dict[current][request[b].id] # None /\ request[b].id \in Ids
    BY <1>3, <1>5
  <2>2. SweptFutures # EmptyDict
    BY <1>1, <2>1, CalmSweep DEF EmptyDict, Calm
  <2>3. current' = current
        /\ dict' = [SweptDict EXCEPT ![current] = [SweptFutures EXCEPT ![i] = c]]
    BY <2>2 DEF Request, StoreFuture
  <2>4. current \in Objects /\ SweptFutures = dict[current]
    BY <1>1, CalmSweep DEF TypeOK, Calm
  <2>5. dict'[current] = [dict[current] EXCEPT ![i] = c]
    BY <1>1, <2>3, <2>4, SweepTypes
  <2> QED BY <1>1, <1>3, <1>5, <2>1, <2>3, <2>4, <2>5 DEF TypeOK
<1>6. ASSUME NEW j \in Ids, j # i, pending'[j].status # "absent", pending'[j].decision = None
      PROVE  /\ pending'[j].owner \in Calls /\ pending'[j].owner # c
             /\ Active(pending'[j].owner) /\ result'[pending'[j].owner] = "pending"
  <2>1. pending'[j] = pending[j] /\ Taken(j)
    BY <1>1, <1>2, <1>6 DEF TypeOK, Taken, Absent
  <2>2. pending[j].owner \in Calls /\ request[pending[j].owner].id = j
    BY <1>1, <2>1 DEF Owned, Taken, TypeOK, Record
  <2>3. pending[j].owner # c
    BY <1>2, <2>2 DEF ApprovalAssumption
  <2>4. Active(pending[j].owner) /\ result[pending[j].owner] = "pending"
    BY <1>1, <2>1 DEF Held
  <2>5. pending[j].owner \in Makers
    BY <2>2 DEF Makers
  <2> QED BY <1>1, <1>2, <2>1, <2>2, <2>3, <2>4, <2>5 DEF TypeOK
<1>7. pending'[i].owner = c /\ result'[c] = "pending"
  BY <1>1, <1>2 DEF TypeOK, Makers
<1>8. \A b \in Calls : request'[b].state \in {"broadcasting", "waiting"} =>
                       request'[b].held = current'
  BY <1>1, <1>4, <1>5 DEF Held, Active
<1>9. \A b \in Calls : request'[b].state \in {"broadcasting", "waiting", "accepted"} =>
                       dict'[current'][request'[b].id] = b
  BY <1>4, <1>5 DEF Active
<1>10. ASSUME NEW j \in Ids, pending'[j].status # "absent", pending'[j].decision = None
       PROVE  /\ request'[pending'[j].owner].state \in {"broadcasting", "waiting", "accepted"}
              /\ result'[pending'[j].owner] = "pending"
  BY <1>4, <1>6, <1>7, <1>10 DEF Active
<1> QED BY <1>8, <1>9, <1>10 DEF Held, Active, Taken, Absent

\* A call ends its wait: it leaves the dictionary the others keep using.
LEMMA ResumeKeepsHeld ==
  ASSUME ApprovalAssumption, CalmInv, Calm, NEW c \in Calls, RequestResumes(c)
  PROVE  Held'
<1>1. TypeOK /\ Filed /\ Owned /\ Held /\ Timely
  BY DEF CalmInv, GrantInv
<1>2. /\ request[c].state = "waiting" /\ result[c] # "pending" /\ request[c].held = current
      /\ request[c].id \in Ids /\ current \in Objects
  BY <1>1 DEF RequestResumes, Held, Timely, TypeOK
<1>3. /\ current' = current
      /\ dict'[current] = [dict[current] EXCEPT ![request[c].id] = None]
      /\ pending' = pending /\ result' = result
  BY <1>1, <1>2 DEF RequestResumes, Finally, TypeOK
<1>4. ~(request'[c].state \in {"broadcasting", "waiting", "accepted"})
      /\ \A b \in Calls : b # c => request'[b] = request[b]
  BY <1>1 DEF RequestResumes, TypeOK, RequestCall
<1>5. ASSUME NEW b \in Calls, b # c, Active(b)
      PROVE  dict'[current][request[b].id] = b
  <2>1. request[b].id \in Ids /\ dict[current][request[b].id] = b
    BY <1>1, <1>5 DEF Held, Timely, Active
  <2>2. request[b].id # request[c].id
    BY <1>2, <1>5 DEF Calm, OnlyUser, ApprovalAssumption
  <2> QED BY <1>1, <1>2, <1>3, <2>1, <2>2 DEF TypeOK
<1>6. ASSUME NEW j \in Ids, Taken(j)
      PROVE  pending[j].owner \in Calls /\ pending[j].owner # c /\ Active(pending[j].owner)
             /\ result[pending[j].owner] = "pending"
  BY <1>1, <1>2, <1>6 DEF Held, Owned, Taken, TypeOK, Record
<1>7. \A b \in Calls : request'[b].state \in {"broadcasting", "waiting"} =>
                       request'[b].held = current'
  BY <1>1, <1>3, <1>4 DEF Held
<1>8. \A b \in Calls : request'[b].state \in {"broadcasting", "waiting", "accepted"} =>
                       dict'[current'][request'[b].id] = b
  BY <1>3, <1>4, <1>5 DEF Active
<1>9. ASSUME NEW j \in Ids, pending'[j].status # "absent", pending'[j].decision = None
      PROVE  /\ request'[pending'[j].owner].state \in {"broadcasting", "waiting", "accepted"}
             /\ result'[pending'[j].owner] = "pending"
  BY <1>3, <1>4, <1>6, <1>9 DEF Active, Taken, Absent
<1> QED BY <1>7, <1>8, <1>9 DEF Held, Active, Taken, Absent

LEMMA ResolveKeepsHeld ==
  ASSUME ApprovalAssumption, CalmInv, Calm, NEW v \in Resolvers, NEW i \in Ids,
         NEW d \in Decisions, Resolve(v, i, d)
  PROVE  Held'
<1>1. TypeOK /\ Filed /\ Owned /\ Held
  BY DEF CalmInv, GrantInv
<1>2. /\ pending' = [pending EXCEPT ![i].decision = d, ![i].status = "resolved"]
      /\ dict' = dict /\ current' = current /\ request' = request
      /\ \A f \in Makers : f # dict[current][i] => result'[f] = result[f]
  BY <1>1, CalmSweep DEF Resolve, ResultSet, Calm
<1>3. pending'[i].decision = d /\ d # None
  <2>1. pending[i] \in Record
    BY <1>1 DEF TypeOK
  <2>2. pending'[i] = [pending[i] EXCEPT !.decision = d, !.status = "resolved"]
    BY <1>1, <1>2 DEF TypeOK
  <2> QED BY <2>1, <2>2 DEF Record, ApprovalAssumption
<1>4. ASSUME NEW j \in Ids, pending'[j].status # "absent", pending'[j].decision = None
      PROVE  /\ request[pending'[j].owner].state \in {"broadcasting", "waiting", "accepted"}
             /\ result'[pending'[j].owner] = "pending"
  <2>1. j # i
    BY <1>3, <1>4
  <2>2. pending'[j] = pending[j] /\ Taken(j)
    BY <1>1, <1>2, <1>4, <2>1 DEF TypeOK, Taken, Absent
  <2>3. /\ pending[j].owner \in Calls /\ request[pending[j].owner].id = j
        /\ Active(pending[j].owner) /\ result[pending[j].owner] = "pending"
    BY <1>1, <2>2 DEF Held, Owned, Taken, TypeOK, Record
  <2>4. PICK c \in Calls : pending[j].owner = c
    BY <2>3
  <2>5. c # dict[current][i]
    BY <1>1, <2>1, <2>3, <2>4 DEF Filed, IdOf, TypeOK, ApprovalAssumption, Makers
  <2> QED BY <1>2, <2>2, <2>3, <2>4, <2>5 DEF Active, Makers
<1> QED BY <1>1, <1>2, <1>4 DEF Held, Active, Taken, Absent

LEMMA HeldNext ==
  ASSUME ApprovalAssumption, CalmInv, [Next]_vars, Calm'
  PROVE  Held'
<1>1. TypeOK /\ Blank /\ Owned /\ Timely
  BY DEF CalmInv, GrantInv
<1>2. Calm /\ overdue = {} /\ overdue' = {}
  BY <1>1, CalmBefore DEF Calm
<1>3. Held
  BY <1>2 DEF CalmInv
<1>4. SweptPending = pending /\ SweptResult = result /\ SweptDict = dict
      /\ SweptFutures = dict[current]
  BY <1>1, <1>2, CalmSweep
<1>5. CASE UNCHANGED <<pending, dict, current, result, request>>
  BY <1>3, <1>5 DEF Held, Active, Taken, Absent
<1>6. ASSUME NEW c \in Calls, NEW i \in Ids, RequestRefused(c, i) PROVE Held'
  <2>1. /\ UNCHANGED <<pending, dict, current, result>>
        /\ \A b \in Calls : b # c => request'[b] = request[b]
        /\ request[c].state = "unsent" /\ request'[c].state = "refused"
    BY <1>1, <1>4, <1>6 DEF RequestRefused, TypeOK, RequestCall
  <2>2. \A j \in Ids : Taken(j) => pending[j].owner \in Calls
    BY <1>1 DEF Owned, Taken, TypeOK, Record
  <2> QED BY <1>3, <2>1, <2>2 DEF Held, Active, Taken, Absent
<1>7. ASSUME NEW c \in Calls, Forward(c) PROVE Held'
  <2>1. /\ UNCHANGED <<pending, dict, current, result>>
        /\ \A b \in Calls : b # c => request'[b] = request[b]
        /\ request[c].state = "broadcasting" /\ request'[c].state \in {"accepted", "waiting"}
        /\ request'[c].held = request[c].held /\ request'[c].id = request[c].id
    BY <1>1, <1>7 DEF Forward, TypeOK, RequestCall
  <2>2. \A j \in Ids : Taken(j) => pending[j].owner \in Calls
    BY <1>1 DEF Owned, Taken, TypeOK, Record
  <2> QED BY <1>3, <2>1, <2>2 DEF Held, Active, Taken, Absent
<1>8. ASSUME NEW w \in Waiters, NEW i \in Ids, WaitDecision(w, i)
      PROVE  UNCHANGED <<pending, dict, current, result, request>>
  <2>1. Taken(i) /\ pending[i].owner \in Calls /\ request[pending[i].owner].id = i
    BY <1>1, <1>8 DEF WaitDecision, Owned, Taken, TypeOK, Record
  <2>2. SweptFutures[i] # None
    BY <1>3, <1>4, <2>1 DEF Held, ApprovalAssumption, Makers
  <2> QED BY <1>4, <1>8, <2>2 DEF WaitDecision
<1>9. ASSUME NEW w \in Waiters, NEW i \in Ids, WaitAnswered(w, i)
      PROVE  UNCHANGED <<pending, dict, current, result, request>>
  BY <1>4, <1>9 DEF WaitAnswered
<1>10. ASSUME NEW w \in Waiters, WaitResumes(w)
       PROVE  UNCHANGED <<pending, dict, current, result, request>>
  BY <1>10 DEF WaitResumes
<1>11. ASSUME NEW v \in Resolvers, NEW i \in Ids, ResolveUnknown(v, i)
       PROVE  UNCHANGED <<pending, dict, current, result, request>>
  BY <1>4, <1>11 DEF ResolveUnknown
<1>12. ASSUME NEW v \in Resolvers, NotifyResolved(v)
       PROVE  UNCHANGED <<pending, dict, current, result, request>>
  BY <1>12 DEF NotifyResolved
<1>13. /\ ~ \E c \in Calls : RequestTimer(c) \/ RequestExpires(c) \/ TimePasses(c)
       /\ ~ \E w \in Waiters : WaitTimer(w)
  BY <1>1, <1>2 DEF RequestTimer, RequestExpires, TimePasses, WaitTimer, Timely
<1> QED BY <1>2, <1>5, <1>6, <1>7, <1>8, <1>9, <1>10, <1>11, <1>12, <1>13, RequestKeepsHeld,
           ResumeKeepsHeld, ResolveKeepsHeld DEF Next, RequestStep, WaitStep, vars

\* While no id is reused and nothing has expired, each approval an operator is shown
\* has its requester's future in the dictionary that resolve will look into.
THEOREM EveryListedApprovalCounts == Spec => []ListedIsDecidable
<1>1. ApprovalAssumption /\ Init => CalmInv
  <2> SUFFICES ASSUME ApprovalAssumption, Init PROVE CalmInv
    OBVIOUS
  <2>1. GrantInv
    BY GrantInvInit
  <2>2. Timely /\ Held
    BY DEF Init, Timely, Held, Active, Taken, Absent
  <2> QED BY <2>1, <2>2 DEF CalmInv
<1>2. ApprovalAssumption /\ CalmInv /\ [Next]_vars => CalmInv'
  <2> SUFFICES ASSUME ApprovalAssumption, CalmInv, [Next]_vars PROVE CalmInv'
    OBVIOUS
  <2>1. GrantInv'
    BY ApprovalTypesNext, PlacedNext, BlankNext, FiledNext, OwnedNext, BackedNext
       DEF GrantInv, CalmInv
  <2>2. Timely'
    BY TimelyNext DEF GrantInv, CalmInv
  <2>3. Calm' => Held'
    BY HeldNext
  <2> QED BY <2>1, <2>2, <2>3 DEF CalmInv
<1> QED BY <1>1, <1>2, ApprovalAssumption, CalmInvImplies, PTL DEF Spec
===============================================================================
