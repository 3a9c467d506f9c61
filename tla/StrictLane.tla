------------------------------ MODULE StrictLane ------------------------------
(***************************************************************************)
(* What the lane queue promises (lane_queue_service.py, module docstring): *)
(* "per-session strict FIFO", "running: at most one run per session",      *)
(* "pending: list of enqueued items per session".  A request that meets a  *)
(* free lane is served at once, one that meets a busy lane waits its turn, *)
(* one that meets a full queue is turned away, and when a run ends the     *)
(* oldest waiting request of that lane is served next.                     *)
(***************************************************************************)
EXTENDS Naturals, Sequences

CONSTANTS Requests, Sessions, MaxPending, NoRequest

VARIABLES arrived, \* requests the gateway has answered
          active,  \* active[s]: the request being served on lane s, or NoRequest
          waiting  \* waiting[s]: the accepted requests behind it, oldest first

vars == <<arrived, active, waiting>>

Init == /\ arrived = {}
        /\ active = [s \in Sessions |-> NoRequest]
        /\ waiting = [s \in Sessions |-> <<>>]

Arrive(r) == r \notin arrived /\ arrived' = arrived \cup {r}

Serve(r, s) == /\ Arrive(r)
               /\ active[s] = NoRequest
               /\ active' = [active EXCEPT ![s] = r]
               /\ UNCHANGED waiting

Wait(r, s) == /\ Arrive(r)
              /\ active[s] # NoRequest
              /\ Len(waiting[s]) < MaxPending
              /\ waiting' = [waiting EXCEPT ![s] = Append(@, r)]
              /\ UNCHANGED active

TurnAway(r, s) == /\ Arrive(r)
                  /\ active[s] # NoRequest
                  /\ Len(waiting[s]) >= MaxPending
                  /\ UNCHANGED <<active, waiting>>

Finish(s) ==
  /\ active[s] # NoRequest
  /\ \/ /\ waiting[s] = <<>>
        /\ active' = [active EXCEPT ![s] = NoRequest]
        /\ UNCHANGED waiting
     \/ /\ waiting[s] # <<>>
        /\ active' = [active EXCEPT ![s] = Head(waiting[s])]
        /\ waiting' = [waiting EXCEPT ![s] = Tail(@)]
  /\ UNCHANGED arrived

Next == \/ \E r \in Requests, s \in Sessions :
             Serve(r, s) \/ Wait(r, s) \/ TurnAway(r, s)
        \/ \E s \in Sessions : Finish(s)

Spec == Init /\ [][Next]_vars /\ \A s \in Sessions : WF_vars(Finish(s))
===============================================================================
