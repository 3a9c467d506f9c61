----------------------------- MODULE MCLaneQueue ------------------------------
(***************************************************************************)
(* Instances of LaneQueue for TLC.  With fresh keys a run id is the        *)
(* request itself (the uuid the gateway draws); with shared keys two       *)
(* clients' requests carry the same idempotencyKey and the others their    *)
(* own.                                                                    *)
(***************************************************************************)
EXTENDS LaneQueue, TLC

CONSTANTS r1, r2, shared \* named, because the keys are not symmetric

FreshKeys == [r \in Requests |-> r]

SharedKeys == [r \in Requests |-> IF r \in {r1, r2} THEN shared ELSE r]

Symmetries == Permutations({r1, r2}) \cup Permutations(Sessions) \cup Permutations(Waiters)
===============================================================================
